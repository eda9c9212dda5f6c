------------------------------ MODULE Dossier -------------------------------
(***************************************************************************)
(* The page of one character (web/js/dossier.js).  A refresh reads three   *)
(* endpoints at once, then the account if it does not have it yet, and     *)
(* then repaints; refreshes overlap, and any request may fail.             *)
(***************************************************************************)
EXTENDS Integers, Sequences, FiniteSets

CONSTANTS MaxRefreshes, MaxFacts        \* bounds: refreshes; changes in the game

VARIABLES
    fact,       \* how often what the page shows has changed at the server
    newest,     \* the counter `latest' of renderDossier
    loads,      \* each refresh: what its requests came to
    account,    \* the account has been read once
    page,       \* what is on screen
    actionsShown    \* the forms are rendered, once

dossierVars == <<fact, newest, loads, account, actionsShown, page>>

Parts == {"character", "inventory", "timeline"}
Pending == -1
Failed == -2
NotRead == [p \in Parts |-> Pending]
-----------------------------------------------------------------------------
\* renderDossier() ends with a first refresh.
DossierInit ==
    /\ fact = 0 /\ newest = 1 /\ account = FALSE /\ actionsShown = FALSE
    /\ loads = <<[at |-> "parts", got |-> NotRead]>>
    /\ page = [of |-> 0, got |-> NotRead, problem |-> FALSE, half |-> FALSE]

FactChanges ==
    /\ fact < MaxFacts /\ fact' = fact + 1
    /\ UNCHANGED <<newest, loads, account, actionsShown, page>>

\* After a command, or by the Retry of the problem line.
Refresh ==
    /\ newest < MaxRefreshes /\ (page.of # 0 \/ page.problem)
    /\ newest' = newest + 1
    /\ loads' = Append(loads, [at |-> "parts", got |-> NotRead])
    /\ UNCHANGED <<fact, account, actionsShown, page>>

\* The server answers one of the three requests, or it fails.
PartAnswered ==
    /\ \E k \in DOMAIN loads, p \in Parts, v \in {fact, Failed} :
         /\ loads[k].at = "parts" /\ loads[k].got[p] = Pending
         /\ loads' = [loads EXCEPT ![k].got[p] = v]
    /\ UNCHANGED <<fact, newest, account, actionsShown, page>>

Stage(k, at) == loads' = [loads EXCEPT ![k].at = at]
Ends(k) == loads' = [loads EXCEPT ![k] = [at |-> "over", got |-> NotRead]]

\* Promise.all has all three; the account is asked for until it is known, and
\* its failure costs one label: that of an overlapping refresh too.
PartsArrive ==
    /\ \E k \in DOMAIN loads :
         /\ loads[k].at = "parts" /\ \A p \in Parts : loads[k].got[p] >= 0
         /\ Stage(k, IF account THEN "draw" ELSE "account")
    /\ UNCHANGED <<fact, newest, account, actionsShown, page>>

AccountArrives ==
    /\ \E k \in DOMAIN loads : loads[k].at = "account" /\ Stage(k, "draw")
    /\ account' \in BOOLEAN
    /\ UNCHANGED <<fact, newest, actionsShown, page>>

\* An operator introduced as a mistake is never used: it is the definition
\* that follows it with one plausible slip, which a run's properties catch.

MayComplain(k) == k = newest

\* Mistake: an answer is shown whichever refresh it belongs to.
MayDrawAlways(k) == TRUE

MayDraw(k) == k = newest

\* The repaint: a body of an unusable shape is a problem and nothing changes;
\* what fails in rendering the forms is one beside the page as it was repainted,
\* and the forms are tried again only where the plan itself failed.
Draw ==
    /\ \E k \in DOMAIN loads, shape \in {"usable", "unusable"}, half, shown \in BOOLEAN :
         /\ loads[k].at = "draw" /\ Ends(k)
         /\ IF MayDraw(k) /\ shape = "usable"
            THEN /\ actionsShown => shown /\ ~half
                 /\ shown \/ half
                 /\ actionsShown' = shown
                 /\ page' = [of |-> k, got |-> loads[k].got, problem |-> half, half |-> half]
            ELSE /\ ~shown /\ ~half
                 /\ page' = IF MayDraw(k) THEN [page EXCEPT !.problem = TRUE] ELSE page
                 /\ UNCHANGED actionsShown
    /\ UNCHANGED <<fact, newest, account>>

\* Promise.all rejects with the first failure: what was read stays on screen.
Complain ==
    /\ \E k \in DOMAIN loads :
         /\ loads[k].at = "parts" /\ \E p \in Parts : loads[k].got[p] = Failed
         /\ Ends(k)
         /\ page' = IF MayComplain(k) THEN [page EXCEPT !.problem = TRUE] ELSE page
    /\ UNCHANGED <<fact, newest, account, actionsShown>>

DossierNext ==
    FactChanges \/ Refresh \/ PartAnswered \/ PartsArrive \/ AccountArrives \/ Draw \/ Complain

DossierSpec == DossierInit /\ [][DossierNext]_dossierVars
-----------------------------------------------------------------------------
(***************************************************************************)
(* Properties.                                                             *)
(***************************************************************************)
\* Once no refresh is under way, a page that is not of the last one says so, and
\* the only problem a page of the last one has is that of its forms.
QuietPageIsLatest ==
    (\A k \in DOMAIN loads : loads[k].at = "over") =>
        page.problem <=> page.of # newest \/ page.half
=============================================================================
