--------------------------- MODULE BrowserSession ---------------------------
(***************************************************************************)
(* The tabs of one browser: session.js, the 401 of api.js, and app.js from *)
(* the sign-in form to the view it draws.                                  *)
(*                                                                         *)
(* All tabs share one token in localStorage.  Each keeps a copy in memory, *)
(* and hears of a change made by another tab from a storage event that     *)
(* comes when the browser gets to it.  A tab runs a handler to its next    *)
(* await in one step; between two awaits of a route anything may happen.   *)
(*                                                                         *)
(* Handlers are functions from a tab to a tab.  latestRoute is not a       *)
(* number here: each route knows whether it is still the latest one.       *)
(*                                                                         *)
(* An operator called a mistake is used nowhere.  It is the definition that*)
(* follows it with one plausible mistake in it, which a property catches.  *)
(***************************************************************************)
EXTENDS Integers, Sequences

CONSTANTS
    Tabs,          \* tabs of the browser, open from the start
    Subjects,      \* accounts someone signs in with
    Powerless,     \* those without system.read
    MaxTokens,     \* bound: sign-ins that succeed
    Slots,         \* bound: calls of route() under way in one tab
    MaxTurns,      \* bound: hash changes, Retries, failures and tokens running out, together
    None

Tokens == 1..MaxTokens

ASSUME BrowserSessionAssumption ==
    /\ Powerless \subseteq Subjects
    /\ MaxTokens \in Nat /\ MaxTurns \in Nat
    /\ None \notin Tokens \cup Subjects

VARIABLES
    storage,       \* the token in localStorage, or None
    events,        \* events[t]: newValue of the storage events tab t has yet to see
    tab,           \* tab[t]: the variables of startApp and createSession in tab t
    subject,       \* subject[k]: the account token k was issued to, or None
    ranOut,        \* the tokens whose time to live is over: the server takes them no more
    turns,         \* so far: hash changes, Retries, requests that failed for no reason of
                   \* the session, and tokens that ran out
    shown,         \* history: shown[t], the last account tab t drew a view for since
                   \* its own sign-in form
    cut            \* history: cut[t], the account tab t was switching to when its route
                   \* was cut off between its two answers, since then; or None

history == <<shown, cut>>
vars == <<storage, events, tab, subject, ranOut, turns, history>>

Views == {"login", "signing in", "placeholder", "app", "powerless", "error"}

\* One call of route(): which answer it awaits, the token its request was sent with and
\* whether the server took that one then, whether it is the latest call, and the notice
\* it has decided on.
Route == [pc : {"free", "me", "caps"}, token : Tokens \cup {None}, good : BOOLEAN,
          mine : BOOLEAN, notice : BOOLEAN]

NoRoute == [pc |-> "free", token |-> None, good |-> FALSE, mine |-> FALSE, notice |-> FALSE]

Tab == [held : Tokens \cup {None}, me : Subjects \cup {None},
        meToken : Tokens \cup {None}, previous : Subjects \cup {None},
        view : Views, drawn : Tokens \cup {None}, notice : BOOLEAN,
        asked : BOOLEAN, route : [Slots -> Route]]
------------------------------------------------------------------------------
(***************************************************************************)
(* What one tab does to itself.                                            *)
(***************************************************************************)

\* session.token(): memory first, storage only when memory has none.
Read(b) == IF b.held = None THEN storage ELSE b.held

\* latestRoute += 1
Bump(b) == [b EXCEPT !.route = [r \in Slots |-> [b.route[r] EXCEPT !.mine = FALSE]]]

Free(b, r) == [b EXCEPT !.route[r] = NoRoute]

Draw(b, view, notice) ==
    [b EXCEPT !.view = view, !.drawn = b.meToken, !.notice = notice]

\* showLogin()
ShowLogin(b) == [Draw(Bump(b), "login", FALSE) EXCEPT !.previous = None, !.drawn = None]

\* A view of the account is drawn, and the notice with it or not; either way it is spent.
DrawAccount(b, view, notice) == [Draw(b, view, notice) EXCEPT !.previous = None]

\* A request of the latest route leaves.
Sent(request, k, notice) ==
    [pc |-> request, token |-> k, good |-> k \notin ranOut, mine |-> TRUE, notice |-> notice]

\* The part of route() after auth/me, or the whole of it when `me' is still good.  The
\* view of an account without permissions has no room for the notice.
AfterMe(b, r, k, notice) ==
    IF b.me \in Powerless
    THEN DrawAccount(Free(b, r), "powerless", FALSE)
    ELSE [b EXCEPT !.route[r] = Sent("caps", k, notice)]

\* route(), up to its first await.
Routed(b, r) ==
    LET k == Read(b)
        c == [Bump(b) EXCEPT !.held = k]
    IN  IF k = None THEN ShowLogin(c)
        ELSE IF k = b.meToken THEN AfterMe(c, r, k, FALSE)
        ELSE [c EXCEPT !.route[r] = Sent("me", k, FALSE)]

\* me = null; meToken = null; session.expire() or signOut() or refresh()
Forget(b) == [b EXCEPT !.held = None, !.me = None, !.meToken = None]
------------------------------------------------------------------------------
(***************************************************************************)
(* What the tabs share.                                                    *)
(***************************************************************************)

\* localStorage takes a value; the other tabs will hear of it, after what they have yet
\* to hear, if it is another one.
Store(t, v, pending) ==
    /\ storage' = v
    /\ events' = [o \in Tabs |-> IF o # t /\ v # storage THEN Append(pending[o], v)
                                 ELSE pending[o]]

\* The test of expire(): only what this tab itself holds is removed.
Removes(held) == held # None /\ storage = held

\* session.expire()
Expire(t, held, pending) ==
    IF Removes(held) THEN Store(t, None, pending)
    ELSE storage' = storage /\ events' = pending

Become(t, b) == tab' = [tab EXCEPT ![t] = b]

\* The account the operator of tab t was last shown, or last missed.
LastOf(t) == IF cut[t] # None THEN cut[t] ELSE shown[t]

\* The route that took another account over stops, by a failure or for another, and has
\* drawn nothing.
CutOff(t) ==
    /\ LastOf(t) # None /\ tab[t].me \notin {None, LastOf(t)}
    /\ \E r \in Slots : /\ tab[t].route[r].pc = "caps" /\ tab[t].route[r].mine
                        /\ ~tab'[t].route[r].mine

\* History: whose view the operator of tab t was last shown, and whose has been cut off
\* since.
Seen(t) ==
    LET out   == tab'[t].view \in {"login", "signing in"}
        drawn == tab'[t].drawn \notin {None, tab[t].drawn}
    IN  /\ shown' = [shown EXCEPT ![t] = IF out THEN None
                                         ELSE IF drawn THEN subject[tab'[t].drawn] ELSE @]
        /\ cut' = [cut EXCEPT ![t] = IF out \/ drawn THEN None
                                     ELSE IF CutOff(t) THEN tab[t].me ELSE @]

FreeSlot(t, r) == tab[t].route[r].pc = "free"
------------------------------------------------------------------------------
(***************************************************************************)
(* Signing in and out.                                                     *)
(***************************************************************************)

\* The submit handler of renderLogin, up to its await; its button is then disabled.
Submit(t) ==
    /\ tab[t].view = "login" /\ ~tab[t].asked
    /\ Become(t, [tab[t] EXCEPT !.view = "signing in", !.asked = TRUE])
    /\ UNCHANGED <<storage, events, subject, ranOut, turns, history>>

\* The server issues a token: session.save(), then onLoggedIn().
SignIn(t, s) ==
    /\ tab[t].asked
    /\ \E k \in Tokens, r \in Slots :
         /\ subject[k] = None /\ \A j \in Tokens : j < k => subject[j] # None
         /\ FreeSlot(t, r)
         /\ subject' = [subject EXCEPT ![k] = s]
         /\ Store(t, k, events)
         /\ Become(t, Routed([tab[t] EXCEPT !.held = k, !.asked = FALSE], r))
    /\ shown' = [shown EXCEPT ![t] = None]
    /\ cut' = [cut EXCEPT ![t] = None]
    /\ UNCHANGED <<ranOut, turns>>

\* A sign-in that is refused or not answered gives its form back, if it is still there.
SignInFails(t) ==
    /\ tab[t].asked
    /\ Become(t, [tab[t] EXCEPT !.asked = FALSE,
                    !.view = IF @ = "signing in" THEN "login" ELSE @])
    /\ UNCHANGED <<storage, events, subject, ranOut, turns, history>>

\* The Sign out button, which stands in the header of every view but the form.
SignOut(t) ==
    /\ tab[t].view \notin {"login", "signing in"}
    /\ Store(t, None, events)
    /\ Become(t, ShowLogin(Forget(tab[t])))
    /\ Seen(t)
    /\ UNCHANGED <<subject, ranOut, turns>>

\* The time to live of a token runs out.
RunOut(k) ==
    /\ subject[k] # None /\ k \notin ranOut
    /\ ranOut' = ranOut \cup {k}
    /\ turns < MaxTurns /\ turns' = turns + 1
    /\ UNCHANGED <<storage, events, tab, subject, history>>
------------------------------------------------------------------------------
(***************************************************************************)
(* The storage event.                                                      *)
(***************************************************************************)

\* Mistake: the listener goes by the token `me' was fetched for.
BelievedByMe(b) == b.meToken

\* The token the listener compares the event with.
Believed(b) == b.held

\* sessionChangeFromStorage(): ended, replaced, or nothing to this tab.  An ended session
\* is expired, so what this tab holds may be removed from the storage in turn.
Heard(t) == [events EXCEPT ![t] = Tail(@)]

HearEnded(t, v) ==
    /\ v = None /\ Believed(tab[t]) # None
    /\ Expire(t, tab[t].held, Heard(t))
    /\ Become(t, ShowLogin(Forget(tab[t])))

\* handleReplaced(): the view leaves the document first, then route() runs.
HearReplaced(t, v) ==
    /\ v # None /\ v # Believed(tab[t])
    /\ LET b == Draw(Bump(tab[t]), "placeholder", FALSE)
           c == [b EXCEPT !.previous = IF b.me # None THEN b.me ELSE @, !.drawn = None]
       IN  \E r \in Slots : FreeSlot(t, r) /\ Become(t, Routed(Forget(c), r))
    /\ events' = Heard(t)
    /\ UNCHANGED storage

HearNothing(t, v) ==
    /\ \/ v = None /\ Believed(tab[t]) = None
       \/ v # None /\ v = Believed(tab[t])
    /\ events' = Heard(t)
    /\ UNCHANGED <<storage, tab>>

HandleEvent(t) ==
    /\ events[t] # <<>>
    /\ LET v == Head(events[t])
       IN  HearEnded(t, v) \/ HearReplaced(t, v) \/ HearNothing(t, v)
    /\ Seen(t)
    /\ UNCHANGED <<subject, ranOut, turns>>
------------------------------------------------------------------------------
(***************************************************************************)
(* route() and its answers.                                                *)
(***************************************************************************)

\* A hash change, or the Retry of the error view.
Navigate(t) ==
    /\ turns < MaxTurns
    /\ \E r \in Slots : FreeSlot(t, r) /\ Become(t, Routed(tab[t], r))
    /\ turns' = turns + 1
    /\ Seen(t)
    /\ UNCHANGED <<storage, events, subject, ranOut>>

\* Mistake: any 401 ends the session.
EndsSessionAlways(b, k) == TRUE

\* response.status === 401 && getToken() === token
EndsSession(b, k) == Read(b) = k

\* A 401 arrives, for a token that has run out: api.js acts on it before the
\* route that asked sees it.
ReceiveUnauthorized(t, r) ==
    LET b == Free(tab[t], r)
        k == tab[t].route[r].token
    IN  /\ ~FreeSlot(t, r) /\ k \in ranOut
        /\ IF EndsSession(tab[t], k)
           THEN Expire(t, Read(b), events) /\ Become(t, ShowLogin(Forget(b)))
           ELSE /\ Become(t, [b EXCEPT !.held = Read(b)])
                /\ UNCHANGED <<storage, events>>
        /\ Seen(t)
        /\ UNCHANGED <<subject, ranOut, turns>>

\* Mistake: no check after the await that a newer route has not begun.
IsLatestUnchecked(p) == TRUE

\* mine === latestRoute
IsLatest(p) == p.mine

\* Any other failure: the error view, unless another route is the latest.
ReceiveFailure(t, r) ==
    LET p == tab[t].route[r]
        b == Free(tab[t], r)
    IN  /\ ~FreeSlot(t, r) /\ turns < MaxTurns
        /\ turns' = turns + 1
        /\ Become(t, IF IsLatest(p) THEN [Draw(b, "error", FALSE) EXCEPT !.drawn = None] ELSE b)
        /\ Seen(t)
        /\ UNCHANGED <<storage, events, subject, ranOut>>

\* Mistake: `me' is asked who it was, although handleReplaced() has cleared it.
NoticeDueOfMe(b, s) == b.me # None /\ b.me # s

\* crossTabPreviousSubject !== null && crossTabPreviousSubject !== fetched.subject
NoticeDue(b, s) == b.previous # None /\ b.previous # s

\* me = fetched; meToken = token
Takes(b, p) == [b EXCEPT !.me = subject[p.token], !.meToken = p.token]

\* auth/me answers: the notice is decided, `me' is taken over, capabilities are asked.
ReceiveMe(t, r) ==
    LET p == tab[t].route[r]
        b == tab[t]
        s == subject[p.token]
        c == Takes(b, p)
    IN  /\ p.pc = "me" /\ p.good
        /\ Become(t, IF IsLatest(p)
                     THEN AfterMe(c, r, Read(c), NoticeDue(b, s))
                     ELSE Free(b, r))
        /\ Seen(t)
        /\ UNCHANGED <<storage, events, subject, ranOut, turns>>

\* capabilities answer: the view is drawn.
ReceiveCaps(t, r) ==
    LET p == tab[t].route[r]
        b == Free(tab[t], r)
    IN  /\ p.pc = "caps" /\ p.good
        /\ Become(t, IF IsLatest(p) THEN DrawAccount(b, "app", p.notice) ELSE b)
        /\ Seen(t)
        /\ UNCHANGED <<storage, events, subject, ranOut, turns>>
------------------------------------------------------------------------------
Init ==
    /\ storage = None
    /\ events = [t \in Tabs |-> <<>>]
    /\ tab = [t \in Tabs |-> [held |-> None, me |-> None, meToken |-> None,
                              previous |-> None, view |-> "login", drawn |-> None,
                              notice |-> FALSE, asked |-> FALSE,
                              route |-> [r \in Slots |-> NoRoute]]]
    /\ subject = [k \in Tokens |-> None]
    /\ ranOut = {}
    /\ turns = 0
    /\ shown = [t \in Tabs |-> None]
    /\ cut = [t \in Tabs |-> None]

Session(t) ==
    \/ Submit(t) \/ SignInFails(t) \/ SignOut(t) \/ HandleEvent(t)
    \/ \E s \in Subjects : SignIn(t, s)

Routing(t) ==
    \/ Navigate(t)
    \/ \E r \in Slots : \/ ReceiveUnauthorized(t, r)
                        \/ ReceiveFailure(t, r) \/ ReceiveMe(t, r) \/ ReceiveCaps(t, r)

Next == (\E t \in Tabs : Session(t) \/ Routing(t)) \/ (\E k \in Tokens : RunOut(k))

Spec == Init /\ [][Next]_vars
------------------------------------------------------------------------------
(***************************************************************************)
(* Properties.                                                             *)
(***************************************************************************)

\* Every variable holds what the variable of the program behind it can hold.
TypeOK ==
    /\ storage \in Tokens \cup {None}
    /\ events \in [Tabs -> Seq(Tokens \cup {None})]
    /\ tab \in [Tabs -> Tab]
    /\ subject \in [Tokens -> Subjects \cup {None}]
    /\ ranOut \subseteq Tokens
    /\ turns \in Nat
    /\ shown \in [Tabs -> Subjects \cup {None}]
    /\ cut \in [Tabs -> Subjects \cup {None}]

Awaited(t) == {r \in Slots : tab[t].route[r].pc # "free"}

\* A view of an account is only on screen as long as the tab holds the token it was drawn
\* for, or while the route that will replace it is under way: no answer that comes late
\* draws over the sign-in form, or over the view of a newer session.
ViewFollowsSession ==
    \A t \in Tabs : tab[t].view \in {"app", "powerless"} =>
       \/ tab[t].drawn = tab[t].held
       \/ \E r \in Slots : tab[t].route[r].pc # "free" /\ tab[t].route[r].mine

\* `me' is the account meToken was issued to: an answer for an earlier token, however
\* late, never puts its name and permissions under a later one.
MeIsOfItsToken ==
    \A t \in Tabs : tab[t].me # None =>
       tab[t].meToken # None /\ subject[tab[t].meToken] = tab[t].me

\* Together: what a tab shows and what it knows of the account belong to one session.
ScreenFollowsSession == TypeOK /\ ViewFollowsSession /\ MeIsOfItsToken

\* A 401 never removes a token the server still accepts, whichever tab it reaches and
\* whatever has been signed in since it was sent.
LateAnswersSpareSessions ==
    [][\A t \in Tabs, r \in Slots :
         (tab[t].route[r].pc # "free" /\ tab'[t].route[r].pc = "free"
            /\ storage # None /\ storage' = None)
           => storage \in ranOut]_vars

Quiet == \A t \in Tabs : events[t] = <<>> /\ Awaited(t) = {} /\ ~tab[t].asked

\* When nothing is under way the tabs agree: each that holds a token holds the one that is
\* stored, none shows an account of a session that is over, and none is left switching.
TabsAgree ==
    Quiet => \A t \in Tabs : /\ tab[t].held \in {None, storage}
                             /\ storage = None => tab[t].view = "login"
                             /\ tab[t].view \notin {"placeholder", "signing in"}

\* What session.js says of a sign-in in another tab: all tabs adopt it, those on the
\* sign-in form too.
SignInIsAdopted ==
    Quiet /\ storage # None => \A t \in Tabs : tab[t].view # "login"

\* What startApp says of `me', which the view is drawn from: it is trustworthy for
\* requests made under its token, so those of the view are made under that one.
\* TLC refutes it; README says how.
ViewSendsAsItself ==
    \A t \in Tabs : tab[t].view = "app" => Read(tab[t]) = tab[t].drawn

\* The account whose view is on screen has become another tab's.
Switches(t) ==
    tab'[t].view = "app" /\ shown[t] # None /\ shown'[t] \notin {None, shown[t]}

\* What startApp says of the notice: it belongs to whichever route is the one that draws.
\* The account whose view is on screen does not change to another tab's without it,
\* however many sessions replaced each other, and whatever was navigated, retried or failed
\* on the way.  Left out is one account alone: the one whose own switch was cut off after
\* its auth/me and before its view was drawn, for which see NoticeIsNeverLost.  And an
\* account without permissions, whose message carries no notice.
SwitchIsAnnounced ==
    [][\A t \in Tabs : Switches(t) /\ shown'[t] # cut[t] => tab'[t].notice]_vars

\* What startApp says of it without that exception: a route that is interrupted, or that
\* ends in the error view, leaves the notice to the one that draws, so that a Retry can
\* still show it.  TLC refutes it; README says how.
NoticeIsNeverLost ==
    [][\A t \in Tabs : Switches(t) => tab'[t].notice]_vars
=============================================================================
