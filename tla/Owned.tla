------------------------------- MODULE Owned --------------------------------
(***************************************************************************)
(* Reads about one owner: whether it exists, and what it has.              *)
(*   GET /characters/{id}/inventory   the owner's `online', then its items;*)
(*   GET /accounts/{id}/characters    the owner, then its characters;      *)
(*   GET /characters/{id}, /accounts/{id}, /items/{id}   the owner alone.  *)
(* The two statements see two instants, and between them the game may log  *)
(* the owner in, change what it has, save it, and log it out.              *)
(***************************************************************************)
EXTENDS Integers, Sequences

CONSTANT MaxChanges     \* bound: changes in all

VARIABLES
    exists,     \* the owner's row is there
    online,     \* its `online' column
    live,       \* what the game holds it to have: the number of the change
    stored,     \* what the database holds it to have
    ask,        \* the request under way, or its answer
    was         \* what was the case at some instant of it

ownedWorld == <<exists, online, live, stored>>
ownedVars == <<ownedWorld, ask, was>>

None == 0           \* the owner has nothing
Asking == ask.at # "answered"

\* What the owner has: in the game while it is logged in, else in the database.
Truth == IF online THEN live ELSE stored
Instant == [exists |-> exists, has |-> Truth]

Happens ==
    IF Asking THEN was' = was \cup {Instant'} /\ UNCHANGED ask
    ELSE was' = {} /\ ask' = [kind |-> "none", at |-> "answered"]
-----------------------------------------------------------------------------
OwnedInit ==
    /\ exists = FALSE /\ online = FALSE /\ live = None /\ stored = None
    /\ ask = [kind |-> "none", at |-> "answered"] /\ was = {}

CreateOwner ==
    /\ ~exists /\ exists' = TRUE
    /\ UNCHANGED <<online, live, stored>> /\ Happens

\* Only an owner that is not in the game is deleted, and all it has with it.
DeleteOwner ==
    /\ exists /\ ~online /\ exists' = FALSE /\ stored' = None
    /\ UNCHANGED <<online, live>> /\ Happens

Login ==
    /\ exists /\ ~online /\ online' = TRUE /\ live' = stored
    /\ UNCHANGED <<exists, stored>> /\ Happens

Change ==
    /\ online /\ live < MaxChanges /\ live' = live + 1
    /\ UNCHANGED <<exists, online, stored>> /\ Happens

Save ==
    /\ online /\ stored' = live
    /\ UNCHANGED <<exists, online, live>> /\ Happens

\* The last save is written before the owner is marked as gone.
Logout ==
    /\ online /\ stored = live /\ online' = FALSE
    /\ UNCHANGED <<exists, live, stored>> /\ Happens

\* The map server dies: what it had not saved never happened.
GameDies ==
    /\ online /\ online' = FALSE /\ live' = stored
    /\ UNCHANGED <<exists, stored>> /\ Happens
-----------------------------------------------------------------------------
\* An operator introduced as a mistake is never used: it is the definition
\* that follows it with one plausible slip, which a run's properties catch.

\* Mistake: what the owner has is read first.
StatementsRowsFirst(k) == IF k = "one" THEN <<"owner">> ELSE <<"has", "owner">>

Statements(k) == IF k = "one" THEN <<"owner">> ELSE <<"owner", "has">>

AskOwned ==
    /\ ~Asking
    /\ \E k \in {"inventory", "characters", "one"} :
         ask' = [kind |-> k, at |-> Statements(k)[1], next |-> 1, status |-> 0,
                 stale |-> FALSE, has |-> None]
    /\ was' = {Instant}
    /\ UNCHANGED ownedWorld

\* The next statement, or the answer.
Further(a) ==
    ask' = IF a.next = Len(Statements(a.kind))
           THEN [a EXCEPT !.at = "answered", !.status = 200]
           ELSE [a EXCEPT !.at = Statements(a.kind)[a.next + 1], !.next = @ + 1]

\* The inventory's `stale' is the `online' read here.
ReadOwner ==
    /\ ask.at = "owner"
    /\ IF exists THEN Further([ask EXCEPT !.stale = online])
       ELSE ask' = [ask EXCEPT !.at = "answered", !.status = 404]
    /\ UNCHANGED <<ownedWorld, was>>

ReadHas ==
    /\ ask.at = "has"
    /\ Further([ask EXCEPT !.has = stored])
    /\ UNCHANGED <<ownedWorld, was>>

OwnedNext ==
    \/ CreateOwner \/ DeleteOwner \/ Login \/ Change \/ Save \/ Logout \/ GameDies
    \/ AskOwned \/ ReadOwner \/ ReadHas

OwnedSpec == OwnedInit /\ [][OwnedNext]_ownedVars
-----------------------------------------------------------------------------
(***************************************************************************)
(* Properties.                                                             *)
(***************************************************************************)
\* An inventory that is not called stale is what the owner had, in the game or
\* out of it, at some instant of the request: a login, a save or a logout
\* between the two statements does not pass off an older one.
NotStaleWasTrue ==
    ask.at = "answered" /\ ask.kind = "inventory" /\ ask.status = 200 /\ ~ask.stale =>
        \E i \in was : i.has = ask.has

\* 404 says that the owner was missing, and an answer that it was there: no list
\* of nothing is given for an owner that never was.
AbsenceWasTrue ==
    ask.at = "answered" /\ ask.kind # "none" =>
        \E i \in was : i.exists = (ask.status = 200)

\* Together: what an answer about an owner says was so while it was asked.
AnswerWasTrue == NotStaleWasTrue /\ AbsenceWasTrue
=============================================================================
