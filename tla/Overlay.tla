------------------------------- MODULE Overlay -------------------------------
(***************************************************************************)
(* The command queue of ro-admin and everything that touches it: the POST  *)
(* and GET handlers of the API, the two NPC scripts that consume the queue *)
(* from inside a map server, and the faults they meet.                     *)
(*                                                                         *)
(* The grain is one SQL statement.  A map server runs its scripts, its     *)
(* players and its console commands on ONE thread, so between two          *)
(* statements of a tick nothing else happens on that server, while the API *)
(* and the other map servers do as they like.  query_sql is synchronous,   *)
(* its result is never checked, and a statement that fails is to the       *)
(* script a statement that returned no row.                                *)
(***************************************************************************)
EXTENDS Integers, FiniteSets

CONSTANTS
    Servers,         \* map servers that share the database
    Scripts,         \* Scripts[s]: the tiers server s has installed
    Instances,       \* values the .instance of a script may take
    Chars,           \* character ids a request may name
    Registered,      \* those that have a row in `char`
    Clients,         \* callers of the API, each with one POST to make
    AskedActions,    \* the actions those callers may ask for
    ForeignActions,  \* actions a program other than the API may write
    MaxRows,         \* bound: rows the queue can hold
    MaxFaults,       \* bound: SQL statements that fail
    MaxLoads,        \* bound: boots and @reloadscripts together
    MaxCrashes,      \* bound: map servers that die
    None

Tiers == {"tier1", "tier2"}
ApiActions == {"give_item", "adjust_zeny", "sync_character"}
Ids == 1..MaxRows

ASSUME OverlayAssumption ==
    /\ Scripts \in [Servers -> SUBSET Tiers]
    /\ Registered \subseteq Chars
    /\ AskedActions \subseteq ApiActions
    /\ ForeignActions \cap ApiActions = {}
    /\ MaxRows \in Nat /\ MaxFaults \in Nat /\ MaxLoads \in Nat /\ MaxCrashes \in Nat
    /\ None \notin Instances \cup Servers \cup Chars
       \cup AskedActions \cup ForeignActions

VARIABLES
    row,         \* ro_admin_commands
    synced,      \* the characters that have a row in ro_admin_sync
    heartbeat,   \* heartbeat[t]: the heartbeat row of tier t
    loaded,      \* loaded[s]: the tiers whose script runs on server s
    instance,    \* instance[s][t]: .instance of that script
    session,     \* session[c]: the server that holds character c in memory
    pc,          \* pc[s]: the next statement of the tick server s is in
    tier,        \* tier[s]: the script that tick belongs to
    cmd,         \* cmd[s]: .@cmd of that tick
    err,         \* err[s]: .@err$ of that tick
    client,      \* client[k]: the POST of caller k and what it was told
    faults,      \* SQL statements that have failed so far
    loads,       \* boots and reloads so far
    crashes,     \* crashes so far
    deed         \* history: deed[i], what the game did for row i

tables == <<row, synced, heartbeat>>
thread == <<pc, tier, cmd, err>>
world  == <<loaded, instance, session, loads, crashes>>
vars   == <<tables, thread, world, client, faults, deed>>
------------------------------------------------------------------------------
\* The operators named "With...", "Without..." and the like in this module are never
\* used by it.  Each is the definition that follows it with one plausible mistake
\* in it, and each run's properties have been seen to catch it.

\* Mistake: as it was before the guard was per action, Tier 1 answers for all.
LaneWithOneTier(a) == "tier1"

\* consumer_tier(): the tier the API believes will consume an action.
Lane(a) == IF a = "sync_character" THEN "tier2" ELSE "tier1"

\* Mistake: Tier 1's SELECT lists what it takes, and one action is forgotten.
ClaimsWithOmission(t, a) == IF t = "tier2" THEN a = "sync_character" ELSE a = "adjust_zeny"

\* The action half of the WHERE clause in each script's SELECT.
Claims(t, a) == IF t = "tier2" THEN a = "sync_character" ELSE a # "sync_character"

Statuses == {"absent", "pending", "processing", "executed", "failed"}
Terminal == {"executed", "failed"}
Effects  == {"none", "part", "full"}

\* error_message.  A refusal is written before the game has been touched.
Refusals == {"no such character", "not online", "could not attach",
             "unknown action", "sync hook could not flush"}
Errors   == Refusals \cup {"", "not applied", "not yet persisted"}

Row == [action : ApiActions \cup ForeignActions \cup {None}, char : Chars \cup {None},
        status : Statuses, claimedBy : Instances \cup {None}, error : Errors]

Deed == [runs : Nat, effect : Effects]

ClientStates == {"idle", "checked", "inserted", "polling", "refused", "lost", "done"}

Client == [pc : ClientStates,
           action : AskedActions \cup {None}, char : Chars \cup {None},
           id : Ids \cup {0}, seen : Statuses]

NoRow    == [action |-> None, char |-> None, status |-> "absent",
             claimedBy |-> None, error |-> ""]
NoDeed   == [runs |-> 0, effect |-> "none"]
NoClient == [pc |-> "idle", action |-> None, char |-> None, id |-> 0, seen |-> "absent"]

\* The statements a tick of a script is made of, in order.  From "lookup" on the
\* tick has read its own claim back and treats the row as its own.
Owning    == {"lookup", "act", "readback", "record", "finish"}
Positions == {"idle", "select", "claim", "readclaim"} \cup Owning

\* One SQL statement, which may fail while the bound on faults allows it.
Query(ok) ==
    /\ ok \/ faults < MaxFaults
    /\ faults' = IF ok THEN faults ELSE faults + 1

\* Auto-increment: the id the next INSERT gets.
NextId(i) ==
    /\ row[i].status = "absent"
    /\ \A j \in Ids : j < i => row[j].status # "absent"

NewRow(a, c) == [action |-> a, char |-> c, status |-> "pending",
                 claimedBy |-> None, error |-> ""]

Character(s) == row[cmd[s]].char
Action(s)    == row[cmd[s]].action
Holds(s, i)  == pc[s] \in Owning /\ cmd[s] = i
Working(s, i) == Holds(s, i) \/ (pc[s] = "readclaim" /\ cmd[s] = i)
------------------------------------------------------------------------------
(***************************************************************************)
(* The API.                                                                *)
(***************************************************************************)

\* POST /commands, the guard: the heartbeat of the tier this action needs.
Check(k, a, c) ==
    /\ client[k].pc = "idle"
    /\ \E ok \in BOOLEAN :
         /\ Query(ok)
         /\ client' = [client EXCEPT ![k] = [@ EXCEPT !.action = a, !.char = c,
                         !.pc = IF ~ok THEN "lost"
                                ELSE IF heartbeat[Lane(a)] = "fresh"
                                THEN "checked" ELSE "refused"]]
    /\ UNCHANGED <<tables, thread, world, deed>>

\* POST /commands, enqueue().  When the connection breaks, the INSERT may have
\* been committed all the same and the caller learns nothing.
Enqueue(k) ==
    /\ client[k].pc = "checked"
    /\ \E ok \in BOOLEAN, applied \in BOOLEAN, i \in Ids :
         /\ Query(ok)
         /\ ok => applied
         /\ NextId(i)
         /\ row' = IF applied
                   THEN [row EXCEPT ![i] = NewRow(client[k].action, client[k].char)]
                   ELSE row
         /\ client' = IF ok
                      THEN [client EXCEPT ![k] = [@ EXCEPT !.pc = "inserted", !.id = i]]
                      ELSE [client EXCEPT ![k] = [@ EXCEPT !.pc = "lost"]]
    /\ UNCHANGED <<synced, heartbeat, thread, world, deed>>

\* What the handlers return: the row exactly as it reads at that instant.
Told(k) ==
    LET now == row[client[k].id].status
    IN  client' = [client EXCEPT ![k] = [@ EXCEPT !.seen = now,
                     !.pc = IF now \in Terminal THEN "done" ELSE "polling"]]

\* POST /commands, read_command() after the insert: the 202.
ReadBack(k) ==
    /\ client[k].pc = "inserted"
    /\ \E ok \in BOOLEAN :
         /\ Query(ok)
         /\ IF ok THEN Told(k) ELSE client' = [client EXCEPT ![k] = [@ EXCEPT !.pc = "lost"]]
    /\ UNCHANGED <<tables, thread, world, deed>>

\* GET /commands/{id}; a GET that fails is made again.
Poll(k) ==
    /\ client[k].pc = "polling"
    /\ \E ok \in BOOLEAN :
         /\ Query(ok)
         /\ IF ok THEN Told(k) ELSE UNCHANGED client
    /\ UNCHANGED <<tables, thread, world, deed>>

\* Some other program writes a row the API would have refused to write.
ForeignInsert(a, c) ==
    /\ \E i \in Ids : NextId(i) /\ row' = [row EXCEPT ![i] = NewRow(a, c)]
    /\ UNCHANGED <<synced, heartbeat, thread, world, client, faults, deed>>
------------------------------------------------------------------------------
(***************************************************************************)
(* One tick of a script.                                                   *)
(***************************************************************************)
Goto(s, p) == pc' = [pc EXCEPT ![s] = p]

\* goto L_Reschedule: the tick is over and the timer is started again.
Reschedule(s) ==
    /\ Goto(s, "idle")
    /\ cmd' = [cmd EXCEPT ![s] = 0]
    /\ err' = [err EXCEPT ![s] = ""]
    /\ tier' = [tier EXCEPT ![s] = None]

\* Mistake: an offline character ends the tick without a verdict.
FailWithoutVerdict(s, e) ==
    IF e = "not online" THEN Reschedule(s)
    ELSE Goto(s, "finish") /\ err' = [err EXCEPT ![s] = e] /\ UNCHANGED <<tier, cmd>>

\* .@err$ = e; goto L_Finish
Fail(s, e) ==
    /\ Goto(s, "finish")
    /\ err' = [err EXCEPT ![s] = e]
    /\ UNCHANGED <<tier, cmd>>

\* Goto within the tick, nothing else of the tick changing.
Proceed(s, p) == Goto(s, p) /\ UNCHANGED <<tier, cmd, err>>

\* OnTimer1000: the heartbeat, before anything else.
StartTick(s, t) ==
    /\ pc[s] = "idle" /\ t \in loaded[s]
    /\ \E ok \in BOOLEAN :
         /\ Query(ok)
         /\ heartbeat' = IF ok THEN [heartbeat EXCEPT ![t] = "fresh"] ELSE heartbeat
    /\ tier' = [tier EXCEPT ![s] = t]
    /\ Goto(s, "select")
    /\ UNCHANGED <<row, synced, cmd, err, world, client, deed>>

\* Mistake: no ORDER BY id.
OldestWithoutOrder(t, i) == row[i].status = "pending" /\ Claims(t, row[i].action)

\* Mistake: a row that was left in `processing' is taken up again.
OldestWithReclaim(t, i) ==
    row[i].status \in {"pending", "processing"} /\ Claims(t, row[i].action)

\* i is the row ORDER BY id ASC LIMIT 1 returns to tier t.
Oldest(t, i) ==
    /\ row[i].status = "pending" /\ Claims(t, row[i].action)
    /\ \A j \in Ids : j < i => ~(row[j].status = "pending" /\ Claims(t, row[j].action))

Select(s) ==
    /\ pc[s] = "select"
    /\ \E ok \in BOOLEAN :
         /\ Query(ok)
         /\ \/ \E i \in Ids : /\ ok /\ Oldest(tier[s], i)
                              /\ Goto(s, "claim")
                              /\ cmd' = [cmd EXCEPT ![s] = i]
                              /\ UNCHANGED <<tier, err>>
            \/ /\ ok => \A i \in Ids : ~Oldest(tier[s], i)
               /\ Reschedule(s)
    /\ UNCHANGED <<tables, world, client, deed>>

\* Mistake: a claim that does not look at the status.
ClaimWithoutSwap(s) ==
    /\ pc[s] = "claim"
    /\ \E ok \in BOOLEAN :
         /\ Query(ok)
         /\ row' = IF ok
                   THEN [row EXCEPT ![cmd[s]] = [@ EXCEPT !.status = "processing",
                                                   !.claimedBy = instance[s][tier[s]]]]
                   ELSE row
    /\ Proceed(s, "readclaim")
    /\ UNCHANGED <<synced, heartbeat, world, client, deed>>

\* The compare-and-swap: the UPDATE fires only on a row that is still pending.
Claim(s) ==
    /\ pc[s] = "claim"
    /\ \E ok \in BOOLEAN :
         /\ Query(ok)
         /\ row' = IF ok /\ row[cmd[s]].status = "pending"
                   THEN [row EXCEPT ![cmd[s]] = [@ EXCEPT !.status = "processing",
                                                   !.claimedBy = instance[s][tier[s]]]]
                   ELSE row
    /\ Proceed(s, "readclaim")
    /\ UNCHANGED <<synced, heartbeat, world, client, deed>>

\* Mistake: the row is read back by its id alone, so a lost race is never noticed.
ReadClaimById(s) ==
    /\ pc[s] = "readclaim"
    /\ \E ok \in BOOLEAN : Query(ok) /\ IF ok THEN Proceed(s, "lookup") ELSE Reschedule(s)
    /\ UNCHANGED <<tables, world, client, deed>>

\* SELECT ... WHERE id = .@cmd AND claimed_by = .instance
ReadClaim(s) ==
    /\ pc[s] = "readclaim"
    /\ \E ok \in BOOLEAN :
         /\ Query(ok)
         /\ IF ok /\ row[cmd[s]].claimedBy = instance[s][tier[s]]
            THEN Proceed(s, "lookup")
            ELSE Reschedule(s)                       \* LOST RACE
    /\ UNCHANGED <<tables, world, client, deed>>

\* SELECT account_id FROM `char`
Lookup(s) ==
    /\ pc[s] = "lookup"
    /\ \E ok \in BOOLEAN :
         /\ Query(ok)
         /\ IF ok /\ Character(s) \in Registered
            THEN Proceed(s, "act") ELSE Fail(s, "no such character")
    /\ UNCHANGED <<tables, world, client, deed>>

\* isloggedin, attachrid and getcharid, which stand between a claimed row and the
\* game: a player who is in another script, or whose account now holds another
\* character, is not attached.
Refuse(s) ==
    /\ \/ session[Character(s)] # s /\ Fail(s, "not online")
       \/ session[Character(s)] = s /\ Fail(s, "could not attach")
    /\ UNCHANGED deed

\* Mistake: only a command that did nothing at all is noticed; a clamp is not.
VerdictWithoutDelta(e) == IF e = "none" THEN "not applied" ELSE ""

\* The state of the player after the command, compared with what was asked.
Verdict(e) == IF e = "full" THEN "" ELSE "not applied"

\* Tier 1 acts: getitem or @zeny, then the state read back and compared.
ActTier1(s) ==
    /\ pc[s] = "act" /\ tier[s] = "tier1"
    /\ \/ Refuse(s)
       \/ /\ session[Character(s)] = s /\ Action(s) \notin {"give_item", "adjust_zeny"}
          /\ Fail(s, "unknown action")
          /\ UNCHANGED deed
       \/ /\ session[Character(s)] = s /\ Action(s) \in {"give_item", "adjust_zeny"}
          /\ \E e \in Effects :
               /\ deed' = [deed EXCEPT ![cmd[s]] = [runs |-> @.runs + 1, effect |-> e]]
               /\ Fail(s, Verdict(e))
    /\ UNCHANGED <<tables, world, client, faults>>

\* ro_admin_sync() returns 0: no session, or no char server to hand the save to.
HookFails(s) == Fail(s, "sync hook could not flush")

\* Tier 2 acts: ro_admin_sync() hands the character over to the char server.
ActTier2(s) ==
    /\ pc[s] = "act" /\ tier[s] = "tier2"
    /\ \/ Refuse(s)
       \/ session[Character(s)] = s /\ HookFails(s) /\ UNCHANGED deed
       \/ /\ session[Character(s)] = s
          /\ deed' = [deed EXCEPT ![cmd[s]] = [runs |-> @.runs + 1, effect |-> "part"]]
          /\ Proceed(s, "readback")
    /\ UNCHANGED <<tables, world, client, faults>>

\* Mistake: the error is noted, and the goto after it forgotten.
ReadStoredWithoutGoto(s) ==
    /\ pc[s] = "readback"
    /\ \E ok \in BOOLEAN, same \in BOOLEAN :
         /\ Query(ok)
         /\ Goto(s, "record")
         /\ IF ok /\ same
            THEN /\ deed' = [deed EXCEPT ![cmd[s]] = [runs |-> @.runs, effect |-> "full"]]
                 /\ UNCHANGED err
            ELSE err' = [err EXCEPT ![s] = "not yet persisted"] /\ UNCHANGED deed
    /\ UNCHANGED <<tables, tier, cmd, world, client>>

\* SELECT zeny FROM `char`: has the flush been persisted?
ReadStored(s) ==
    /\ pc[s] = "readback"
    /\ \E ok \in BOOLEAN, same \in BOOLEAN :
         /\ Query(ok)
         /\ IF ok /\ same
            THEN /\ deed' = [deed EXCEPT ![cmd[s]] = [runs |-> @.runs, effect |-> "full"]]
                 /\ Proceed(s, "record")
            ELSE Fail(s, "not yet persisted") /\ UNCHANGED deed
    /\ UNCHANGED <<tables, world, client>>

\* REPLACE INTO ro_admin_sync
RecordSync(s) ==
    /\ pc[s] = "record"
    /\ \E ok \in BOOLEAN :
         /\ Query(ok)
         /\ synced' = IF ok THEN synced \cup {Character(s)} ELSE synced
    /\ Proceed(s, "finish")
    /\ UNCHANGED <<row, heartbeat, world, client, deed>>

\* The status L_Finish writes.
Outcome(e) == IF e = "" THEN "executed" ELSE "failed"

\* L_Finish: the UPDATE names the row by its id and nothing else.
Finish(s) ==
    /\ pc[s] = "finish"
    /\ \E ok \in BOOLEAN :
         /\ Query(ok)
         /\ row' = IF ok
                   THEN [row EXCEPT ![cmd[s]] = [@ EXCEPT !.status = Outcome(err[s]),
                                                          !.error = err[s]]]
                   ELSE row
    /\ Reschedule(s)
    /\ UNCHANGED <<synced, heartbeat, world, client, deed>>
------------------------------------------------------------------------------
(***************************************************************************)
(* The servers around the scripts.                                         *)
(***************************************************************************)

\* Mistake: .instance is the unix second alone, which two servers may share.
DistinctWithoutDraw(s, T, drawn) == TRUE

\* OnInit draws .instance from the second and a random part: no two consumers of
\* one tier that are alive at a time share it.  Two tiers may.
Distinct(s, T, drawn) ==
    \A t \in T, o \in Servers \ {s} : t \in loaded[o] => drawn[t] # instance[o][t]

\* The server boots, or @reloadscript runs between two ticks: the scripts in T
\* are loaded and each runs its OnInit.
Load(s, T) ==
    /\ pc[s] = "idle" /\ loads < MaxLoads
    /\ \E drawn \in [T -> Instances] :
         /\ Distinct(s, T, drawn)
         /\ instance' = [instance EXCEPT ![s] =
                           [t \in Tiers |-> IF t \in T THEN drawn[t] ELSE None]]
    /\ loaded' = [loaded EXCEPT ![s] = T]
    /\ loads' = loads + 1
    /\ UNCHANGED <<tables, thread, session, crashes, client, faults, deed>>

\* The server dies, in the middle of a tick or not, with all it held in memory.
Crash(s) ==
    /\ loaded[s] # {} /\ crashes < MaxCrashes
    /\ loaded' = [loaded EXCEPT ![s] = {}]
    /\ instance' = [instance EXCEPT ![s] = [t \in Tiers |-> None]]
    /\ session' = [c \in Chars |-> IF session[c] = s THEN None ELSE session[c]]
    /\ crashes' = crashes + 1
    /\ Reschedule(s)
    /\ UNCHANGED <<tables, loads, client, faults, deed>>

Login(c, s) ==
    /\ session[c] = None /\ pc[s] = "idle" /\ loaded[s] # {}
    /\ session' = [session EXCEPT ![c] = s]
    /\ UNCHANGED <<tables, thread, loaded, instance, loads, crashes, client, faults, deed>>

Logout(c) ==
    /\ session[c] # None
    /\ pc[session[c]] = "idle"
    /\ session' = [session EXCEPT ![c] = None]
    /\ UNCHANGED <<tables, thread, loaded, instance, loads, crashes, client, faults, deed>>

\* Ten polls pass without a heartbeat.
Age(t) ==
    /\ heartbeat[t] = "fresh"
    /\ heartbeat' = [heartbeat EXCEPT ![t] = "stale"]
    /\ UNCHANGED <<row, synced, thread, world, client, faults, deed>>
------------------------------------------------------------------------------
Init ==
    /\ row = [i \in Ids |-> NoRow]
    /\ synced = {}
    /\ heartbeat = [t \in Tiers |-> "none"]
    /\ loaded = [s \in Servers |-> {}]
    /\ instance = [s \in Servers |-> [t \in Tiers |-> None]]
    /\ session = [c \in Chars |-> None]
    /\ pc = [s \in Servers |-> "idle"]
    /\ tier = [s \in Servers |-> None]
    /\ cmd = [s \in Servers |-> 0]
    /\ err = [s \in Servers |-> ""]
    /\ client = [k \in Clients |-> NoClient]
    /\ faults = 0
    /\ loads = 0
    /\ crashes = 0
    /\ deed = [i \in Ids |-> NoDeed]

Api(k) ==
    \/ \E a \in AskedActions, c \in Chars : Check(k, a, c)
    \/ Enqueue(k) \/ ReadBack(k) \/ Poll(k)

\* The tick server s is in takes its next step.
Continue(s) ==
    \/ Select(s) \/ Claim(s) \/ ReadClaim(s) \/ Lookup(s)
    \/ ActTier1(s) \/ ActTier2(s) \/ ReadStored(s) \/ RecordSync(s) \/ Finish(s)

Server(s) ==
    \/ \E t \in Tiers : StartTick(s, t)
    \/ Continue(s)
    \/ \E T \in SUBSET Scripts[s] \ {{}} : Load(s, T)
    \/ Crash(s)

Player(c) == (\E s \in Servers : Login(c, s)) \/ Logout(c)

Next ==
    \/ \E k \in Clients : Api(k)
    \/ \E a \in ForeignActions, c \in Chars : ForeignInsert(a, c)
    \/ \E s \in Servers : Server(s)
    \/ \E c \in Registered : Player(c)
    \/ \E t \in Tiers : Age(t)

Spec == Init /\ [][Next]_vars

\* The timers of a running map server are served in the order they fall due, so
\* neither script is passed over for ever, and a tick that began goes on.
Fairness ==
    \A s \in Servers :
       /\ WF_vars(Continue(s))
       /\ \A t \in Tiers : SF_vars(StartTick(s, t))

FairSpec == Spec /\ Fairness
------------------------------------------------------------------------------
(***************************************************************************)
(* Properties.                                                             *)
(***************************************************************************)

TablesOK == /\ row \in [Ids -> Row]
            /\ synced \subseteq Chars \cup {None}
            /\ heartbeat \in [Tiers -> {"none", "fresh", "stale"}]

ThreadOK == /\ pc \in [Servers -> Positions]
            /\ tier \in [Servers -> Tiers \cup {None}]
            /\ cmd \in [Servers -> Ids \cup {0}]
            /\ err \in [Servers -> Errors]
            /\ \A s \in Servers : /\ pc[s] # "idle" => tier[s] \in Tiers
                                  /\ pc[s] \notin {"idle", "select"} => cmd[s] \in Ids

WorldOK == /\ loaded \in [Servers -> SUBSET Tiers]
           /\ instance \in [Servers -> [Tiers -> Instances \cup {None}]]
           /\ session \in [Chars -> Servers \cup {None}]
           /\ loads \in Nat /\ crashes \in Nat

ClientOK == /\ client \in [Clients -> Client]
            /\ \A k \in Clients : client[k].pc \in {"inserted", "polling", "done"}
                                    => client[k].id \in Ids

\* Every variable holds what its column, script variable or reply can hold.
TypeOK == /\ TablesOK /\ ThreadOK /\ WorldOK /\ ClientOK
          /\ faults \in Nat
          /\ deed \in [Ids -> Deed]

\* The game is touched at most once for a row, and only after the row has been
\* stamped with who touches it: the claim protocol of the two scripts, with any
\* number of consumers, statements that fail and servers that die and come back.
AtMostOnce ==
    \A i \in Ids : /\ deed[i].runs <= 1
                   /\ deed[i].runs = 1 => row[i].claimedBy # None

\* A row is stamped `executed' only after the game was observed to have done all
\* that was asked (the post-conditions in both scripts), and never `failed' then.
ExecutedIsObserved ==
    \A i \in Ids : row[i].status \in Terminal =>
                      (row[i].status = "executed" <=> deed[i].effect = "full")

\* A row that failed with a refusal has not touched the game, so the caller may ask
\* again: the error the caller reads and the effect the game saw belong together,
\* whichever consumer wrote the one and caused the other.
RefusalLeavesGameAlone ==
    \A i \in Ids : row[i].status = "failed" /\ row[i].error \in Refusals => deed[i].runs = 0

\* Within a tier no row is claimed before an older one, whatever is lost on the way.
NoOvertaking ==
    \A i, j \in Ids :
       /\ i < j
       /\ row[i].status = "pending"
       /\ Claims("tier1", row[i].action) = Claims("tier1", row[j].action)
       => row[j].status \in {"absent", "pending"}

\* A request for which no consumer has ever been heard from is never queued: the
\* guard of POST /commands asks after the very script that will take the row.
GuardedQueue ==
    \A k \in Clients : client[k].id # 0 =>
       \E t \in Tiers : heartbeat[t] # "none" /\ Claims(t, client[k].action)

\* An action the API accepts is never answered with `unknown action': of the two
\* scripts on one queue, the one that takes a row is the one that can do it.
SplitIsTotal ==
    \A i \in Ids : row[i].error = "unknown action" => row[i].action \in ForeignActions

\* ro_admin_sync names the characters whose stored row was observed to match the game,
\* and no others; and a sync the caller reads as executed is there to be read, unless
\* the statement that records it, which nobody checks, was lost.
SyncsAreObserved ==
    /\ \A c \in synced : \E i \in Ids : /\ row[i].char = c
                                       /\ row[i].action = "sync_character"
                                       /\ deed[i].effect = "full"
    /\ \A i \in Ids : row[i].action = "sync_character" /\ row[i].status = "executed"
                        => row[i].char \in synced \/ faults > 0

\* While no statement fails and no server dies, a row in `processing' is in the hands
\* of a consumer: no path through a script drops the row it has claimed.
NoStrandedRow ==
    \A i \in Ids : row[i].status = "processing" =>
       \/ faults > 0 \/ crashes > 0
       \/ \E s \in Servers : Working(s, i)

\* Together: every row that is queued has a script that takes it, knows it and
\* brings it to an end.
QueueIsServed == TypeOK /\ GuardedQueue /\ SplitIsTotal /\ NoStrandedRow

\* What a caller was told is never taken back: a row it saw claimed does not return
\* to pending, and a verdict it saw is the verdict the row still shows.
RepliesStand ==
    \A k \in Clients : client[k].id # 0 =>
       LET told == client[k].seen
           now  == row[client[k].id].status
       IN  /\ told \in Terminal => now = told
           /\ told = "processing" => now \notin {"absent", "pending"}

\* The inductive invariant behind the properties above.
\*
\* What the game has done for row i.
Did(i, n, e) == deed[i].runs = n /\ deed[i].effect = e

\* A row nobody has claimed has not touched the game.
Untouched ==
    \A i \in Ids : row[i].status \in {"absent", "pending"} =>
                      row[i].claimedBy = None /\ Did(i, 0, "none")

\* No two consumers of one tier that are alive share an instance.
InstancesApart ==
    /\ \A s \in Servers : \A t \in loaded[s] : instance[s][t] \in Instances
    /\ \A s, o \in Servers : \A t \in loaded[s] \cap loaded[o] :
          s # o => instance[s][t] # instance[o][t]

\* A tick belongs to a script that is loaded and works on a row of its own lane.
TickHasRow(s) ==
    pc[s] # "idle" =>
       /\ tier[s] \in loaded[s]
       /\ pc[s] # "select" => /\ row[cmd[s]].status # "absent"
                              /\ Claims(tier[s], row[cmd[s]].action)

Stamped(s) == row[cmd[s]].claimedBy = instance[s][tier[s]]

\* The instance on a row is that of the tick working on it, and of nobody before it.
OwnClaim(s) ==
    /\ pc[s] = "claim" => ~Stamped(s)
    /\ (pc[s] = "readclaim" /\ Stamped(s)) => row[cmd[s]].status = "processing"
    /\ pc[s] \in Owning => Stamped(s) /\ row[cmd[s]].status = "processing"

\* How far the tick is says what the game has seen and what .@err$ holds.
Progress(s) ==
    /\ pc[s] # "finish" => err[s] = ""
    /\ (pc[s] = "readclaim" /\ Stamped(s)) => Did(cmd[s], 0, "none")
    /\ pc[s] \in {"lookup", "act"} => Did(cmd[s], 0, "none")
    /\ pc[s] = "readback" => Did(cmd[s], 1, "part")
    /\ pc[s] = "record"   => Did(cmd[s], 1, "full")
    /\ pc[s] = "finish"   => /\ err[s] = "" <=> deed[cmd[s]].effect = "full"
                             /\ err[s] \in Refusals => deed[cmd[s]].runs = 0

\* Together, what the claim protocol keeps true at every statement.
ClaimProtocol ==
    /\ Untouched /\ InstancesApart
    /\ \A s \in Servers : TickHasRow(s) /\ OwnClaim(s) /\ Progress(s)
    /\ AtMostOnce /\ ExecutedIsObserved /\ RefusalLeavesGameAlone

\* A finished row is never written again, although the UPDATE at L_Finish names a
\* row by its id alone and asks neither its status nor its claimant.
TerminalIsFinal ==
    [][\A i \in Ids : row[i].status \in Terminal => row'[i] = row[i]]_vars

\* The overlay does what the abstract queue promises.
job == [i \in Ids |-> [status |-> row[i].status, runs |-> deed[i].runs,
                       effect |-> deed[i].effect]]
Queue == INSTANCE CommandQueue
ImplementsQueue == Queue!Spec

\* A row that waits is claimed, provided the script its action needs is from some
\* moment on always loaded somewhere and no statement fails any more.
EventuallyClaimed ==
    \A i \in Ids :
       <>[](\E s \in Servers : Lane(row[i].action) \in loaded[s])
         => (row[i].status = "pending" ~> row[i].status # "pending")

\* A row a tick works on gets its verdict, unless the server dies first.
EventuallyFinished ==
    \A i \in Ids, s \in Servers :
       Holds(s, i) ~> (row[i].status \in Terminal \/ loaded[s] = {})
=============================================================================
