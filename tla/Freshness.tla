------------------------------ MODULE Freshness ------------------------------
(***************************************************************************)
(* When a character may be reported as not stale.                          *)
(*                                                                         *)
(* One character has three images: what the map server holds in memory,    *)
(* what is on its way to the char server, and the row in `char' that the   *)
(* API reads.  The API calls the row stale or not from nothing but `online'*)
(* and three timestamps in whole seconds: the second of the last verified  *)
(* sync, the second of the last attempted write, and now.                  *)
(*                                                                         *)
(* The scripts are those of Overlay, seen by one character.  A tick of     *)
(* either is a few statements on the one thread of the map server that     *)
(* holds the character; the clock of the database, the char server and the *)
(* API go on between them.                                                 *)
(*                                                                         *)
(* An operator called a mistake is used nowhere.  It is the definition that*)
(* follows it with one plausible mistake in it, which a property catches.  *)
(***************************************************************************)
EXTENDS Integers, Sequences

CONSTANTS
    Writes,          \* queued rows of give_item or adjust_zeny for this character
    Deltas,          \* what such a row may ask for
    MaxZeny,         \* MAX_ZENY of the game
    MaxExp,          \* bound: experience the character can gain
    Window,          \* FRESH_WITHIN_SECONDS
    MaxTime,         \* bound: seconds on the clock of the database
    MaxWire,         \* bound: saves under way to the char server
    MaxFaults,       \* bound: SQL statements that fail
    None

Image == [zeny : 0..MaxZeny, exp : 0..MaxExp]

ASSUME FreshnessAssumption ==
    /\ Deltas \subseteq Int \ {0}
    /\ MaxZeny \in Nat /\ MaxExp \in Nat /\ Window \in Nat
    /\ MaxTime \in Nat /\ MaxWire \in Nat /\ MaxFaults \in Nat
    /\ None \notin Int \cup Writes \cup Image

VARIABLES
    now,         \* NOW() of the database
    live,        \* the character in the map server's memory, or None
    wire,        \* saves sent to the char server and not yet written, oldest first
    stored,      \* the character's row in `char'
    online,      \* char.online
    queue,       \* queue[w]: the columns of ro_admin_commands that matter here
    synced_at,   \* ro_admin_sync.synced_at, or None
    pc,          \* the next statement of the tick the map server is in
    cmd,         \* the write that tick works on, or None
    live_zeny,   \* .@live_zeny of a Tier 2 tick
    faults,      \* statements that have failed
    touched,     \* history: a queued write touched the game after the last read-back
    moved        \* history: anything changed the character after the last read-back

evidence == <<queue, synced_at>>
thread   == <<pc, cmd, live_zeny>>
history  == <<touched, moved>>
vars     == <<now, live, wire, stored, online, evidence, thread, faults, history>>

Attempted == {"processing", "executed", "failed"}
Statuses  == {"pending"} \cup Attempted
Times     == 0..MaxTime

Command == [status : Statuses, claimed_at : Times \cup {None},
            finished_at : Times \cup {None}]
------------------------------------------------------------------------------
(***************************************************************************)
(* What the API answers.  It is one SELECT, so it may be taken of any state.*)
(***************************************************************************)

\* COALESCE(finished_at, claimed_at)
Stamp(w) == IF queue[w].finished_at # None THEN queue[w].finished_at
            ELSE queue[w].claimed_at

\* The times the written_at subquery aggregates.
Written == {Stamp(w) : w \in {v \in Writes : queue[v].status \in Attempted}} \ {None}

\* Mistake: a sync and a write in one second count as the write having come first.
NotUndoneByTie(t) == \A at \in Written : t >= at

\* written_at is None or synced_at > written_at
NotUndone(t) == \A at \in Written : t > at

\* A sync from the future has age zero, which is within any window too.
WithinWindow(t) == now - t <= Window

Fresh == /\ online /\ synced_at # None
         /\ WithinWindow(synced_at)
         /\ NotUndone(synced_at)

Stale == online /\ ~Fresh
------------------------------------------------------------------------------
(***************************************************************************)
(* The game around the scripts.                                            *)
(***************************************************************************)
Second == /\ now < MaxTime
          /\ now' = now + 1
          /\ UNCHANGED <<live, wire, stored, online, evidence, thread, faults, history>>

Save(kind) == [kind |-> kind, image |-> live]

\* The player earns or spends zeny, or gains experience.
Play ==
    /\ pc = "idle" /\ live # None
    /\ \E i \in Image : i.exp >= live.exp /\ i # live /\ live' = i
    /\ moved' = TRUE
    /\ UNCHANGED <<now, wire, stored, online, evidence, thread, faults, touched>>

\* autosave_time has passed.
Autosave ==
    /\ pc = "idle" /\ live # None /\ Len(wire) < MaxWire
    /\ wire' = Append(wire, Save("save"))
    /\ UNCHANGED <<now, live, stored, online, evidence, thread, faults, history>>

\* Logging out saves the character and ends its session with the char server.
Logout ==
    /\ pc = "idle" /\ live # None
    /\ wire' = Append(wire, Save("quit"))
    /\ live' = None
    /\ UNCHANGED <<now, stored, online, evidence, thread, faults, history>>

\* The char server writes the oldest save it has received.
CharServer ==
    /\ wire # <<>>
    /\ stored' = Head(wire).image
    /\ online' = (online /\ Head(wire).kind = "save")
    /\ wire' = Tail(wire)
    /\ UNCHANGED <<now, live, evidence, thread, faults, history>>

Login ==
    /\ ~online /\ live = None /\ pc = "idle"
    /\ online' = TRUE
    /\ live' = stored
    /\ UNCHANGED <<now, wire, stored, evidence, thread, faults, history>>

\* The map server dies: its memory is gone, while what it has sent is still written.
Crash ==
    /\ live # None \/ pc # "idle"
    /\ live' = None /\ moved' = TRUE
    /\ pc' = "idle" /\ cmd' = None /\ live_zeny' = None
    /\ UNCHANGED <<now, wire, stored, online, evidence, faults, touched>>

\* The char server finds the connection closed, after everything that came through it.
NoticeCrash ==
    /\ online /\ live = None /\ wire = <<>>
    /\ online' = FALSE
    /\ UNCHANGED <<now, live, wire, stored, evidence, thread, faults, history>>
------------------------------------------------------------------------------
(***************************************************************************)
(* A tick of Tier 1 that takes a write for this character.                 *)
(***************************************************************************)
Query(ok) ==
    /\ ok \/ faults < MaxFaults
    /\ faults' = IF ok THEN faults ELSE faults + 1

EndTick == pc' = "idle" /\ cmd' = None /\ live_zeny' = None

\* The claim, and the read of it: when the read fails the tick is over.
ClaimWrite(w) ==
    /\ pc = "idle" /\ queue[w].status = "pending"
    /\ queue' = [queue EXCEPT ![w] = [@ EXCEPT !.status = "processing", !.claimed_at = now]]
    /\ \E ok \in BOOLEAN :
         /\ Query(ok)
         /\ IF ok THEN pc' = "act" /\ cmd' = w /\ UNCHANGED live_zeny
            ELSE UNCHANGED thread
    /\ UNCHANGED <<now, live, wire, stored, online, synced_at, history>>

\* What @zeny makes of a balance: a gain stops at MAX_ZENY, a debit at zero.
Applied(z, d) == IF z + d > MaxZeny THEN MaxZeny ELSE IF z + d < 0 THEN 0 ELSE z + d

\* The command runs, or is refused because the character is away or busy.  The
\* post-condition compares what the balance did with what was asked.
Act ==
    /\ pc = "act"
    /\ \/ /\ pc' = "fail"
          /\ UNCHANGED <<live, history>>
       \/ /\ live # None
          /\ \E d \in Deltas :
               /\ live' = [live EXCEPT !.zeny = Applied(live.zeny, d)]
               /\ pc' = IF live'.zeny - live.zeny = d THEN "execute" ELSE "fail"
          /\ touched' = (touched \/ live' # live)
          /\ moved' = (moved \/ live' # live)
    /\ UNCHANGED <<now, wire, stored, online, evidence, cmd, live_zeny, faults>>

\* L_Finish
Finish ==
    /\ pc \in {"execute", "fail"}
    /\ \E ok \in BOOLEAN :
         /\ Query(ok)
         /\ queue' = IF ok
                     THEN [queue EXCEPT ![cmd] =
                             [@ EXCEPT !.status = IF pc = "execute" THEN "executed"
                                                  ELSE "failed",
                                       !.finished_at = now]]
                     ELSE queue
    /\ EndTick
    /\ UNCHANGED <<now, live, wire, stored, online, synced_at, history>>
------------------------------------------------------------------------------
(***************************************************************************)
(* A tick of Tier 2 that syncs this character.                             *)
(***************************************************************************)

\* .@live_zeny = Zeny, then ro_admin_sync(): the save is handed over, not written.
Hook ==
    /\ pc = "idle" /\ live # None /\ Len(wire) < MaxWire
    /\ live_zeny' = live.zeny
    /\ wire' = Append(wire, Save("save"))
    /\ pc' = "readback"
    /\ UNCHANGED <<now, live, stored, online, evidence, cmd, faults, history>>

\* Mistake: the hook's return code is taken for the write having happened.
ReadBackNothing ==
    /\ pc = "readback"
    /\ pc' = "record"
    /\ UNCHANGED <<now, live, wire, stored, online, evidence, cmd, live_zeny, faults, history>>

\* SELECT zeny: the row is compared with the memory on that one field.
ReadBack ==
    /\ pc = "readback"
    /\ \E ok \in BOOLEAN :
         /\ Query(ok)
         /\ IF ok /\ stored.zeny = live_zeny
            THEN /\ pc' = "record"
                 /\ touched' = FALSE /\ moved' = FALSE
                 /\ UNCHANGED <<cmd, live_zeny>>
            ELSE EndTick /\ UNCHANGED history
    /\ UNCHANGED <<now, live, wire, stored, online, evidence>>

\* REPLACE INTO ro_admin_sync
Record ==
    /\ pc = "record"
    /\ \E ok \in BOOLEAN :
         /\ Query(ok)
         /\ synced_at' = IF ok THEN now ELSE synced_at
    /\ EndTick
    /\ UNCHANGED <<now, live, wire, stored, online, queue, history>>
------------------------------------------------------------------------------
Init ==
    /\ now = 0
    /\ live = None
    /\ wire = <<>>
    /\ stored = [zeny |-> 0, exp |-> 0]
    /\ online = FALSE
    /\ queue = [w \in Writes |-> [status |-> "pending", claimed_at |-> None,
                                  finished_at |-> None]]
    /\ synced_at = None
    /\ pc = "idle" /\ cmd = None /\ live_zeny = None
    /\ faults = 0
    /\ touched = FALSE /\ moved = FALSE

Game == Second \/ Play \/ Autosave \/ Logout \/ CharServer \/ Login \/ Crash \/ NoticeCrash

Tier1 == (\E w \in Writes : ClaimWrite(w)) \/ Act \/ Finish
Tier2 == Hook \/ ReadBack \/ Record

Next == Game \/ Tier1 \/ Tier2

Spec == Init /\ [][Next]_vars
------------------------------------------------------------------------------
(***************************************************************************)
(* Properties.                                                             *)
(***************************************************************************)

\* Every variable holds what its column or script variable can hold.
TypeOK ==
    /\ now \in Times /\ faults \in Nat
    /\ live \in Image \cup {None}
    /\ wire \in Seq([kind : {"save", "quit"}, image : Image])
    /\ stored \in Image
    /\ online \in BOOLEAN /\ touched \in BOOLEAN /\ moved \in BOOLEAN
    /\ queue \in [Writes -> Command]
    /\ synced_at \in Times \cup {None}
    /\ pc \in {"idle", "act", "execute", "fail", "readback", "record"}
    /\ cmd \in Writes \cup {None}
    /\ pc \in {"act", "execute", "fail"} => cmd \in Writes
    /\ live_zeny \in 0..MaxZeny \cup {None}

\* An online character is reported as not stale only when no queued write has touched
\* the game since the row was last read back, although all the API has is seconds: a
\* tie, a write that failed after it moved the balance, a row left in `processing' and a
\* sync whose record was lost all have to come out as stale.
FreshMeansNotWrittenSince == online /\ ~Stale => ~touched

\* The inductive invariant behind FreshMeansNotWrittenSince.
\*
\* The columns of a row are filled in the order the scripts write them.
ColumnsInOrder ==
    \A w \in Writes :
       /\ queue[w].status \in Attempted => queue[w].claimed_at # None
       /\ queue[w].status \notin {"executed", "failed"} => queue[w].finished_at = None

\* The time of write w is not before the time of the last sync.
NotBeforeSync(w) ==
    queue[w].status \in Attempted /\ (synced_at # None => Stamp(w) >= synced_at)

\* A write that touched the game after the last read-back has left its time in the
\* queue, from the claim on, and what a sync is about to record nothing has undone.
WriteIsOnRecord ==
    /\ ColumnsInOrder
    /\ synced_at # None => synced_at <= now
    /\ pc \in {"act", "execute", "fail"} =>
          queue[cmd].status = "processing" /\ NotBeforeSync(cmd)
    /\ touched => \E w \in Writes : NotBeforeSync(w)
    /\ pc = "record" => ~touched

\* What the description of synced_at says of the row of a character that is reported as
\* not stale: every field in stale_fields is covered by the read-back.
EveryFieldIsCovered ==
    online /\ ~Stale /\ ~moved /\ live # None => stored.exp = live.exp

\* What the description of stale says: the row was observed to match memory and nothing
\* has since tried to move it, so it still matches.  TLC refutes it; README says how.
FreshRowStillMatches ==
    online /\ ~Stale /\ ~moved /\ live # None => stored.zeny = live.zeny
=============================================================================
