--------------------------- MODULE InstallProofs ----------------------------
(***************************************************************************)
(* Proofs about Install: whatever becomes of the tables, the scripts and   *)
(* the clock between the statements of a request, for every threshold,     *)
(* every range of arguments and every body a caller may send.              *)
(***************************************************************************)
EXTENDS Install, TLAPS
-----------------------------------------------------------------------------
(***************************************************************************)
(* The inductive invariant.                                                *)
(***************************************************************************)
Rows == [version : {"none", "current", "other"}, age : Int]

\* The tables, the heartbeats and the evidence as the database may hold them.
World ==
    /\ tables \subseteq TablesOf("tier1") \cup TablesOf("tier2")
    /\ beat \in [Tiers -> Rows]
    /\ \A t \in Tiers : beat[t] # NoRow =>
         beat[t].version \in {"current", "other"} /\ beat[t].age \in -1 .. MaxAge(t)
    /\ \A t \in Tiers : HeartbeatOf(t) \notin tables => beat[t] = NoRow
    /\ synced \in BOOLEAN /\ ("sync" \notin tables => ~synced)
    /\ written \in BOOLEAN /\ ("commands" \notin tables => ~written)

\* A request of each shape: one that reads the tiers, one that falls back, one
\* that has read the characters.
Asked == {<<>>} \cup {<<b>> : b \in Body} \cup {<<[action |-> a]>> : a \in Actions}
TierReads ==
    [kind : {"caps", "post", "get"}, at : {"answered", "tables", "row", "insert"},
     tier : Tiers, status : {0, 200, 202, 404, 409, 422, 500}, got : [Tiers -> Statuses],
     body : Asked]
Fallbacks ==
    [kind : {"chars"}, at : {"sync_only", "plain"}, tier : {"tier2"}, status : {0},
     got : {[t \in Tiers |-> Unknown]}, body : {<<>>}]
CharacterReads ==
    [kind : {"chars"}, at : {"answered"}, status : {200},
     evidence : BOOLEAN, stale : BOOLEAN]

\* Two sets that enclose what is so at every instant of the read under way.
Now == FactsFor(request, Facts(tables, beat, synced, written))
Memory == always \subseteq held /\ (UnderWay => always \subseteq Now /\ Now \subseteq held)

\* A command is about the tier that consumes it, from its body to its answer.
AsksItsTier ==
    /\ request.kind = "post" =>
         \/ request.body = <<>> /\ request.at = "answered" /\ request.status = 422
         \/ \E b \in Body : /\ request.body = <<b>> /\ ModelAccepts(b)
                            /\ request.tier = Lane(b.action)
    /\ request.kind = "get" =>
         \/ request.body = <<>> /\ request.at = "answered"
         \/ \E a \in Actions : request.body = <<[action |-> a]>> /\ request.tier = Lane(a)

\* What the statements so far have shown, by the one that comes next.
Shown ==
    /\ request.at = "row" => <<"installed", request.tier>> \in held
    /\ request.at = "insert" =>
         /\ request.kind = "post" /\ request.got[request.tier].reason = "responding"
         /\ <<"usable", request.tier>> \in held /\ <<"installed", request.tier>> \in held
    /\ request.at = "sync_only" => <<"unwritten", "char">> \in held
    /\ request.at = "plain" => <<"synced", "char">> \notin always
    /\ request.kind \in {"caps", "post", "get"} /\ UnderWay => request.status = 0
    /\ request.kind = "post" /\ request.status = 202 => Validate(request.body[1])

IInv ==
    /\ World /\ Memory
    /\ request \in {Idle} \cup TierReads \cup Fallbacks \cup CharacterReads
    /\ AsksItsTier /\ Shown
    /\ GuardAsksTheConsumer /\ EvidenceIsKept /\ FreshIsSupported
-----------------------------------------------------------------------------
(***************************************************************************)
(* Facts, and the classification of a heartbeat.                           *)
(***************************************************************************)
LEMMA FactsAre ==
    ASSUME NEW tbl, NEW rows, NEW syn, NEW wri
    PROVE  LET facts == Facts(tbl, rows, syn, wri) IN
           /\ \A t \in Tiers :
                /\ <<"installed", t>> \in facts <=> TablesOf(t) \subseteq tbl
                /\ <<"ran", t>> \in facts <=> rows[t] # NoRow
                /\ <<"alive", t>> \in facts <=> rows[t] # NoRow /\ Alive(t, rows[t])
                /\ <<"current", t>> \in facts <=>
                     rows[t] # NoRow /\ rows[t].version = "current"
                /\ <<"usable", t>> \in facts <=>
                     /\ rows[t] # NoRow /\ Alive(t, rows[t])
                     /\ rows[t].version = "current"
           /\ <<"synced", "char">> \in facts <=> syn
           /\ <<"unwritten", "char">> \in facts <=> "commands" \notin tbl \/ ~wri
  BY DEF Facts, Tiers

LEMMA OwnFacts ==
    ASSUME NEW r, NEW facts, NEW word
    PROVE  <<word, About(r)>> \in FactsFor(r, facts) <=> <<word, About(r)>> \in facts
  BY DEF FactsFor

LEMMA ThresholdIs ==
    ASSUME NEW t \in Tiers, NEW row \in Rows
    PROVE  Alive(t, row) <=> ~(Larger(0, row.age) > Threshold(t))
<1>1. MinStale \in Nat /\ StalePolls \in Nat /\ Poll[t] \in Nat
  BY ThresholdAssumption
<1>2. Poll[t] * StalePolls = StalePolls * Poll[t] /\ Poll[t] * StalePolls \in Nat
  BY <1>1
<1>3. row.age \in Int
  BY DEF Rows
<1>4. QED
  BY <1>1, <1>2, <1>3 DEF Alive, Larger, Threshold

LEMMA Verdicts ==
    ASSUME NEW s, NEW c \in BOOLEAN
    PROVE  /\ s = Status("not_installed", FALSE, FALSE, FALSE) =>
                s \in Statuses /\ s.reason = "not_installed" /\ ~s.responding
           /\ s = Status("never_ran", TRUE, FALSE, FALSE) =>
                s \in Statuses /\ s.reason = "never_ran" /\ ~s.responding
           /\ s = Status("stale", TRUE, FALSE, c) =>
                s \in Statuses /\ s.reason = "stale" /\ ~s.responding
           /\ s = Status("version", TRUE, TRUE, FALSE) =>
                s \in Statuses /\ s.reason = "version" /\ s.responding /\ ~s.compatible
           /\ s = Status("responding", TRUE, TRUE, TRUE) =>
                s \in Statuses /\ s.reason = "responding" /\ s.responding /\ s.compatible
<1>1. ASSUME s = Status("never_ran", TRUE, FALSE, FALSE)
      PROVE  s \in Statuses /\ s.reason = "never_ran" /\ ~s.responding
  BY <1>1 DEF Status, Statuses
<1>2. ASSUME s = Status("stale", TRUE, FALSE, c)
      PROVE  s \in Statuses /\ s.reason = "stale" /\ ~s.responding
  BY <1>2 DEF Status, Statuses
<1>3. ASSUME s = Status("version", TRUE, TRUE, FALSE)
      PROVE  s \in Statuses /\ s.reason = "version" /\ s.responding /\ ~s.compatible
  BY <1>3 DEF Status, Statuses
<1>4. ASSUME s = Status("responding", TRUE, TRUE, TRUE)
      PROVE  s \in Statuses /\ s.reason = "responding" /\ s.responding /\ s.compatible
  BY <1>4 DEF Status, Statuses
<1>5. ASSUME s = Status("not_installed", FALSE, FALSE, FALSE)
      PROVE  s \in Statuses /\ s.reason = "not_installed" /\ ~s.responding
  BY <1>5 DEF Status, Statuses
<1>6. QED
  BY <1>1, <1>2, <1>3, <1>4, <1>5

LEMMA ClassifyRow ==
    ASSUME NEW t \in Tiers, NEW row \in Rows,
           NEW s, s = Classify(t, TRUE, row)
    PROVE  /\ s \in Statuses /\ s.reason \notin {"unread", "not_installed"}
           /\ s.responding => row # NoRow /\ Alive(t, row)
           /\ Usable(s) <=> row # NoRow /\ Alive(t, row) /\ row.version = "current"
           /\ Usable(s) => s.reason = "responding"
           /\ s.reason = "never_ran" => row = NoRow
           /\ s.reason = "stale" => ~Alive(t, row)
           /\ s.reason = "version" => row.version # "current"
<1>1. PICK c \in BOOLEAN : c = (row.version = "current")
  OBVIOUS
<1>2. CASE row = NoRow
  <2>1. s = Status("never_ran", TRUE, FALSE, FALSE)
    BY <1>2 DEF Classify
  <2>2. s.reason = "never_ran" /\ ~s.responding /\ s \in Statuses
    BY <2>1, Verdicts
  <2>3. QED
    BY <1>2, <2>2 DEF Usable
<1>3. CASE row # NoRow /\ ~Alive(t, row)
  <2>1. s = Status("stale", TRUE, FALSE, c)
    BY <1>1, <1>3, ThresholdIs DEF Classify
  <2>2. s.reason = "stale" /\ ~s.responding /\ s \in Statuses
    BY <2>1, Verdicts
  <2>3. QED
    BY <1>3, <2>2 DEF Usable
<1>4. CASE row # NoRow /\ Alive(t, row) /\ row.version # "current"
  <2>1. s = Status("version", TRUE, TRUE, FALSE)
    BY <1>4, ThresholdIs DEF Classify
  <2>2. s.reason = "version" /\ s.responding /\ ~s.compatible /\ s \in Statuses
    BY <2>1, Verdicts
  <2>3. QED
    BY <1>4, <2>2 DEF Usable
<1>5. CASE row # NoRow /\ Alive(t, row) /\ row.version = "current"
  <2>1. s = Status("responding", TRUE, TRUE, TRUE)
    BY <1>5, ThresholdIs DEF Classify
  <2>2. s.reason = "responding" /\ s.responding /\ s.compatible /\ s \in Statuses
    BY <2>1, Verdicts
  <2>3. QED
    BY <1>5, <2>2 DEF Usable
<1>6. QED
  BY <1>2, <1>3, <1>4, <1>5

LEMMA ClassifyAbsent ==
    ASSUME NEW t, NEW s, s = Classify(t, FALSE, NoRow)
    PROVE  s \in Statuses /\ s.reason = "not_installed" /\ ~s.responding /\ ~Usable(s)
<1>1. s = Status("not_installed", FALSE, FALSE, FALSE)
  BY DEF Classify
<1>2. s.reason = "not_installed" /\ ~s.responding /\ s \in Statuses
  BY <1>1, Verdicts
<1>3. QED
  BY <1>2 DEF Usable
-----------------------------------------------------------------------------
(***************************************************************************)
(* Steps of the world.                                                     *)
(***************************************************************************)
LEMMA AsideKeeps ==
    ASSUME IInv, Aside, World'
    PROVE  IInv'
<1>1. CASE ~UnderWay
  <2>1. request' = Idle /\ held' = {} /\ always' = {}
    BY <1>1 DEF Aside
  <2>2. QED
    BY <2>1 DEF IInv, Memory, AsksItsTier, Shown, UnderWay, Idle, GuardAsksTheConsumer,
                EvidenceIsKept, FreshIsSupported
<1>2. CASE UnderWay
  <2>1. /\ request' = request /\ held \subseteq held' /\ always' \subseteq always
        /\ always' \subseteq Now' /\ Now' \subseteq held'
    BY <1>2 DEF Aside, Now
  <2>2. /\ always \subseteq held /\ AsksItsTier /\ Shown
        /\ request \in {Idle} \cup TierReads \cup Fallbacks \cup CharacterReads
    BY DEF IInv, Memory
  <2>3. Memory'
    BY <2>1, <2>2 DEF Memory
  <2>4. AsksItsTier'
    BY <2>1, <2>2 DEF AsksItsTier
  <2>5. Shown'
    BY <2>1, <2>2 DEF Shown, UnderWay
  <2>6. GuardAsksTheConsumer' /\ EvidenceIsKept' /\ FreshIsSupported'
    BY <1>2, <2>1 DEF UnderWay, GuardAsksTheConsumer, EvidenceIsKept, FreshIsSupported
  <2>7. QED
    BY <2>1, <2>2, <2>3, <2>4, <2>5, <2>6 DEF IInv
<1>3. QED
  BY <1>1, <1>2

LEMMA MaxAgeIs ==
    ASSUME NEW t \in Tiers
    PROVE  MaxAge(t) \in Nat /\ MaxAge(t) >= 1
<1>1. MinStale \in Nat /\ StalePolls \in Nat /\ Poll[t] \in Nat
  BY ThresholdAssumption
<1>2. Poll[t] * StalePolls \in Nat
  BY <1>1
<1>3. QED
  BY <1>1, <1>2 DEF MaxAge, Larger

LEMMA OlderRow ==
    ASSUME NEW t \in Tiers, NEW row \in Rows, NEW by \in {1, -1}, NEW new,
           row # NoRow => row.version \in {"current", "other"} /\ row.age \in -1 .. MaxAge(t),
           new = Older(t, row, by)
    PROVE  /\ new \in Rows
           /\ new # NoRow => new.version \in {"current", "other"} /\ new.age \in -1 .. MaxAge(t)
           /\ row = NoRow => new = NoRow
  BY MaxAgeIs DEF Older, Rows, NoRow

LEMMA WorldKept ==
    ASSUME World, Next
    PROVE  World'
<1>1. CASE CreateTable
  BY <1>1 DEF World, CreateTable
<1>2. CASE DropTable
  <2>1. PICK x \in tables :
          /\ tables' = tables \ {x}
          /\ beat' = [t \in Tiers |-> IF x = HeartbeatOf(t) THEN NoRow ELSE beat[t]]
          /\ synced' = (synced /\ x # "sync")
          /\ written' = (written /\ x # "commands")
    BY <1>2 DEF DropTable
  <2>2. NoRow \in Rows
    BY DEF NoRow, Rows
  <2>3. \A t \in Tiers : beat'[t] = NoRow \/ (beat'[t] = beat[t] /\ x # HeartbeatOf(t))
    BY <2>1
  <2>4. beat' \in [Tiers -> Rows]
    BY <2>1, <2>2 DEF World
  <2>5. QED
    BY <2>1, <2>3, <2>4 DEF World
<1>3. CASE Beat
  <2>1. PICK t \in Tiers, v \in {"current", "other"} :
          /\ HeartbeatOf(t) \in tables
          /\ beat' = [beat EXCEPT ![t] = [version |-> v, age |-> 0]]
    BY <1>3 DEF Beat
  <2>2. PICK n : n = [version |-> v, age |-> 0]
    OBVIOUS
  <2>3. n \in Rows /\ n.version \in {"current", "other"} /\ n.age \in -1 .. MaxAge(t)
    BY <2>2, MaxAgeIs DEF Rows
  <2>4. UNCHANGED <<tables, synced, written>> /\ beat' = [beat EXCEPT ![t] = n]
    BY <1>3, <2>1, <2>2 DEF Beat
  <2>5. QED
    BY <2>1, <2>3, <2>4 DEF World
<1>4. CASE Tick
  <2>1. PICK by \in {1, -1} : beat' = [t \in Tiers |-> Older(t, beat[t], by)]
    BY <1>4 DEF Tick
  <2>2. ASSUME NEW t \in Tiers
        PROVE  /\ beat'[t] \in Rows
               /\ beat'[t] # NoRow => beat'[t].version \in {"current", "other"}
                                      /\ beat'[t].age \in -1 .. MaxAge(t)
               /\ beat[t] = NoRow => beat'[t] = NoRow
    <3>1. PICK old \in Rows : old = beat[t]
      BY DEF World
    <3>2. PICK new : new = Older(t, old, by)
      OBVIOUS
    <3>3. beat'[t] = new
      BY <2>1, <3>1, <3>2
    <3>4. old # NoRow => old.version \in {"current", "other"} /\ old.age \in -1 .. MaxAge(t)
      BY <3>1 DEF World
    <3>5. QED
      BY <3>1, <3>2, <3>3, <3>4, OlderRow
  <2>3. UNCHANGED <<tables, synced, written>>
    BY <1>4 DEF Tick
  <2>4. beat' \in [Tiers -> Rows]
    BY <2>1, <2>2
  <2>5. QED
    BY <2>2, <2>3, <2>4 DEF World
<1>5. CASE Evidence
  <2>1. UNCHANGED <<tables, beat>>
    BY <1>5 DEF Evidence
  <2>2. /\ synced' \in BOOLEAN /\ (synced' => synced \/ "sync" \in tables)
        /\ written' \in BOOLEAN /\ (written' => written \/ "commands" \in tables)
    <3>1. CASE "sync" \in tables /\ synced' = TRUE /\ written' = FALSE
      BY <3>1
    <3>2. CASE synced /\ synced' = FALSE /\ UNCHANGED written
      BY <3>2 DEF World
    <3>3. CASE "commands" \in tables /\ written' = TRUE /\ UNCHANGED synced
      BY <3>3 DEF World
    <3>4. QED
      BY <1>5, <3>1, <3>2, <3>3 DEF Evidence
  <2>3. QED
    BY <2>1, <2>2 DEF World
<1>6. CASE UNCHANGED world
  BY <1>6 DEF World, world
<1>7. ASSUME NEW s, Take(s)
      PROVE  UNCHANGED world
  BY <1>7 DEF Take, Turn, Continue
<1>8. CASE \/ Capabilities \/ PostCommand \/ GetCommand \/ ReadTables \/ ReadRow
           \/ Insert \/ SelectAll \/ SelectSyncOnly \/ SelectPlain
  <2>1. UNCHANGED world
    BY <1>7, <1>8 DEF Capabilities, PostCommand, GetCommand, ReadTables, ReadRow, Insert,
                    SelectAll, SelectSyncOnly, SelectPlain, Begin, Turn, Continue
  <2>2. QED
    BY <1>6, <2>1
<1>9. QED
  BY <1>1, <1>2, <1>3, <1>4, <1>5, <1>8 DEF Next
-----------------------------------------------------------------------------
(***************************************************************************)
(* Steps of a request.                                                     *)
(***************************************************************************)
LEMMA StatusGiven ==
    ASSUME NEW r \in TierReads, NEW status \in {0, 200, 202, 404, 409, 422, 500},
           NEW n, n = Answered(r, status)
    PROVE  /\ n \in TierReads /\ n.at = "answered" /\ n.status = status
           /\ n.kind = r.kind /\ n.tier = r.tier /\ n.body = r.body /\ n.got = r.got
<1>1. n = [[r EXCEPT !.at = "answered"] EXCEPT !.status = status]
  BY DEF Answered
<1>2. PICK m : m = [r EXCEPT !.at = "answered"]
  OBVIOUS
<1>3. /\ m \in TierReads /\ m.at = "answered" /\ m.kind = r.kind /\ m.tier = r.tier
      /\ m.body = r.body /\ m.got = r.got
  BY <1>2 DEF TierReads
<1>4. n = [m EXCEPT !.status = status]
  BY <1>1, <1>2
<1>5. n \in TierReads
  BY <1>3, <1>4 DEF TierReads
<1>6. QED
  BY <1>3, <1>4 DEF TierReads

LEMMA TakeIs ==
    ASSUME request \in TierReads, NEW s \in Statuses, Take(s)
    PROVE  /\ request' \in TierReads /\ UNCHANGED world
           /\ request'.kind = request.kind /\ request'.body = request.body
           /\ request'.got[request.tier] = s
           /\ \A u \in Tiers : u # request.tier => request'.got[u] = request.got[u]
           /\ \/ /\ request.kind = "caps"
                 /\ request'.at = "tables" /\ request'.status = request.status
                 /\ held' = FactsFor(request', Facts(tables, beat, synced, written))
                 /\ always' = held'
              \/ /\ UNCHANGED <<held, always>> /\ request'.tier = request.tier
                 /\ \/ /\ request.kind = "post" /\ Usable(s)
                       /\ request'.at = "insert" /\ request'.status = request.status
                    \/ /\ request.kind = "post" /\ ~Usable(s)
                       /\ request'.at = "answered" /\ request'.status = 409
                    \/ /\ request.kind # "post"
                       /\ request'.at = "answered" /\ request'.status = 200
<1>1. PICK r : r = [request EXCEPT !.got[request.tier] = s]
  OBVIOUS
<1>2. request.tier \in Tiers
  BY DEF TierReads
<1>3. /\ r \in TierReads /\ r.kind = request.kind /\ r.tier = request.tier
      /\ r.status = request.status /\ r.body = request.body /\ r.got[request.tier] = s
      /\ \A u \in Tiers : u # request.tier => r.got[u] = request.got[u]
  <2>1. PICK got : got = [request.got EXCEPT ![request.tier] = s]
    OBVIOUS
  <2>2. r = [request EXCEPT !.got = got]
    BY <1>1, <2>1
  <2>3. request.got \in [Tiers -> Statuses]
    BY DEF TierReads
  <2>4. /\ got \in [Tiers -> Statuses] /\ got[request.tier] = s
        /\ \A u \in Tiers : u # request.tier => got[u] = request.got[u]
    BY <1>2, <2>1, <2>3
  <2>5. r \in TierReads /\ r.got = got
    BY <2>2, <2>4 DEF TierReads
  <2>6. QED
    BY <2>2, <2>4, <2>5 DEF TierReads
<1>4. \/ r.kind = "caps" /\ Turn([r EXCEPT !.tier = "tier2", !.at = "tables"])
      \/ r.kind = "post" /\ Usable(s) /\ Continue([r EXCEPT !.at = "insert"])
      \/ r.kind = "post" /\ ~Usable(s) /\ Continue(Answered(r, 409))
      \/ r.kind # "post" /\ Continue(Answered(r, 200))
  BY <1>1, <1>3 DEF Take, TierReads
<1>5. CASE r.kind = "caps" /\ Turn([r EXCEPT !.tier = "tier2", !.at = "tables"])
  <2>1. request' = [r EXCEPT !.tier = "tier2", !.at = "tables"] /\ UNCHANGED world
    BY <1>5 DEF Turn
  <2>2. /\ request' \in TierReads /\ request'.at = "tables"
        /\ request'.kind = r.kind /\ request'.status = r.status
        /\ request'.body = r.body /\ request'.got = r.got
    <3>1. PICK m : m = [r EXCEPT !.tier = "tier2"]
      OBVIOUS
    <3>2. /\ m \in TierReads /\ m.kind = r.kind /\ m.status = r.status
          /\ m.body = r.body /\ m.got = r.got
      BY <1>3, <3>1 DEF TierReads, Tiers
    <3>3. request' = [m EXCEPT !.at = "tables"]
      BY <2>1, <3>1
    <3>4. QED
      BY <3>2, <3>3 DEF TierReads
  <2>3. /\ held' = FactsFor(request', Facts(tables, beat, synced, written))
        /\ always' = held'
    BY <1>5, <2>1 DEF Turn
  <2>4. QED
    BY <1>3, <1>5, <2>1, <2>2, <2>3
<1>6. CASE r.kind = "post" /\ Usable(s) /\ Continue([r EXCEPT !.at = "insert"])
  <2>1. request' = [r EXCEPT !.at = "insert"] /\ UNCHANGED <<world, held, always>>
    BY <1>6 DEF Continue
  <2>2. /\ request' \in TierReads /\ request'.at = "insert" /\ request'.tier = r.tier
        /\ request'.kind = r.kind /\ request'.status = r.status
        /\ request'.body = r.body /\ request'.got = r.got
    BY <1>3, <2>1 DEF TierReads
  <2>3. QED
    BY <1>3, <1>6, <2>1, <2>2
<1>7. CASE r.kind = "post" /\ ~Usable(s) /\ Continue(Answered(r, 409))
  <2>1. request' = Answered(r, 409) /\ UNCHANGED <<world, held, always>>
    BY <1>7 DEF Continue
  <2>2. /\ request' \in TierReads /\ request'.at = "answered" /\ request'.status = 409
        /\ request'.kind = r.kind /\ request'.tier = r.tier
        /\ request'.body = r.body /\ request'.got = r.got
    BY <1>3, <2>1, StatusGiven
  <2>3. QED
    BY <1>3, <1>7, <2>1, <2>2
<1>8. CASE r.kind # "post" /\ Continue(Answered(r, 200))
  <2>1. request' = Answered(r, 200) /\ UNCHANGED <<world, held, always>>
    BY <1>8 DEF Continue
  <2>2. /\ request' \in TierReads /\ request'.at = "answered" /\ request'.status = 200
        /\ request'.kind = r.kind /\ request'.tier = r.tier
        /\ request'.body = r.body /\ request'.got = r.got
    BY <1>3, <2>1, StatusGiven
  <2>3. QED
    BY <1>3, <1>8, <2>1, <2>2
<1>9. QED
  BY <1>4, <1>5, <1>6, <1>7, <1>8

\* What is so of the tier that is being read, now.
LEMMA TierNow ==
    ASSUME request \in TierReads, NEW t, t = request.tier
    PROVE  /\ t \in Tiers
           /\ <<"installed", t>> \in Now <=> TablesOf(t) \subseteq tables
           /\ <<"ran", t>> \in Now <=> beat[t] # NoRow
           /\ <<"alive", t>> \in Now <=> beat[t] # NoRow /\ Alive(t, beat[t])
           /\ <<"current", t>> \in Now <=> beat[t] # NoRow /\ beat[t].version = "current"
           /\ <<"usable", t>> \in Now <=>
                beat[t] # NoRow /\ Alive(t, beat[t]) /\ beat[t].version = "current"
<1>1. t \in Tiers /\ About(request) = t
  BY DEF TierReads, About
<1>2. PICK facts : facts = Facts(tables, beat, synced, written)
  OBVIOUS
<1>3. Now = {f \in facts : f[2] = t}
  BY <1>1, <1>2 DEF Now, FactsFor
<1>4. \A w : <<w, t>> \in Now <=> <<w, t>> \in facts
  BY <1>3
<1>5. QED
  BY <1>1, <1>2, <1>4, FactsAre

LEMMA ReadSays ==
    ASSUME IInv, ReadTables \/ ReadRow
    PROVE  /\ request \in TierReads /\ UnderWay
           /\ \/ /\ UNCHANGED <<world, held, always>>
                 /\ request' = [request EXCEPT !.at = "row"]
                 /\ <<"installed", request.tier>> \in held
              \/ UNCHANGED <<world, held, always>> /\ request' = Answered(request, 500)
              \/ \E s \in Statuses :
                   /\ Take(s) /\ s.reason # "unread" /\ SaidTruly(s, request.tier)
                   /\ Usable(s) => s.reason = "responding"
                   /\ ~Usable(s) => \/ <<"usable", request.tier>> \notin always
                                    \/ <<"installed", request.tier>> \notin always
<1>1. request \in TierReads /\ UnderWay
  <2>1. request.at \in {"tables", "row"}
    BY DEF ReadTables, ReadRow
  <2>2. request \in {Idle} \cup TierReads \cup Fallbacks \cup CharacterReads
    BY DEF IInv
  <2>3. QED
    BY <2>1, <2>2 DEF Idle, Fallbacks, CharacterReads, UnderWay
<1>2. PICK t : t = request.tier
  OBVIOUS
<1>3. t \in Tiers /\ beat[t] \in Rows
  BY <1>1, <1>2 DEF TierReads, IInv, World
<1>4. always \subseteq Now /\ Now \subseteq held /\ always \subseteq held
  BY <1>1 DEF IInv, Memory
<1>5. CASE ReadTables /\ TablesOf(request.tier) \subseteq tables
  <2>1. Continue([request EXCEPT !.at = "row"])
    BY <1>5 DEF ReadTables
  <2>2. <<"installed", t>> \in held
    BY <1>1, <1>2, <1>4, <1>5, TierNow
  <2>3. QED
    BY <1>1, <1>2, <2>1, <2>2 DEF Continue
<1>6. CASE ReadTables /\ ~(TablesOf(request.tier) \subseteq tables)
  <2>1. PICK s : s = Classify(t, FALSE, NoRow)
    OBVIOUS
  <2>2. Take(s)
    BY <1>2, <1>6, <2>1 DEF ReadTables
  <2>3. s \in Statuses /\ s.reason = "not_installed" /\ ~s.responding /\ ~Usable(s)
    BY <2>1, ClassifyAbsent
  <2>4. <<"installed", t>> \notin always
    BY <1>1, <1>2, <1>4, <1>6, TierNow
  <2>5. SaidTruly(s, t)
    BY <2>3, <2>4 DEF SaidTruly
  <2>6. QED
    BY <1>1, <1>2, <2>2, <2>3, <2>4, <2>5
<1>7. CASE ReadRow /\ HeartbeatOf(request.tier) \notin tables
  <2>1. Continue(Answered(request, 500))
    BY <1>7 DEF ReadRow
  <2>2. QED
    BY <1>1, <2>1 DEF Continue
<1>8. CASE ReadRow /\ HeartbeatOf(request.tier) \in tables
  <2>1. PICK row \in Rows : row = beat[t]
    BY <1>3
  <2>2. PICK s : s = Classify(t, TRUE, row)
    OBVIOUS
  <2>3. Take(s)
    BY <1>2, <1>8, <2>1, <2>2 DEF ReadRow
  <2>4. /\ s \in Statuses /\ s.reason \notin {"unread", "not_installed"}
        /\ s.responding => row # NoRow /\ Alive(t, row)
        /\ Usable(s) <=> row # NoRow /\ Alive(t, row) /\ row.version = "current"
        /\ Usable(s) => s.reason = "responding"
        /\ s.reason = "never_ran" => row = NoRow
        /\ s.reason = "stale" => ~Alive(t, row)
        /\ s.reason = "version" => row.version # "current"
    BY <1>3, <2>2, ClassifyRow
  <2>5. <<"installed", t>> \in held
    BY <1>2, <1>8 DEF IInv, Shown, ReadRow
  <2>6. SaidTruly(s, t)
    BY <1>1, <1>2, <1>4, <2>1, <2>4, <2>5, TierNow DEF SaidTruly
  <2>7. ~Usable(s) => <<"usable", t>> \notin always
    BY <1>1, <1>2, <1>4, <2>1, <2>4, TierNow
  <2>8. QED
    BY <1>1, <1>2, <2>3, <2>4, <2>6, <2>7
<1>9. QED
  BY <1>5, <1>6, <1>7, <1>8
-----------------------------------------------------------------------------
(***************************************************************************)
(* Each statement keeps the invariant.                                     *)
(***************************************************************************)
LEMMA ConsumerIsLane ==
    ASSUME NEW a \in Actions
    PROVE  Consumer(a) = Lane(a)
  BY DEF Consumer, Lane, Actions

\* The tier a command asks is the one that consumes it.
LEMMA AskedTier ==
    ASSUME AsksItsTier, request.kind \in {"post", "get"}, request.body # <<>>
    PROVE  Consumer(request.body[1].action) = request.tier
<1>1. CASE request.kind = "post"
  <2>1. PICK b \in Body : request.body = <<b>> /\ request.tier = Lane(b.action)
    BY <1>1 DEF AsksItsTier
  <2>2. b.action \in Actions
    BY DEF Body, Actions
  <2>3. QED
    BY <2>1, <2>2, ConsumerIsLane
<1>2. CASE request.kind = "get"
  <2>1. PICK a \in Actions : request.body = <<[action |-> a]>> /\ request.tier = Lane(a)
    BY <1>2 DEF AsksItsTier
  <2>2. request.body[1].action = a
    BY <2>1
  <2>3. QED
    BY <2>1, <2>2, ConsumerIsLane
<1>3. QED
  BY <1>1, <1>2

\* A statement that leaves a tier read where what is remembered still is of use.
LEMMA StaysRemembered ==
    ASSUME IInv, UnderWay, UNCHANGED <<world, held, always>>,
           request' \in TierReads, request \in TierReads, request'.tier = request.tier
    PROVE  World' /\ Memory'
<1>1. World'
  BY DEF IInv, World, world
<1>2. About(request') = About(request)
  BY DEF About, TierReads
<1>3. Now' = Now
  BY <1>2 DEF Now, FactsFor, world
<1>4. QED
  BY <1>1, <1>3 DEF IInv, Memory

LEMMA TierReadKeeps ==
    ASSUME IInv, ReadTables \/ ReadRow
    PROVE  IInv'
<1>1. /\ request \in TierReads /\ UnderWay /\ AsksItsTier /\ Shown
      /\ request.status = 0
  BY ReadSays DEF IInv, Shown, TierReads
<1>5. /\ request.kind = "post" => \E b \in Body : /\ request.body = <<b>> /\ ModelAccepts(b)
                                                  /\ request.tier = Lane(b.action)
      /\ request.kind = "get" => \E a \in Actions : /\ request.body = <<[action |-> a]>>
                                                    /\ request.tier = Lane(a)
  BY <1>1 DEF AsksItsTier, UnderWay
<1>6. ASSUME request'.kind = request.kind, request'.body = request.body,
             request'.tier = request.tier
      PROVE  AsksItsTier'
  BY <1>5, <1>6 DEF AsksItsTier
<1>2. CASE /\ UNCHANGED <<world, held, always>>
           /\ request' = [request EXCEPT !.at = "row"]
           /\ <<"installed", request.tier>> \in held
  <2>1. /\ request' \in TierReads /\ request'.at = "row" /\ request'.kind = request.kind
        /\ request'.tier = request.tier /\ request'.body = request.body
        /\ request'.status = request.status
    BY <1>1, <1>2 DEF TierReads
  <2>2. World' /\ Memory'
    BY <1>1, <1>2, <2>1, StaysRemembered
  <2>3. AsksItsTier'
    BY <1>6, <2>1
  <2>4. Shown'
    BY <1>1, <1>2, <2>1 DEF Shown
  <2>5. GuardAsksTheConsumer' /\ EvidenceIsKept' /\ FreshIsSupported'
    BY <2>1 DEF GuardAsksTheConsumer, EvidenceIsKept, FreshIsSupported
  <2>6. QED
    BY <2>1, <2>2, <2>3, <2>4, <2>5 DEF IInv
<1>3. CASE UNCHANGED <<world, held, always>> /\ request' = Answered(request, 500)
  <2>1. PICK r \in TierReads : r = request
    BY <1>1
  <2>2. /\ request' \in TierReads /\ request'.at = "answered" /\ request'.status = 500
        /\ request'.kind = request.kind /\ request'.tier = request.tier
        /\ request'.body = request.body
    BY <1>3, <2>1, StatusGiven
  <2>3. World' /\ Memory'
    BY <1>1, <1>3, <2>2, StaysRemembered
  <2>4. AsksItsTier'
    BY <1>6, <2>2
  <2>5. Shown'
    BY <2>2 DEF Shown, UnderWay
  <2>6. GuardAsksTheConsumer' /\ EvidenceIsKept' /\ FreshIsSupported'
    BY <2>2 DEF GuardAsksTheConsumer, EvidenceIsKept, FreshIsSupported
  <2>7. QED
    BY <2>2, <2>3, <2>4, <2>5, <2>6 DEF IInv
<1>4. ASSUME NEW s \in Statuses, Take(s), s.reason # "unread", SaidTruly(s, request.tier),
             Usable(s) => s.reason = "responding",
             ~Usable(s) => \/ <<"usable", request.tier>> \notin always
                           \/ <<"installed", request.tier>> \notin always
      PROVE  IInv'
  <2>1. /\ request' \in TierReads /\ UNCHANGED world
        /\ request'.kind = request.kind /\ request'.body = request.body
        /\ request'.got[request.tier] = s
    BY <1>1, <1>4, TakeIs
  <2>2. World'
    BY <2>1 DEF IInv, World, world
  <2>3. EvidenceIsKept' /\ FreshIsSupported'
    BY <2>1 DEF EvidenceIsKept, FreshIsSupported, TierReads
  <2>4. CASE /\ request.kind = "caps"
             /\ request'.at = "tables" /\ request'.status = request.status
             /\ held' = FactsFor(request', Facts(tables, beat, synced, written))
             /\ always' = held'
    <3>1. Memory'
      BY <2>1, <2>4 DEF Memory, Now, world
    <3>2. AsksItsTier' /\ Shown'
      BY <1>1, <2>1, <2>4 DEF AsksItsTier, Shown
    <3>3. GuardAsksTheConsumer'
      BY <2>1, <2>4 DEF GuardAsksTheConsumer
    <3>4. QED
      BY <2>1, <2>2, <2>3, <3>1, <3>2, <3>3 DEF IInv
  <2>5. CASE /\ UNCHANGED <<held, always>> /\ request'.tier = request.tier
             /\ request.kind = "post" /\ Usable(s)
             /\ request'.at = "insert" /\ request'.status = request.status
    <3>1. Memory'
      BY <1>1, <2>1, <2>5, StaysRemembered
    <3>2. AsksItsTier'
      BY <1>6, <2>1, <2>5
    <3>3. <<"usable", request.tier>> \in held /\ <<"installed", request.tier>> \in held
      BY <1>4, <2>5 DEF SaidTruly
    <3>4. Shown'
      BY <1>1, <1>4, <2>1, <2>5, <3>3 DEF Shown
    <3>5. GuardAsksTheConsumer'
      BY <2>5 DEF GuardAsksTheConsumer
    <3>6. QED
      BY <2>1, <2>2, <2>3, <3>1, <3>2, <3>4, <3>5 DEF IInv
  <2>6. CASE /\ UNCHANGED <<held, always>> /\ request'.tier = request.tier
             /\ request'.at = "answered"
             /\ \/ request.kind = "post" /\ ~Usable(s) /\ request'.status = 409
                \/ request.kind # "post" /\ request'.status = 200
    <3>1. Memory'
      BY <1>1, <2>1, <2>6, StaysRemembered
    <3>2. AsksItsTier'
      BY <1>6, <2>1, <2>6
    <3>3. Shown'
      BY <2>1, <2>6 DEF Shown, UnderWay
    <3>4. GuardAsksTheConsumer'
      <4>1. SUFFICES ASSUME request.kind \in {"post", "get"}, request.body # <<>>
                     PROVE  GuardAsksTheConsumer'
        BY <2>1 DEF GuardAsksTheConsumer
      <4>2. PICK t : t = request.tier
        OBVIOUS
      <4>3. Consumer(request'.body[1].action) = t
        BY <1>1, <2>1, <4>1, <4>2, AskedTier
      <4>4. /\ request'.status # 202
            /\ request'.status = 409 =>
                 <<"usable", t>> \notin always' \/ <<"installed", t>> \notin always'
            /\ request'.got[t].reason # "unread"
        BY <1>4, <2>1, <2>6, <4>2
      <4>5. QED
        BY <4>3, <4>4 DEF GuardAsksTheConsumer
    <3>5. QED
      BY <2>1, <2>2, <2>3, <3>1, <3>2, <3>3, <3>4 DEF IInv
  <2>7. QED
    BY <1>1, <1>4, <2>4, <2>5, <2>6, TakeIs
<1>7. QED
  BY <1>2, <1>3, <1>4, ReadSays

\* A request, or its next part, starts by remembering the world as it is.
LEMMA TurnRemembers ==
    ASSUME World, NEW r, Turn(r)
    PROVE  /\ UNCHANGED world /\ request' = r /\ World' /\ Memory'
           /\ held' = Now' /\ always' = Now'
  BY DEF Turn, World, world, Memory, Now

LEMMA RequestIs ==
    ASSUME NEW kind \in {"caps", "post", "get"}, NEW tier \in Tiers,
           NEW r, r = Request(kind, "tables", tier)
    PROVE  /\ r \in TierReads /\ r.kind = kind /\ r.at = "tables" /\ r.tier = tier
           /\ r.status = 0 /\ r.body = <<>>
<1>1. PICK got : got = [t \in Tiers |-> Unknown]
  OBVIOUS
<1>2. PICK unknown : unknown = Unknown
  OBVIOUS
<1>3. unknown \in Statuses
  BY <1>2 DEF Unknown, Status, Statuses
<1>4. got \in [Tiers -> Statuses]
  BY <1>1, <1>2, <1>3
<1>5. r = [kind |-> kind, at |-> "tables", tier |-> tier, status |-> 0,
           got |-> got, body |-> <<>>]
  BY <1>1 DEF Request
<1>6. <<>> \in Asked
  BY DEF Asked
<1>7. QED
  BY <1>4, <1>5, <1>6 DEF TierReads

\* What is left of the invariant when a read of the tiers begins.
LEMMA BeginKeeps ==
    ASSUME IInv, NEW r \in TierReads, Turn(r),
           \/ r.at = "tables" /\ r.status = 0
           \/ r.at = "answered" /\ r.status \in {404, 422, 500},
           AsksItsTier'
    PROVE  IInv'
<1>1. request' = r /\ World' /\ Memory'
  BY TurnRemembers DEF IInv
<1>2. Shown'
  BY <1>1 DEF Shown, UnderWay
<1>3. GuardAsksTheConsumer' /\ EvidenceIsKept' /\ FreshIsSupported'
  BY <1>1 DEF GuardAsksTheConsumer, EvidenceIsKept, FreshIsSupported, TierReads
<1>4. QED
  BY <1>1, <1>2, <1>3 DEF IInv

LEMMA BodyGiven ==
    ASSUME NEW r \in TierReads, NEW body \in Asked, NEW n, n = [r EXCEPT !.body = body]
    PROVE  /\ n \in TierReads /\ n.kind = r.kind /\ n.at = r.at /\ n.tier = r.tier
           /\ n.status = r.status /\ n.body = body
  BY DEF TierReads

LEMMA CapabilitiesKeeps ==
    ASSUME IInv, Capabilities
    PROVE  IInv'
<1>1. PICK r : r = Request("caps", "tables", "tier1")
  OBVIOUS
<1>2. r \in TierReads /\ r.kind = "caps" /\ r.at = "tables" /\ r.status = 0
  BY <1>1, RequestIs DEF Tiers
<1>3. Turn(r)
  BY <1>1 DEF Capabilities, Begin
<1>4. AsksItsTier'
  BY <1>2, <1>3, TurnRemembers DEF AsksItsTier, IInv
<1>5. QED
  BY <1>2, <1>3, <1>4, BeginKeeps

LEMMA PostKeeps ==
    ASSUME IInv, PostCommand
    PROVE  IInv'
<1>1. PICK b \in Body :
        LET r == Request("post", "tables", Lane(b.action)) IN
        Begin(IF ModelAccepts(b) THEN [r EXCEPT !.body = <<b>>] ELSE Answered(r, 422))
  BY DEF PostCommand
<1>2. PICK tier \in Tiers : tier = Lane(b.action)
  BY DEF Lane, Tiers
<1>3. PICK r : r = Request("post", "tables", tier)
  OBVIOUS
<1>4. /\ r \in TierReads /\ r.kind = "post" /\ r.at = "tables" /\ r.tier = tier
      /\ r.status = 0 /\ r.body = <<>>
  BY <1>3, RequestIs
<1>5. CASE ModelAccepts(b)
  <2>1. PICK body : body = <<b>>
    OBVIOUS
  <2>2. body \in Asked
    BY <2>1 DEF Asked
  <2>3. PICK n : n = [r EXCEPT !.body = body]
    OBVIOUS
  <2>4. /\ n \in TierReads /\ n.kind = "post" /\ n.at = "tables" /\ n.tier = tier
        /\ n.status = 0 /\ n.body = <<b>>
    BY <1>4, <2>1, <2>2, <2>3, BodyGiven
  <2>5. Turn(n)
    BY <1>1, <1>2, <1>3, <1>5, <2>1, <2>3 DEF Begin
  <2>6. request' = n
    BY <2>5 DEF Turn
  <2>7. AsksItsTier'
    BY <1>2, <1>5, <2>4, <2>6 DEF AsksItsTier
  <2>8. QED
    BY <2>4, <2>5, <2>7, BeginKeeps
<1>6. CASE ~ModelAccepts(b)
  <2>1. PICK n : n = Answered(r, 422)
    OBVIOUS
  <2>2. /\ n \in TierReads /\ n.kind = "post" /\ n.at = "answered"
        /\ n.status = 422 /\ n.body = <<>>
    BY <1>4, <2>1, StatusGiven
  <2>3. Turn(n)
    BY <1>1, <1>2, <1>3, <1>6, <2>1 DEF Begin
  <2>4. request' = n
    BY <2>3 DEF Turn
  <2>5. AsksItsTier'
    BY <2>2, <2>4 DEF AsksItsTier
  <2>6. QED
    BY <2>2, <2>3, <2>5, BeginKeeps
<1>7. QED
  BY <1>5, <1>6

LEMMA GetFoundKeeps ==
    ASSUME IInv, NEW a \in Actions,
           Begin([Request("get", "tables", Lane(a)) EXCEPT !.body = <<[action |-> a]>>])
    PROVE  IInv'
<1>1. PICK tier \in Tiers : tier = Lane(a)
  BY DEF Lane, Tiers
<1>2. PICK r : r = Request("get", "tables", tier)
  OBVIOUS
<1>3. r \in TierReads /\ r.kind = "get" /\ r.at = "tables" /\ r.tier = tier /\ r.status = 0
  BY <1>2, RequestIs
<1>4. PICK body : body = <<[action |-> a]>>
  OBVIOUS
<1>5. body \in Asked
  BY <1>4 DEF Asked
<1>6. PICK n : n = [r EXCEPT !.body = body]
  OBVIOUS
<1>7. /\ n \in TierReads /\ n.kind = "get" /\ n.at = "tables" /\ n.tier = tier
      /\ n.status = 0 /\ n.body = body
  BY <1>3, <1>5, <1>6, BodyGiven
<1>8. Turn(n)
  BY <1>1, <1>2, <1>4, <1>6 DEF Begin
<1>9. request' = n
  BY <1>8 DEF Turn
<1>10. AsksItsTier'
  BY <1>1, <1>4, <1>7, <1>9 DEF AsksItsTier
<1>11. QED
  BY <1>7, <1>8, <1>10, BeginKeeps

LEMMA GetMissingKeeps ==
    ASSUME IInv, NEW status \in {404, 500},
           Begin(Answered(Request("get", "tables", "tier1"), status))
    PROVE  IInv'
<1>1. PICK tier \in Tiers : tier = "tier1"
  BY DEF Tiers
<1>2. PICK r : r = Request("get", "tables", tier)
  OBVIOUS
<1>3. r \in TierReads /\ r.kind = "get" /\ r.tier = tier /\ r.body = <<>>
  BY <1>2, RequestIs
<1>4. PICK n : n = Answered(r, status)
  OBVIOUS
<1>5. /\ n \in TierReads /\ n.kind = "get" /\ n.at = "answered"
      /\ n.status = status /\ n.body = <<>>
  BY <1>3, <1>4, StatusGiven
<1>6. Turn(n)
  BY <1>1, <1>2, <1>4 DEF Begin
<1>7. request' = n
  BY <1>6 DEF Turn
<1>8. AsksItsTier'
  BY <1>5, <1>7 DEF AsksItsTier
<1>9. QED
  BY <1>5, <1>6, <1>8, BeginKeeps

LEMMA GetKeeps ==
    ASSUME IInv, GetCommand
    PROVE  IInv'
<1>1. CASE \E a \in Actions :
             Begin([Request("get", "tables", Lane(a)) EXCEPT !.body = <<[action |-> a]>>])
  BY <1>1, GetFoundKeeps
<1>2. CASE Begin(Answered(Request("get", "tables", "tier1"),
                          IF "commands" \in tables THEN 404 ELSE 500))
  BY <1>2, GetMissingKeeps
<1>3. QED
  BY <1>1, <1>2 DEF GetCommand

LEMMA InsertKeeps ==
    ASSUME IInv, Insert
    PROVE  IInv'
<1>1. request.at = "insert" /\ request.kind = "post" /\ UnderWay
  BY DEF IInv, Insert, Shown, UnderWay
<1>2. PICK r \in TierReads : r = request
  BY <1>1 DEF IInv, Idle, Fallbacks, CharacterReads
<1>3. /\ AsksItsTier /\ request.body # <<>>
      /\ <<"usable", request.tier>> \in held
  <2>1. AsksItsTier /\ <<"usable", request.tier>> \in held
    BY <1>1 DEF IInv, Shown
  <2>2. PICK b \in Body : request.body = <<b>>
    BY <1>1, <2>1 DEF AsksItsTier
  <2>3. QED
    BY <2>1, <2>2
<1>4. PICK status \in {202, 422, 500} :
        /\ request' = Answered(r, status) /\ UNCHANGED <<world, held, always>>
        /\ status = 202 => Validate(request.body[1])
  BY <1>2 DEF Insert, Continue
<1>5. /\ request' \in TierReads /\ request'.at = "answered" /\ request'.status = status
      /\ request'.kind = request.kind /\ request'.tier = request.tier
      /\ request'.body = request.body
  BY <1>2, <1>4, StatusGiven
<1>6. World' /\ Memory'
  BY <1>1, <1>2, <1>4, <1>5, StaysRemembered
<1>7. AsksItsTier'
  BY <1>1, <1>3, <1>5 DEF AsksItsTier
<1>8. Shown'
  BY <1>4, <1>5 DEF Shown, UnderWay
<1>9. Consumer(request'.body[1].action) = request.tier
  BY <1>1, <1>3, <1>5, AskedTier
<1>10. GuardAsksTheConsumer'
  BY <1>3, <1>4, <1>5, <1>9 DEF GuardAsksTheConsumer
<1>11. EvidenceIsKept' /\ FreshIsSupported'
  BY <1>1, <1>5 DEF EvidenceIsKept, FreshIsSupported
<1>12. QED
  BY <1>5, <1>6, <1>7, <1>8, <1>10, <1>11 DEF IInv
-----------------------------------------------------------------------------
(***************************************************************************)
(* The character reads.                                                    *)
(***************************************************************************)
LEMMA ReadRows ==
    ASSUME NEW evidence \in BOOLEAN, NEW known \in BOOLEAN,
           NEW r, r = Characters(evidence, known)
    PROVE  /\ r \in CharacterReads /\ r.kind = "chars" /\ r.at = "answered"
           /\ r.status = 200 /\ (r.evidence <=> evidence)
           /\ ~r.stale => evidence /\ ~known
  BY DEF Characters, CharacterReads

LEMMA FallbackIs ==
    ASSUME NEW at \in {"sync_only", "plain"}, NEW r, r = Request("chars", at, "tier2")
    PROVE  r \in Fallbacks /\ r.kind = "chars" /\ r.at = at /\ r.body = <<>>
  BY DEF Request, Fallbacks

\* What is so of the characters, now.
LEMMA CharactersNow ==
    ASSUME request.kind = "chars"
    PROVE  /\ <<"synced", "char">> \in Now <=> synced
           /\ <<"unwritten", "char">> \in Now <=> "commands" \notin tables \/ ~written
<1>1. PICK facts : facts = Facts(tables, beat, synced, written)
  OBVIOUS
<1>2. Now = {f \in facts : f[2] = "char"}
  BY <1>1 DEF Now, FactsFor, About
<1>3. \A w : <<w, "char">> \in Now <=> <<w, "char">> \in facts
  BY <1>2
<1>4. QED
  BY <1>1, <1>3, FactsAre

LEMMA CharactersNext ==
    ASSUME request'.kind = "chars", UNCHANGED world
    PROVE  /\ <<"synced", "char">> \in Now' <=> synced
           /\ <<"unwritten", "char">> \in Now' <=> "commands" \notin tables \/ ~written
<1>1. PICK facts : facts = Facts(tables, beat, synced, written)
  OBVIOUS
<1>2. Now' = {f \in facts : f[2] = "char"}
  BY <1>1 DEF Now, FactsFor, About, world
<1>3. \A w : <<w, "char">> \in Now' <=> <<w, "char">> \in facts
  BY <1>2
<1>4. QED
  BY <1>1, <1>3, FactsAre

\* A fallback is a step of its own; what it will say is decided by what is missing.
LEMMA SelectAllKeeps ==
    ASSUME IInv, SelectAll
    PROVE  IInv'
<1>1. /\ World /\ synced \in BOOLEAN /\ written \in BOOLEAN
      /\ "sync" \notin tables => ~synced
  BY DEF IInv, World
<1>2. CASE {"sync", "commands"} \ tables = {}
  <2>1. PICK r : r = Characters(synced, written)
    OBVIOUS
  <2>2. /\ r \in CharacterReads /\ r.kind = "chars" /\ r.at = "answered"
        /\ r.status = 200 /\ (r.evidence <=> synced)
        /\ ~r.stale => synced /\ ~written
    BY <1>1, <2>1, ReadRows
  <2>3. Turn(r)
    BY <1>2, <2>1 DEF SelectAll, Begin
  <2>4. /\ UNCHANGED world /\ request' = r /\ World' /\ Memory'
        /\ held' = Now' /\ always' = Now'
    BY <1>1, <2>3, TurnRemembers
  <2>5. EvidenceIsKept' /\ FreshIsSupported'
    BY <2>2, <2>4, CharactersNext DEF EvidenceIsKept, FreshIsSupported
  <2>6. AsksItsTier' /\ Shown' /\ GuardAsksTheConsumer'
    BY <2>2, <2>4 DEF AsksItsTier, Shown, GuardAsksTheConsumer
  <2>7. QED
    BY <2>2, <2>4, <2>5, <2>6 DEF IInv
<1>3. CASE {"sync", "commands"} \ tables # {}
  <2>1. PICK table \in {"sync", "commands"} \ tables :
          Begin(Request("chars", IF NamesSync(table) THEN "plain" ELSE "sync_only", "tier2"))
    BY <1>3 DEF SelectAll
  <2>2. PICK at \in {"sync_only", "plain"} :
          /\ at = IF NamesSync(table) THEN "plain" ELSE "sync_only"
          /\ at = "plain" => "sync" \notin tables
          /\ at = "sync_only" => "commands" \notin tables
    BY <2>1 DEF NamesSync
  <2>3. PICK r : r = Request("chars", at, "tier2")
    OBVIOUS
  <2>4. r \in Fallbacks /\ r.kind = "chars" /\ r.at = at /\ r.body = <<>>
    BY <2>3, FallbackIs
  <2>5. Turn(r)
    BY <2>1, <2>2, <2>3 DEF Begin
  <2>6. /\ UNCHANGED world /\ request' = r /\ World' /\ Memory'
        /\ held' = Now' /\ always' = Now'
    BY <1>1, <2>5, TurnRemembers
  <2>7. Shown'
    BY <1>1, <2>2, <2>4, <2>6, CharactersNext DEF Shown
  <2>8. AsksItsTier' /\ GuardAsksTheConsumer' /\ EvidenceIsKept' /\ FreshIsSupported'
    BY <2>2, <2>4, <2>6 DEF AsksItsTier, GuardAsksTheConsumer, EvidenceIsKept, FreshIsSupported
  <2>9. QED
    BY <2>4, <2>6, <2>7, <2>8 DEF IInv
<1>4. QED
  BY <1>2, <1>3

LEMMA FallbackKeeps ==
    ASSUME IInv, SelectSyncOnly \/ SelectPlain
    PROVE  /\ IInv' /\ request'.kind = "chars"
           /\ request'.at = "answered" => request'.status = 200
           /\ request.at = "plain" => request'.at = "answered"
<1>1. /\ request \in Fallbacks /\ request.kind = "chars" /\ UnderWay
  <2>1. request.at \in {"sync_only", "plain"}
    BY DEF SelectSyncOnly, SelectPlain
  <2>2. request \in {Idle} \cup TierReads \cup Fallbacks \cup CharacterReads
    BY DEF IInv
  <2>3. QED
    BY <2>1, <2>2 DEF Idle, TierReads, Fallbacks, CharacterReads, UnderWay
<1>2. /\ World /\ synced \in BOOLEAN /\ ("sync" \notin tables => ~synced) /\ Shown
      /\ always \subseteq Now /\ Now \subseteq held
  BY <1>1 DEF IInv, World, Memory
<1>3. UNCHANGED <<world, held, always>>
  BY DEF SelectSyncOnly, SelectPlain, Continue
<1>4. World'
  BY <1>2, <1>3 DEF World, world
<1>5. ASSUME NEW evidence \in BOOLEAN, NEW known \in BOOLEAN,
             request' = Characters(evidence, known), ~known,
             <<"synced", "char">> \in always => evidence,
             evidence => <<"synced", "char">> \in held /\ <<"unwritten", "char">> \in held
      PROVE  IInv' /\ request'.kind = "chars" /\ request'.at = "answered" /\ request'.status = 200
  <2>1. /\ request' \in CharacterReads /\ request'.kind = "chars"
        /\ request'.at = "answered" /\ request'.status = 200
        /\ request'.evidence <=> evidence
        /\ ~request'.stale => evidence
    BY <1>5, ReadRows
  <2>2. Memory' /\ AsksItsTier' /\ Shown' /\ GuardAsksTheConsumer'
    BY <1>2, <1>3, <2>1 DEF Memory, AsksItsTier, Shown, GuardAsksTheConsumer, UnderWay
  <2>3. EvidenceIsKept' /\ FreshIsSupported'
    BY <1>3, <1>5, <2>1 DEF EvidenceIsKept, FreshIsSupported
  <2>4. QED
    BY <1>4, <2>1, <2>2, <2>3 DEF IInv
<1>6. CASE SelectSyncOnly /\ "sync" \in tables
  <2>1. request' = Characters(synced, FALSE) /\ request.at = "sync_only"
    BY <1>6 DEF SelectSyncOnly, Continue
  <2>2. PICK known \in BOOLEAN : known = FALSE
    OBVIOUS
  <2>3. PICK evidence \in BOOLEAN : evidence = synced
    BY <1>2
  <2>4. request' = Characters(evidence, known)
    BY <2>1, <2>2, <2>3
  <2>5. <<"synced", "char">> \in always => evidence
    BY <1>1, <1>2, <2>3, CharactersNow
  <2>6. evidence => <<"synced", "char">> \in held /\ <<"unwritten", "char">> \in held
    BY <1>1, <1>2, <2>1, <2>3, CharactersNow DEF Shown
  <2>7. QED
    BY <1>5, <2>1, <2>2, <2>4, <2>5, <2>6
<1>7. CASE SelectSyncOnly /\ "sync" \notin tables
  <2>1. request' = [request EXCEPT !.at = "plain"] /\ request.at = "sync_only"
    BY <1>7 DEF SelectSyncOnly, Continue
  <2>2. request' \in Fallbacks /\ request'.kind = "chars" /\ request'.at = "plain"
    BY <1>1, <2>1 DEF Fallbacks
  <2>3. Now' = Now
    BY <1>1, <1>3, <2>2 DEF Now, FactsFor, About, world
  <2>4. Memory'
    BY <1>2, <1>3, <2>3 DEF Memory
  <2>5. Shown'
    BY <1>1, <1>2, <1>3, <1>7, <2>2, CharactersNow DEF Shown
  <2>6. AsksItsTier' /\ GuardAsksTheConsumer' /\ EvidenceIsKept' /\ FreshIsSupported'
    BY <2>2 DEF AsksItsTier, GuardAsksTheConsumer, EvidenceIsKept, FreshIsSupported
  <2>7. QED
    BY <1>4, <2>1, <2>2, <2>4, <2>5, <2>6 DEF IInv
<1>8. CASE SelectPlain
  <2>1. request' = Characters(FALSE, FALSE) /\ request.at = "plain"
    BY <1>8 DEF SelectPlain, Continue
  <2>2. PICK no \in BOOLEAN : no = FALSE
    OBVIOUS
  <2>3. request' = Characters(no, no)
    BY <2>1, <2>2
  <2>4. <<"synced", "char">> \notin always
    BY <1>2, <2>1 DEF Shown
  <2>5. QED
    BY <1>5, <2>2, <2>3, <2>4
<1>9. QED
  BY <1>6, <1>7, <1>8
-----------------------------------------------------------------------------
(***************************************************************************)
(* The theorems.                                                           *)
(***************************************************************************)
LEMMA InitInv == Init => IInv
<1>1. SUFFICES ASSUME Init PROVE IInv
  OBVIOUS
<1>2. beat \in [Tiers -> Rows] /\ \A t \in Tiers : beat[t] = NoRow
  BY <1>1 DEF Init, Rows, NoRow
<1>3. World
  BY <1>1, <1>2 DEF Init, World
<1>4. QED
  BY <1>1, <1>3 DEF Init, IInv, Memory, AsksItsTier, Shown, UnderWay, Idle,
     GuardAsksTheConsumer, EvidenceIsKept, FreshIsSupported

LEMMA NextInv == IInv /\ [Next]_vars => IInv'
<1>1. SUFFICES ASSUME IInv, [Next]_vars PROVE IInv'
  OBVIOUS
<1>2. CASE CreateTable \/ DropTable \/ Beat \/ Tick \/ Evidence
  <2>1. Aside
    BY <1>2 DEF CreateTable, DropTable, Beat, Tick, Evidence
  <2>2. World /\ Next
    BY <1>1, <1>2 DEF IInv, Next
  <2>3. QED
    BY <1>1, <2>1, <2>2, WorldKept, AsideKeeps
<1>3. CASE Capabilities
  BY <1>1, <1>3, CapabilitiesKeeps
<1>4. CASE PostCommand
  BY <1>1, <1>4, PostKeeps
<1>5. CASE GetCommand
  BY <1>1, <1>5, GetKeeps
<1>6. CASE ReadTables \/ ReadRow
  BY <1>1, <1>6, TierReadKeeps
<1>7. CASE Insert
  BY <1>1, <1>7, InsertKeeps
<1>8. CASE SelectAll
  BY <1>1, <1>8, SelectAllKeeps
<1>9. CASE SelectSyncOnly \/ SelectPlain
  BY <1>1, <1>9, FallbackKeeps
<1>10. CASE UNCHANGED vars
  <2>1. UNCHANGED <<tables, beat, synced, written>> /\ UNCHANGED <<request, held, always>>
    BY <1>10 DEF vars, world
  <2>2. World' /\ Memory'
    BY <1>1, <2>1 DEF IInv, World, Memory, Now, UnderWay
  <2>3. AsksItsTier' /\ Shown'
    BY <1>1, <2>1 DEF IInv, AsksItsTier, Shown, UnderWay
  <2>4. GuardAsksTheConsumer' /\ EvidenceIsKept' /\ FreshIsSupported'
    BY <1>1, <2>1 DEF IInv, GuardAsksTheConsumer, EvidenceIsKept, FreshIsSupported
  <2>5. QED
    BY <1>1, <2>1, <2>2, <2>3, <2>4 DEF IInv
<1>11. QED
  BY <1>1, <1>2, <1>3, <1>4, <1>5, <1>6, <1>7, <1>8, <1>9, <1>10 DEF Next

\* The invariant holds of every behaviour: what a request holds of the tiers and of the
\* character lies between what was so throughout the read and what was so at some instant.
THEOREM InstallSafe == Spec => []IInv
  BY InitInv, NextInv, PTL DEF Spec

\* POST and GET ask for the script that consumes the command they are about.
THEOREM GuardsAskTheConsumer == Spec => []GuardAsksTheConsumer
<1>1. IInv => GuardAsksTheConsumer
  BY DEF IInv
<1>2. QED
  BY InstallSafe, <1>1, PTL

\* A state of the invariant is well formed.
LEMMA Typed == IInv => TypeOK
<1>1. SUFFICES ASSUME IInv PROVE TypeOK
  OBVIOUS
<1>2. /\ request.at \in {"answered", "tables", "row", "insert", "sync_only", "plain"}
      /\ request.kind \in {"caps", "post", "get"} => request.got \in [Tiers -> Statuses]
  BY <1>1 DEF IInv, Idle, TierReads, Fallbacks, CharacterReads
<1>3. request.at = "insert" => request.got[request.tier].reason = "responding"
  BY <1>1 DEF IInv, Shown
<1>4. QED
  BY <1>1, <1>2, <1>3 DEF IInv, World, Memory, TypeOK

\* validate() bounds every argument that the action takes.
LEMMA ValidatedRow ==
    ASSUME NEW b \in Body, ModelAccepts(b), Validate(b), NEW r, r = QueuedRow(b)
    PROVE  /\ r.action = b.action
           /\ r.action = "give_item" => r.arg \in 1 .. MaxItemId /\ r.arg2 \in 1 .. MaxAmount
           /\ r.action = "adjust_zeny" =>
                /\ r.arg \in (-MaxDelta .. -1) \cup (1 .. MaxDelta) /\ r.arg2 = 0
                /\ r.arg < 0 => b.confirm
           /\ r.action = "sync_character" => r.arg = 0 /\ r.arg2 = 0
<1>1. r.action = b.action /\ b.action \in Actions /\ b.arg \in Int /\ b.arg2 \in Int
  <2>1. b.action \in Actions
    BY DEF Body, Actions
  <2>2. b.arg \in Numbers \cup {0} /\ b.arg2 \in Numbers \cup {0}
    BY DEF Body
  <2>3. r.action = b.action
    BY DEF QueuedRow
  <2>4. Numbers \cup {0} \subseteq Int
    BY RangeAssumption
  <2>5. QED
    BY <2>1, <2>2, <2>3, <2>4
<1>2. CASE b.action = "give_item"
  <2>1. Specs(b.action) = <<ArgSpec(1, MaxItemId, {}), ArgSpec(1, MaxAmount, {})>>
    BY <1>2 DEF Specs
  <2>2. 1 \in DOMAIN Specs(b.action) /\ 2 \in DOMAIN Specs(b.action) /\ Len(Specs(b.action)) = 2
    BY <2>1
  <2>3. b.arg \in 1 .. MaxItemId
    BY <1>1, <2>1, <2>2, RangeAssumption DEF Validate, ArgSpec
  <2>4. b.arg2 \in 1 .. MaxAmount
    BY <1>1, <2>1, <2>2, RangeAssumption DEF Validate, ArgSpec
  <2>5. r.arg = b.arg /\ r.arg2 = b.arg2
    BY <2>2 DEF QueuedRow
  <2>6. QED
    BY <1>1, <1>2, <2>3, <2>4, <2>5
<1>3. CASE b.action = "adjust_zeny"
  <2>1. Specs(b.action) = <<ArgSpec(-MaxDelta, MaxDelta, {0})>>
    BY <1>3 DEF Specs
  <2>2. 1 \in DOMAIN Specs(b.action) /\ Len(Specs(b.action)) = 1
    BY <2>1
  <2>3. b.arg \in (-MaxDelta .. -1) \cup (1 .. MaxDelta)
    BY <1>1, <2>1, <2>2, RangeAssumption DEF Validate, ArgSpec
  <2>4. r.arg = b.arg /\ r.arg2 = 0
    BY <2>2 DEF QueuedRow
  <2>5. b.arg < 0 => b.confirm
    BY <1>3 DEF ModelAccepts
  <2>6. QED
    BY <1>1, <1>3, <2>3, <2>4, <2>5
<1>4. CASE b.action = "sync_character"
  <2>1. Len(Specs(b.action)) = 0
    BY <1>4 DEF Specs
  <2>2. QED
    BY <1>1, <1>4, <2>1 DEF QueuedRow
<1>5. QED
  BY <1>1, <1>2, <1>3, <1>4 DEF Actions

\* For every range of arguments: what is queued is what the script can carry out.
THEOREM QueuedRowsAreInRange == Spec => []QueuedIsInRange
<1>1. ASSUME IInv, request.kind = "post", request.status = 202
      PROVE  \E b \in Body : /\ request.body = <<b>> /\ ModelAccepts(b) /\ Validate(b)
  <2>1. PICK b \in Body : request.body = <<b>> /\ ModelAccepts(b)
    BY <1>1 DEF IInv, AsksItsTier
  <2>2. Validate(request.body[1])
    BY <1>1 DEF IInv, Shown
  <2>3. QED
    BY <2>1, <2>2
<1>2. IInv => QueuedIsInRange
  <2>1. SUFFICES ASSUME IInv, request.kind = "post", request.status = 202
                 PROVE  LET b == request.body[1]  r == QueuedRow(b) IN
        CASE r.action = "give_item" -> r.arg \in 1 .. MaxItemId /\ r.arg2 \in 1 .. MaxAmount
          [] r.action = "adjust_zeny" ->
                /\ r.arg \in (-MaxDelta .. -1) \cup (1 .. MaxDelta) /\ r.arg2 = 0
                /\ r.arg < 0 => b.confirm
          [] r.action = "sync_character" -> r.arg = 0 /\ r.arg2 = 0
    BY Typed DEF QueuedIsInRange
  <2>2. PICK b \in Body : request.body = <<b>> /\ ModelAccepts(b) /\ Validate(b)
    BY <1>1, <2>1
  <2>3. PICK r : r = QueuedRow(b)
    OBVIOUS
  <2>4. b = request.body[1] /\ r = QueuedRow(request.body[1])
    BY <2>2, <2>3
  <2>5. r.action \in Actions
    BY <2>2, <2>3, ValidatedRow DEF Body, Actions
  <2>6. QED
    BY <2>2, <2>3, <2>4, <2>5, ValidatedRow DEF Actions
<1>3. QED
  BY InstallSafe, <1>2, PTL

\* What the tier reads say was so at an instant of the read.
THEOREM TierReportsWereTrue == Spec => TierReportsAreTrue
<1>1. ASSUME IInv, [Next]_vars, request.at \in {"tables", "row"},
             NEW t \in Tiers, request'.got[t] # request.got[t]
      PROVE  SaidTruly(request'.got[t], t)
  <2>1. request \in TierReads /\ UnderWay
    BY <1>1 DEF IInv, Idle, Fallbacks, CharacterReads, UnderWay
  <2>2. request' # request
    BY <1>1
  <2>3. ReadTables \/ ReadRow
    <3>1. ~Aside
      BY <2>1, <2>2 DEF Aside
    <3>2. QED
      BY <1>1, <2>1, <2>2, <3>1
         DEF Next, vars, CreateTable, DropTable, Beat, Tick, Evidence, Capabilities,
             PostCommand, GetCommand, Insert, SelectAll, SelectSyncOnly, SelectPlain, Begin
  <2>4. /\ request' # [request EXCEPT !.at = "row"]
        /\ request' # Answered(request, 500)
    <3>1. ASSUME request' = [request EXCEPT !.at = "row"] PROVE request'.got = request.got
      BY <2>1, <3>1 DEF TierReads
    <3>2. PICK r \in TierReads : r = request
      BY <2>1
    <3>3. ASSUME request' = Answered(request, 500) PROVE request'.got = request.got
      BY <3>2, <3>3, StatusGiven
    <3>4. QED
      BY <1>1, <3>1, <3>3
  <2>5. PICK s \in Statuses : Take(s) /\ SaidTruly(s, request.tier)
    BY <1>1, <2>3, <2>4, ReadSays
  <2>6. t = request.tier /\ request'.got[t] = s
    BY <1>1, <2>1, <2>5, TakeIs
  <2>7. QED
    BY <2>5, <2>6
<1>2. IInv /\ [Next]_vars =>
        [request.at \in {"tables", "row"} =>
           \A t \in Tiers : request'.got[t] # request.got[t] =>
              SaidTruly(request'.got[t], t)]_vars
  BY <1>1
<1>3. QED
  BY InstallSafe, <1>2, PTL DEF Spec, TierReportsAreTrue

\* No table of ro_admin's is load-bearing for a character read.
THEOREM FallbacksAreHonest == Spec => FallbackIsHonest
<1>1. ASSUME IInv, [Next]_vars, request.at \in {"sync_only", "plain"}, request' # request
      PROVE  /\ request'.kind = "chars" /\ (request'.at = "answered" => request'.status = 200)
             /\ request.at = "plain" => request'.at = "answered"
  <2>1. UnderWay
    BY <1>1 DEF UnderWay
  <2>2. ~Aside
    BY <1>1, <2>1 DEF Aside
  <2>3. SelectSyncOnly \/ SelectPlain
    BY <1>1, <2>1, <2>2
       DEF Next, vars, CreateTable, DropTable, Beat, Tick, Evidence, Capabilities,
           PostCommand, GetCommand, ReadTables, ReadRow, Insert, SelectAll, Begin
  <2>4. QED
    BY <1>1, <2>3, FallbackKeeps
<1>2. IInv' => EvidenceIsKept' /\ FreshIsSupported'
  BY DEF IInv
<1>3. IInv /\ [Next]_vars =>
        [/\ request.at \in {"sync_only", "plain"} /\ request' # request =>
              /\ request'.kind = "chars" /\ (request'.at = "answered" => request'.status = 200)
              /\ request.at = "plain" => request'.at = "answered"
         /\ EvidenceIsKept' /\ FreshIsSupported']_vars
  BY <1>1, <1>2, NextInv
<1>4. QED
  BY InstallSafe, <1>3, PTL DEF Spec, FallbackIsHonest
=============================================================================
