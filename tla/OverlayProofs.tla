---------------------------- MODULE OverlayProofs ----------------------------
(***************************************************************************)
(* What Overlay keeps true for any number of servers, instances, callers,  *)
(* characters and rows, and for any number of lost statements, crashes and *)
(* reloads: the bounds of the runs play no part here.                      *)
(***************************************************************************)
EXTENDS Overlay, TLAPS

USE OverlayAssumption DEF tables, thread, world
------------------------------------------------------------------------------
(***************************************************************************)
(* Types.                                                                  *)
(***************************************************************************)

LEMMA NoRowTyped == NoRow \in Row
  BY DEF NoRow, Row, Statuses, Errors

LEMMA NoDeedTyped == NoDeed \in Deed
  BY DEF NoDeed, Deed, Effects

LEMMA NoClientTyped == NoClient \in Client
  BY DEF NoClient, Client, Statuses, ClientStates

\* What the ways a tick goes on do to the types of its variables.
LEMMA ThreadTyped ==
  ASSUME NEW s \in Servers, ThreadOK,
         \/ Reschedule(s)
         \/ \E p \in Positions \ {"select"} : pc[s] \notin {"idle", "select"} /\ Proceed(s, p)
         \/ \E e \in Errors : pc[s] \notin {"idle", "select"} /\ Fail(s, e)
         \/ UNCHANGED thread
  PROVE  ThreadOK'
<1>1. CASE Reschedule(s)
  BY <1>1 DEF ThreadOK, Reschedule, Goto, Positions, Errors
<1>2. CASE \E p \in Positions \ {"select"} : pc[s] \notin {"idle", "select"} /\ Proceed(s, p)
  BY <1>2 DEF ThreadOK, Proceed, Goto
<1>3. CASE \E e \in Errors : pc[s] \notin {"idle", "select"} /\ Fail(s, e)
  <2>1. "finish" \in Positions
    BY DEF Positions, Owning
  <2>2. QED
    BY <1>3, <2>1 DEF ThreadOK, Fail, Goto
<1>4. CASE UNCHANGED thread
  BY <1>4 DEF ThreadOK
<1>5. QED
  BY <1>1, <1>2, <1>3, <1>4

LEMMA QueryTyped == ASSUME faults \in Nat, NEW ok \in BOOLEAN, Query(ok) PROVE faults' \in Nat
  BY DEF Query

LEMMA NewRowTyped ==
  ASSUME NEW a \in AskedActions \cup ForeignActions \cup {None}, NEW c \in Chars \cup {None}
  PROVE  NewRow(a, c) \in Row
  BY DEF NewRow, Row, Statuses, Errors

LEMMA InitTyped == Init => TypeOK
<1> SUFFICES ASSUME Init PROVE TypeOK
  OBVIOUS
<1>1. TablesOK
  BY NoRowTyped DEF Init, TablesOK
<1>2. ThreadOK
  BY DEF Init, ThreadOK, Positions, Errors
<1>3. WorldOK
  BY DEF Init, WorldOK
<1>4. ClientOK
  BY NoClientTyped DEF Init, ClientOK, NoClient
<1>5. faults \in Nat /\ deed \in [Ids -> Deed]
  BY NoDeedTyped DEF Init
<1>6. QED
  BY <1>1, <1>2, <1>3, <1>4, <1>5 DEF TypeOK

\* One caller moves: what it becomes is a caller, with an id when it waits for a row.
LEMMA ClientMoves ==
  ASSUME ClientOK, NEW k \in Clients, NEW r \in Client,
         r.pc \in {"inserted", "polling", "done"} => r.id \in Ids,
         client' = [client EXCEPT ![k] = r]
  PROVE  ClientOK'
  BY DEF ClientOK

LEMMA PcTyped ==
  ASSUME NEW r \in Client, NEW p \in ClientStates
  PROVE  /\ [r EXCEPT !.pc = p] \in Client
         /\ [r EXCEPT !.pc = p].pc = p
         /\ [r EXCEPT !.pc = p].id = r.id
  BY DEF Client

LEMMA CheckTyped ==
  ASSUME TypeOK, NEW k \in Clients, NEW a \in AskedActions, NEW c \in Chars, Check(k, a, c)
  PROVE  TypeOK'
<1>1. PICK ok \in BOOLEAN, p \in {"lost", "checked", "refused"} :
        /\ Query(ok)
        /\ client' = [client EXCEPT ![k] = [@ EXCEPT !.action = a, !.char = c, !.pc = p]]
  BY DEF Check
<1> DEFINE r == [client[k] EXCEPT !.action = a, !.char = c, !.pc = p]
<1>2. r \in Client /\ r.pc = p
  <2>1. client[k] \in Client /\ p \in ClientStates
    BY DEF TypeOK, ClientOK, ClientStates
  <2>2. QED
    BY <2>1 DEF Client
<1>3. client' = [client EXCEPT ![k] = r]
  BY <1>1
<1> HIDE DEF r
<1>4. ClientOK'
  BY <1>2, <1>3, ClientMoves DEF TypeOK
<1>5. faults' \in Nat
  BY <1>1, QueryTyped DEF TypeOK
<1>6. QED
  BY <1>4, <1>5 DEF Check, TypeOK, TablesOK, ThreadOK, WorldOK

LEMMA EnqueueTyped ==
  ASSUME TypeOK, NEW k \in Clients, Enqueue(k) PROVE TypeOK'
<1>1. PICK ok \in BOOLEAN, applied \in BOOLEAN, i \in Ids :
       /\ Query(ok)
       /\ row' = IF applied
                 THEN [row EXCEPT ![i] = NewRow(client[k].action, client[k].char)]
                 ELSE row
       /\ client' = IF ok
                    THEN [client EXCEPT ![k] = [@ EXCEPT !.pc = "inserted", !.id = i]]
                    ELSE [client EXCEPT ![k] = [@ EXCEPT !.pc = "lost"]]
  BY DEF Enqueue
<1> DEFINE r == IF ok THEN [client[k] EXCEPT !.pc = "inserted", !.id = i]
                      ELSE [client[k] EXCEPT !.pc = "lost"]
<1>2. r \in Client /\ (r.pc = "inserted" => r.id = i) /\ r.pc \in {"inserted", "lost"}
  <2>1. client[k] \in Client /\ {"inserted", "lost"} \subseteq ClientStates
    BY DEF TypeOK, ClientOK, ClientStates
  <2>2. QED
    BY <2>1 DEF Client
<1>3. client' = [client EXCEPT ![k] = r]
  BY <1>1
<1> HIDE DEF r
<1>4. ClientOK'
  BY <1>2, <1>3, ClientMoves DEF TypeOK
<1>5. NewRow(client[k].action, client[k].char) \in Row
  BY NewRowTyped DEF TypeOK, ClientOK, Client
<1>6. row' \in [Ids -> Row]
  BY <1>1, <1>5 DEF TypeOK, TablesOK
<1>7. faults' \in Nat
  BY <1>1, QueryTyped DEF TypeOK
<1>8. QED
  BY <1>4, <1>6, <1>7 DEF Enqueue, TypeOK, TablesOK, ThreadOK, WorldOK

LEMMA ToldTyped ==
  ASSUME TypeOK, NEW k \in Clients, client[k].id \in Ids, Told(k) PROVE ClientOK'
<1> DEFINE now == row[client[k].id].status
           p == IF now \in Terminal THEN "done" ELSE "polling"
           r == [client[k] EXCEPT !.seen = now, !.pc = p]
<1>1. now \in Statuses
  BY DEF TypeOK, TablesOK, Row
<1>2. r \in Client /\ r.id = client[k].id
  <2>1. client[k] \in Client /\ p \in ClientStates
    BY DEF TypeOK, ClientOK, ClientStates
  <2>2. QED
    BY <1>1, <2>1 DEF Client
<1>3. client' = [client EXCEPT ![k] = r]
  BY DEF Told
<1> HIDE DEF r
<1>4. QED
  BY <1>2, <1>3, ClientMoves DEF TypeOK

LEMMA ReplyTyped ==
  ASSUME TypeOK, NEW k \in Clients, ReadBack(k) \/ Poll(k) PROVE TypeOK'
<1>1. client[k].id \in Ids
  BY DEF ReadBack, Poll, TypeOK, ClientOK
<1>2. PICK ok \in BOOLEAN :
        /\ Query(ok)
        /\ \/ Told(k) \/ UNCHANGED client
           \/ client' = [client EXCEPT ![k] = [@ EXCEPT !.pc = "lost"]]
  BY DEF ReadBack, Poll
<1>3. ASSUME client' = [client EXCEPT ![k] = [@ EXCEPT !.pc = "lost"]] PROVE ClientOK'
  <2>1. client[k] \in Client /\ "lost" \in ClientStates
    BY DEF TypeOK, ClientOK, ClientStates
  <2>2. PICK r : r = [client[k] EXCEPT !.pc = "lost"]
    OBVIOUS
  <2>3. r \in Client /\ r.pc = "lost" /\ client' = [client EXCEPT ![k] = r]
    BY <1>3, <2>1, <2>2, PcTyped
  <2>4. QED
    BY <2>3, ClientMoves DEF TypeOK
<1>4. ClientOK'
  BY <1>1, <1>2, <1>3, ToldTyped DEF TypeOK, ClientOK
<1>5. faults' \in Nat
  BY <1>2, QueryTyped DEF TypeOK
<1>6. QED
  BY <1>4, <1>5 DEF ReadBack, Poll, TypeOK, TablesOK, ThreadOK, WorldOK

LEMMA ForeignInsertTyped ==
  ASSUME TypeOK, NEW a \in ForeignActions, NEW c \in Chars, ForeignInsert(a, c)
  PROVE  TypeOK'
<1>1. NewRow(a, c) \in Row
  BY NewRowTyped
<1>2. row' \in [Ids -> Row]
  BY <1>1 DEF ForeignInsert, TypeOK, TablesOK
<1>3. QED
  BY <1>2 DEF ForeignInsert, TypeOK, TablesOK, ThreadOK, WorldOK, ClientOK

LEMMA StartTickTyped ==
  ASSUME TypeOK, NEW s \in Servers, NEW t \in Tiers, StartTick(s, t) PROVE TypeOK'
<1>1. faults' \in Nat
  BY QueryTyped DEF StartTick, TypeOK
<1>2. TablesOK'
  BY DEF StartTick, TypeOK, TablesOK
<1>3. ThreadOK'
  BY DEF StartTick, Goto, TypeOK, ThreadOK, Positions
<1>4. QED
  BY <1>1, <1>2, <1>3 DEF StartTick, TypeOK, WorldOK, ClientOK

LEMMA SelectTyped ==
  ASSUME TypeOK, NEW s \in Servers, Select(s) PROVE TypeOK'
<1>1. faults' \in Nat
  BY QueryTyped DEF Select, TypeOK
<1>2. CASE Reschedule(s)
  BY <1>1, <1>2, ThreadTyped DEF Select, TypeOK, TablesOK, WorldOK, ClientOK
<1>3. CASE \E i \in Ids : /\ Goto(s, "claim")
                          /\ cmd' = [cmd EXCEPT ![s] = i]
                          /\ UNCHANGED <<tier, err>>
  <2>1. ThreadOK'
    BY <1>3 DEF Select, Goto, TypeOK, ThreadOK, Positions
  <2>2. QED
    BY <1>1, <2>1 DEF Select, TypeOK, TablesOK, WorldOK, ClientOK
<1>4. QED
  BY <1>2, <1>3 DEF Select

LEMMA ClaimTyped ==
  ASSUME TypeOK, NEW s \in Servers, Claim(s) PROVE TypeOK'
<1>1. faults' \in Nat
  BY QueryTyped DEF Claim, TypeOK
<1>2. cmd[s] \in Ids /\ row[cmd[s]] \in Row /\ instance[s][tier[s]] \in Instances \cup {None}
  BY DEF Claim, TypeOK, ThreadOK, TablesOK, WorldOK
<1> DEFINE r == [row[cmd[s]] EXCEPT !.status = "processing",
                                    !.claimedBy = instance[s][tier[s]]]
<1>3. r \in Row
  BY <1>2 DEF Row, Statuses
<1>4. row' = row \/ row' = [row EXCEPT ![cmd[s]] = r]
  BY DEF Claim
<1> HIDE DEF r
<1>5. row' \in [Ids -> Row]
  BY <1>3, <1>4 DEF TypeOK, TablesOK
<1>6. ThreadOK'
  BY ThreadTyped DEF Claim, TypeOK, Positions
<1>7. QED
  BY <1>1, <1>5, <1>6 DEF Claim, TypeOK, TablesOK, WorldOK, ClientOK

LEMMA ReadClaimTyped ==
  ASSUME TypeOK, NEW s \in Servers, ReadClaim(s) PROVE TypeOK'
<1>1. faults' \in Nat
  BY QueryTyped DEF ReadClaim, TypeOK
<1>2. ThreadOK'
  BY ThreadTyped DEF ReadClaim, TypeOK, Positions, Owning
<1>3. QED
  BY <1>1, <1>2 DEF ReadClaim, TypeOK, TablesOK, WorldOK, ClientOK

LEMMA LookupTyped ==
  ASSUME TypeOK, NEW s \in Servers, Lookup(s) PROVE TypeOK'
<1>1. faults' \in Nat
  BY QueryTyped DEF Lookup, TypeOK
<1>2. ThreadOK'
  BY ThreadTyped DEF Lookup, TypeOK, Positions, Owning, Errors, Refusals
<1>3. QED
  BY <1>1, <1>2 DEF Lookup, TypeOK, TablesOK, WorldOK, ClientOK

LEMMA ActTier1Typed ==
  ASSUME TypeOK, NEW s \in Servers, ActTier1(s) PROVE TypeOK'
<1>1. ThreadOK'
  <2>1. \E e \in Errors : Fail(s, e)
    BY DEF ActTier1, Refuse, Verdict, Errors, Refusals
  <2>2. QED
    BY <2>1, ThreadTyped DEF ActTier1, TypeOK
<1>2. deed' \in [Ids -> Deed]
  <2>1. deed[cmd[s]].runs \in Nat
    BY DEF ActTier1, TypeOK, ThreadOK, Deed
  <2>2. \A e \in Effects : [runs |-> deed[cmd[s]].runs + 1, effect |-> e] \in Deed
    BY <2>1 DEF Deed
  <2>3. QED
    BY <2>2 DEF ActTier1, Refuse, TypeOK
<1>3. QED
  BY <1>1, <1>2 DEF ActTier1, TypeOK, TablesOK, WorldOK, ClientOK

LEMMA ActTier2Typed ==
  ASSUME TypeOK, NEW s \in Servers, ActTier2(s) PROVE TypeOK'
<1>1. ThreadOK'
  <2>1. (\E e \in Errors : Fail(s, e)) \/ Proceed(s, "readback")
    BY DEF ActTier2, Refuse, HookFails, Errors, Refusals
  <2>2. QED
    BY <2>1, ThreadTyped DEF ActTier2, TypeOK, Positions, Owning
<1>2. deed' \in [Ids -> Deed]
  <2>1. deed[cmd[s]].runs \in Nat
    BY DEF ActTier2, TypeOK, ThreadOK, Deed
  <2>2. [runs |-> deed[cmd[s]].runs + 1, effect |-> "part"] \in Deed
    BY <2>1 DEF Deed, Effects
  <2>3. QED
    BY <2>2 DEF ActTier2, Refuse, TypeOK
<1>3. QED
  BY <1>1, <1>2 DEF ActTier2, TypeOK, TablesOK, WorldOK, ClientOK

LEMMA ReadStoredTyped ==
  ASSUME TypeOK, NEW s \in Servers, ReadStored(s) PROVE TypeOK'
<1>1. faults' \in Nat
  BY QueryTyped DEF ReadStored, TypeOK
<1>2. ThreadOK'
  BY ThreadTyped DEF ReadStored, TypeOK, Positions, Owning, Errors
<1>3. deed' \in [Ids -> Deed]
  <2>1. deed[cmd[s]].runs \in Nat
    BY DEF ReadStored, TypeOK, ThreadOK, Deed
  <2>2. [runs |-> deed[cmd[s]].runs, effect |-> "full"] \in Deed
    BY <2>1 DEF Deed, Effects
  <2>3. QED
    BY <2>2 DEF ReadStored, TypeOK
<1>4. QED
  BY <1>1, <1>2, <1>3 DEF ReadStored, TypeOK, TablesOK, WorldOK, ClientOK

LEMMA RecordSyncTyped ==
  ASSUME TypeOK, NEW s \in Servers, RecordSync(s) PROVE TypeOK'
<1>1. faults' \in Nat
  BY QueryTyped DEF RecordSync, TypeOK
<1>2. ThreadOK'
  BY ThreadTyped DEF RecordSync, TypeOK, Positions, Owning
<1>3. Character(s) \in Chars \cup {None}
  BY DEF RecordSync, Character, TypeOK, ThreadOK, TablesOK, Row
<1>4. synced' \subseteq Chars \cup {None}
  BY <1>3 DEF RecordSync, TypeOK, TablesOK
<1>5. QED
  BY <1>1, <1>2, <1>4 DEF RecordSync, TypeOK, TablesOK, WorldOK, ClientOK

LEMMA FinishTyped ==
  ASSUME TypeOK, NEW s \in Servers, Finish(s) PROVE TypeOK'
<1>1. faults' \in Nat
  BY QueryTyped DEF Finish, TypeOK
<1>2. cmd[s] \in Ids /\ row[cmd[s]] \in Row /\ err[s] \in Errors
  BY DEF Finish, TypeOK, ThreadOK, TablesOK
<1> DEFINE r == [row[cmd[s]] EXCEPT !.status = Outcome(err[s]), !.error = err[s]]
<1>3. r \in Row
  BY <1>2 DEF Row, Statuses, Outcome
<1>4. row' = row \/ row' = [row EXCEPT ![cmd[s]] = r]
  BY DEF Finish
<1> HIDE DEF r
<1>5. row' \in [Ids -> Row]
  BY <1>3, <1>4 DEF TypeOK, TablesOK
<1>6. ThreadOK'
  BY ThreadTyped DEF Finish, TypeOK
<1>7. QED
  BY <1>1, <1>5, <1>6 DEF Finish, TypeOK, TablesOK, WorldOK, ClientOK

LEMMA LoadTyped ==
  ASSUME TypeOK, NEW s \in Servers, NEW T \in SUBSET Scripts[s] \ {{}}, Load(s, T)
  PROVE  TypeOK'
<1>1. T \in SUBSET Tiers
  OBVIOUS
<1>2. loaded' \in [Servers -> SUBSET Tiers]
  BY <1>1 DEF Load, TypeOK, WorldOK
<1>3. PICK drawn \in [T -> Instances] :
        instance' = [instance EXCEPT ![s] =
                       [t \in Tiers |-> IF t \in T THEN drawn[t] ELSE None]]
  BY DEF Load
<1>4. instance' \in [Servers -> [Tiers -> Instances \cup {None}]]
  BY <1>3 DEF TypeOK, WorldOK
<1>5. QED
  BY <1>2, <1>4 DEF Load, TypeOK, TablesOK, ThreadOK, WorldOK, ClientOK

LEMMA CrashTyped ==
  ASSUME TypeOK, NEW s \in Servers, Crash(s) PROVE TypeOK'
<1>1. ThreadOK'
  BY ThreadTyped DEF Crash, TypeOK
<1>2. WorldOK'
  BY DEF Crash, TypeOK, WorldOK
<1>3. QED
  BY <1>1, <1>2 DEF Crash, TypeOK, TablesOK, ClientOK

LEMMA AroundTyped ==
  ASSUME TypeOK,
         \/ \E c \in Registered : Player(c)
         \/ \E t \in Tiers : Age(t)
         \/ UNCHANGED vars
  PROVE  TypeOK'
<1> USE DEF TypeOK, TablesOK, ThreadOK, WorldOK, ClientOK
<1>1. ASSUME NEW c \in Registered, NEW s \in Servers, Login(c, s) PROVE TypeOK'
  BY <1>1 DEF Login
<1>2. ASSUME NEW c \in Registered, Logout(c) PROVE TypeOK'
  BY <1>2 DEF Logout
<1>3. ASSUME NEW t \in Tiers, Age(t) PROVE TypeOK'
  BY <1>3 DEF Age
<1>4. CASE UNCHANGED vars
  BY <1>4 DEF vars
<1>5. QED
  BY <1>1, <1>2, <1>3, <1>4 DEF Player

\* Every variable keeps the type of the column, script variable or reply it stands for.
THEOREM TypeCorrect == Spec => []TypeOK
<1>1. TypeOK /\ [Next]_vars => TypeOK'
  BY CheckTyped, EnqueueTyped, ReplyTyped, ForeignInsertTyped, StartTickTyped, SelectTyped,
     ClaimTyped, ReadClaimTyped, LookupTyped, ActTier1Typed, ActTier2Typed,
     ReadStoredTyped, RecordSyncTyped, FinishTyped, LoadTyped, CrashTyped, AroundTyped
  DEF Next, Api, Server, Continue
<1>2. QED
  BY InitTyped, <1>1, PTL DEF Spec
------------------------------------------------------------------------------
(***************************************************************************)
(* The claim protocol.                                                     *)
(***************************************************************************)
Tick(s) == TickHasRow(s) /\ OwnClaim(s) /\ Progress(s)

USE DEF Did

\* The split is exclusive: two tiers whose SELECT admits one action are one tier.
LEMMA OneLane ==
  ASSUME NEW t \in Tiers, NEW u \in Tiers, NEW a, Claims(t, a), Claims(u, a)
  PROVE  t = u
  BY DEF Claims, Tiers

\* Two servers cannot both find their instance on one row.
LEMMA Exclusive ==
  ASSUME TypeOK, ClaimProtocol, NEW s \in Servers, NEW o \in Servers, s # o,
         pc[s] \notin {"idle", "select"}, pc[o] \notin {"idle", "select"},
         cmd[s] = cmd[o]
  PROVE  instance[s][tier[s]] # instance[o][tier[o]]
<1>1. tier[s] \in Tiers /\ tier[o] \in Tiers
  BY DEF TypeOK, ThreadOK
<1>2. /\ tier[s] \in loaded[s] /\ Claims(tier[s], row[cmd[s]].action)
      /\ tier[o] \in loaded[o] /\ Claims(tier[o], row[cmd[s]].action)
  BY DEF ClaimProtocol, TickHasRow
<1>3. tier[s] = tier[o]
  BY <1>1, <1>2, OneLane
<1>4. QED
  BY <1>2, <1>3 DEF ClaimProtocol, InstancesApart

\* A tick goes on as before when neither it nor its row has changed.
LEMMA OtherTick ==
  ASSUME NEW o \in Servers, Tick(o),
         pc'[o] = pc[o], tier'[o] = tier[o], cmd'[o] = cmd[o], err'[o] = err[o],
         instance'[o] = instance[o], loaded'[o] = loaded[o],
         pc[o] \notin {"idle", "select"} =>
            row'[cmd[o]] = row[cmd[o]] /\ deed'[cmd[o]] = deed[cmd[o]]
  PROVE  Tick(o)'
  BY DEF Tick, TickHasRow, OwnClaim, Progress, Stamped, Owning

LEMMA IdleTick ==
  ASSUME NEW s \in Servers, ThreadOK, Reschedule(s) PROVE Tick(s)'
  BY DEF ThreadOK, Reschedule, Goto, Tick, TickHasRow, OwnClaim, Progress, Owning

\* The parts of the protocol that speak of rows alone.
Rows == Untouched /\ AtMostOnce /\ ExecutedIsObserved /\ RefusalLeavesGameAlone

LEMMA ProtocolParts ==
  ClaimProtocol <=> Rows /\ InstancesApart /\ \A s \in Servers : Tick(s)
  BY DEF ClaimProtocol, Rows, Tick

LEMMA RowsApart == ASSUME Rows, UNCHANGED <<row, deed>> PROVE Rows'
  BY DEF Rows, Untouched, AtMostOnce, ExecutedIsObserved, RefusalLeavesGameAlone

LEMMA InstancesStay == ASSUME InstancesApart, UNCHANGED <<loaded, instance>>
                       PROVE  InstancesApart'
  BY DEF InstancesApart

\* Steps that touch neither the queue, nor the scripts, nor their ticks.
LEMMA ProtocolApart ==
  ASSUME ClaimProtocol, UNCHANGED <<row, deed, loaded, instance, thread>>
  PROVE  ClaimProtocol'
<1>1. \A o \in Servers : Tick(o)'
  BY OtherTick, ProtocolParts
<1>2. QED
  BY <1>1, RowsApart, InstancesStay, ProtocolParts DEF ClaimProtocol, Rows, Tick

LEMMA InitProtocol == Init => ClaimProtocol
<1> SUFFICES ASSUME Init PROVE ClaimProtocol
  OBVIOUS
<1>1. \A i \in Ids : /\ row[i].status = "absent" /\ row[i].claimedBy = None
                       /\ Did(i, 0, "none")
  BY DEF Init, NoRow, NoDeed
<1>2. Rows
  BY <1>1 DEF Rows, Untouched, AtMostOnce, ExecutedIsObserved, RefusalLeavesGameAlone,
         Terminal
<1>3. InstancesApart
  BY DEF Init, InstancesApart
<1>4. \A s \in Servers : Tick(s)
  BY DEF Init, Tick, TickHasRow, OwnClaim, Progress, Owning
<1>5. QED
  BY <1>2, <1>3, <1>4, ProtocolParts

\* A row is written into a free place.
LEMMA InsertProtocol ==
  ASSUME TypeOK, ClaimProtocol, NEW i \in Ids, NextId(i), NEW a, NEW c,
         row' = [row EXCEPT ![i] = NewRow(a, c)],
         UNCHANGED <<deed, loaded, instance, thread>>
  PROVE  ClaimProtocol'
<1>1. row[i].status = "absent"
  BY DEF NextId
<1>2. Rows'
  BY <1>1 DEF ClaimProtocol, Rows, Untouched, AtMostOnce, ExecutedIsObserved,
              RefusalLeavesGameAlone, NewRow, Terminal, TypeOK, TablesOK
<1>3. ASSUME NEW o \in Servers PROVE Tick(o)'
  <2>1. pc[o] \notin {"idle", "select"} => cmd[o] # i
    BY <1>1 DEF ClaimProtocol, TickHasRow
  <2>2. Tick(o)
    BY ProtocolParts
  <2>3. QED
    BY <2>1, <2>2, OtherTick DEF TypeOK, TablesOK
<1>4. QED
  BY <1>2, <1>3, InstancesStay, ProtocolParts DEF ClaimProtocol, Rows, Tick

\* Steps of a tick that leave every row and every deed as they are.
LEMMA LocalProtocol ==
  ASSUME TypeOK, ClaimProtocol, NEW s \in Servers,
         UNCHANGED <<row, deed, loaded, instance>>,
         \A o \in Servers \ {s} : /\ pc'[o] = pc[o] /\ tier'[o] = tier[o]
                                  /\ cmd'[o] = cmd[o] /\ err'[o] = err[o],
         Tick(s)'
  PROVE  ClaimProtocol'
<1>1. \A o \in Servers \ {s} : Tick(o)'
  BY OtherTick, ProtocolParts
<1>2. QED
  BY <1>1, RowsApart, InstancesStay, ProtocolParts DEF ClaimProtocol, Rows, Tick

\* What a tick does to its own variables leaves the other ticks' alone.
LEMMA OthersWait ==
  ASSUME ThreadOK, NEW s \in Servers, NEW p, NEW e,
         Reschedule(s) \/ Proceed(s, p) \/ Fail(s, e)
  PROVE  \A o \in Servers \ {s} : /\ pc'[o] = pc[o] /\ tier'[o] = tier[o]
                                  /\ cmd'[o] = cmd[o] /\ err'[o] = err[o]
  BY DEF ThreadOK, Reschedule, Proceed, Fail, Goto

LEMMA StartTickProtocol ==
  ASSUME TypeOK, ClaimProtocol, NEW s \in Servers, NEW t \in Tiers, StartTick(s, t)
  PROVE  ClaimProtocol'
<1>1. pc'[s] = "select" /\ tier'[s] = t /\ t \in loaded[s] /\ err'[s] = err[s]
  BY DEF StartTick, Goto, TypeOK, ThreadOK
<1>2. err[s] = ""
  BY DEF ClaimProtocol, Progress, StartTick
<1>3. Tick(s)'
  BY <1>1, <1>2 DEF StartTick, Tick, TickHasRow, OwnClaim, Progress, Owning
<1>4. \A o \in Servers \ {s} : /\ pc'[o] = pc[o] /\ tier'[o] = tier[o]
                               /\ cmd'[o] = cmd[o] /\ err'[o] = err[o]
  BY DEF StartTick, Goto, TypeOK, ThreadOK
<1>5. QED
  BY <1>3, <1>4, LocalProtocol DEF StartTick

LEMMA SelectProtocol ==
  ASSUME TypeOK, ClaimProtocol, NEW s \in Servers, Select(s)
  PROVE  ClaimProtocol'
<1>1. CASE Reschedule(s)
  <2>1. Tick(s)'
    BY <1>1, IdleTick DEF TypeOK
  <2>2. QED
    BY <1>1, <2>1, OthersWait, LocalProtocol DEF Select, TypeOK
<1>2. ASSUME NEW i \in Ids, Oldest(tier[s], i), Goto(s, "claim"),
             cmd' = [cmd EXCEPT ![s] = i], UNCHANGED <<tier, err>>
      PROVE  ClaimProtocol'
  <2>1. /\ pc'[s] = "claim" /\ cmd'[s] = i /\ tier'[s] = tier[s] /\ err'[s] = err[s]
        /\ UNCHANGED <<row, deed, loaded, instance>>
    BY <1>2 DEF Goto, TypeOK, ThreadOK, Select
  <2>2. row[i].status = "pending" /\ Claims(tier[s], row[i].action)
    BY <1>2 DEF Oldest
  <2>3. row[i].claimedBy = None
    BY <2>2 DEF ClaimProtocol, Untouched
  <2>4. tier[s] \in loaded[s] /\ instance[s][tier[s]] # None /\ err[s] = ""
    <3>1. pc[s] = "select"
      BY DEF Select
    <3>2. tier[s] \in loaded[s]
      BY <3>1 DEF ClaimProtocol, TickHasRow
    <3>3. instance[s][tier[s]] \in Instances
      BY <3>2 DEF ClaimProtocol, InstancesApart
    <3>4. err[s] = ""
      BY <3>1 DEF ClaimProtocol, Progress
    <3>5. QED
      BY <3>2, <3>3, <3>4
  <2>5. Tick(s)'
    BY <2>1, <2>2, <2>3, <2>4
    DEF Tick, TickHasRow, OwnClaim, Progress, Stamped, Owning
  <2>6. \A o \in Servers \ {s} : /\ pc'[o] = pc[o] /\ tier'[o] = tier[o]
                                 /\ cmd'[o] = cmd[o] /\ err'[o] = err[o]
    BY <1>2 DEF Goto, TypeOK, ThreadOK
  <2>7. QED
    BY <2>1, <2>5, <2>6, LocalProtocol
<1>3. QED
  BY <1>1, <1>2 DEF Select

\* The compare-and-swap takes a row from pending to processing, or does nothing.
LEMMA ClaimProtocolStep ==
  ASSUME TypeOK, ClaimProtocol, NEW s \in Servers, Claim(s)
  PROVE  ClaimProtocol'
<1> DEFINE i == cmd[s]
           me == instance[s][tier[s]]
           r == [row[i] EXCEPT !.status = "processing", !.claimedBy = me]
<1>1. /\ i \in Ids /\ tier[s] \in Tiers /\ tier[s] \in loaded[s] /\ me \in Instances
      /\ ~Stamped(s) /\ err[s] = "" /\ row[i].status # "absent"
      /\ Claims(tier[s], row[i].action)
  BY DEF Claim, TypeOK, ThreadOK, ClaimProtocol, TickHasRow, InstancesApart, OwnClaim,
         Progress
<1>2. /\ pc'[s] = "readclaim" /\ cmd'[s] = i /\ tier'[s] = tier[s] /\ err'[s] = err[s]
      /\ UNCHANGED <<deed, loaded, instance>>
  BY DEF Claim, Proceed, Goto, TypeOK, ThreadOK
<1>3. \A o \in Servers \ {s} : /\ pc'[o] = pc[o] /\ tier'[o] = tier[o]
                               /\ cmd'[o] = cmd[o] /\ err'[o] = err[o]
  BY OthersWait DEF Claim, TypeOK
<1>4. CASE row' = row
  <2>1. Tick(s)'
    BY <1>1, <1>2, <1>4 DEF Tick, TickHasRow, OwnClaim, Progress, Stamped, Owning
  <2>2. QED
    BY <1>2, <1>3, <1>4, <2>1, LocalProtocol
<1>5. CASE row[i].status = "pending" /\ row' = [row EXCEPT ![i] = r]
  <2>1. /\ row'[i].status = "processing" /\ row'[i].claimedBy = me
        /\ row'[i].action = row[i].action
        /\ \A j \in Ids \ {i} : row'[j] = row[j]
    <3>1. row \in [Ids -> Row] /\ row[i] \in Row
      BY <1>1 DEF TypeOK, TablesOK
    <3>2. r.status = "processing" /\ r.claimedBy = me /\ r.action = row[i].action
      BY <3>1 DEF Row
    <3>3. row'[i] = r /\ \A j \in Ids \ {i} : row'[j] = row[j]
      BY <1>1, <1>5, <3>1
    <3>4. QED
      BY <3>2, <3>3
  <2>2. Did(i, 0, "none") /\ row[i].claimedBy = None
    BY <1>1, <1>5 DEF ClaimProtocol, Untouched
  <2>3. me # None
    BY <1>1
  <2>4. Rows'
    <3>1. Untouched'
      BY <1>2, <2>1 DEF ClaimProtocol, Untouched
    <3>2. AtMostOnce'
      BY <1>2, <2>1, <2>3 DEF ClaimProtocol, AtMostOnce
    <3>3. ExecutedIsObserved'
      BY <1>2, <2>1 DEF ClaimProtocol, ExecutedIsObserved, Terminal
    <3>4. RefusalLeavesGameAlone'
      BY <1>2, <2>1 DEF ClaimProtocol, RefusalLeavesGameAlone
    <3>5. QED
      BY <3>1, <3>2, <3>3, <3>4 DEF Rows
  <2>5. Tick(s)'
    BY <1>1, <1>2, <2>1, <2>2, <2>3
    DEF Tick, TickHasRow, OwnClaim, Progress, Stamped, Owning
  <2>6. ASSUME NEW o \in Servers \ {s} PROVE Tick(o)'
    <3>1. Tick(o)
      BY ProtocolParts
    <3>2. CASE pc[o] \in {"idle", "select"} \/ cmd[o] # i
      <4>1. pc[o] \notin {"idle", "select"} => cmd[o] \in Ids
        BY DEF TypeOK, ThreadOK
      <4>2. QED
        BY <1>2, <1>3, <2>1, <3>1, <3>2, <4>1, OtherTick
    <3>3. CASE pc[o] \notin {"idle", "select"} /\ cmd[o] = i
      <4>1. instance[o][tier[o]] # me
        BY <3>3, Exclusive DEF Claim
      <4>2. pc[o] \notin Owning
        BY <1>5, <3>3 DEF ClaimProtocol, OwnClaim
      <4>3. ~Stamped(o)'
        BY <1>2, <1>3, <2>1, <3>3, <4>1 DEF Stamped
      <4>4. TickHasRow(o)'
        BY <1>2, <1>3, <2>1, <3>1, <3>3 DEF Tick, TickHasRow
      <4>5. OwnClaim(o)'
        BY <1>2, <1>3, <4>2, <4>3 DEF OwnClaim
      <4>6. Progress(o)'
        BY <1>2, <1>3, <3>1, <4>2, <4>3 DEF Tick, Progress, Owning
      <4>7. QED
        BY <4>4, <4>5, <4>6 DEF Tick
    <3>4. QED
      BY <3>2, <3>3
  <2>7. QED
    BY <1>2, <2>4, <2>5, <2>6, InstancesStay DEF ClaimProtocol, Rows, Tick
<1>6. QED
  BY <1>4, <1>5 DEF Claim

LEMMA ReadClaimProtocol ==
  ASSUME TypeOK, ClaimProtocol, NEW s \in Servers, ReadClaim(s)
  PROVE  ClaimProtocol'
<1>1. CASE Reschedule(s)
  BY <1>1, IdleTick, OthersWait, LocalProtocol DEF ReadClaim, TypeOK
<1>2. CASE Stamped(s) /\ Proceed(s, "lookup")
  <2>1. /\ pc'[s] = "lookup" /\ cmd'[s] = cmd[s] /\ tier'[s] = tier[s] /\ err'[s] = err[s]
        /\ UNCHANGED <<row, deed, loaded, instance>>
    BY <1>2 DEF ReadClaim, Proceed, Goto, TypeOK, ThreadOK
  <2>2. Tick(s)
    BY ProtocolParts
  <2>3. Tick(s)'
    BY <1>2, <2>1, <2>2
    DEF ReadClaim, Tick, TickHasRow, OwnClaim, Progress, Stamped, Owning
  <2>4. QED
    BY <1>2, <2>1, <2>3, OthersWait, LocalProtocol DEF TypeOK
<1>3. QED
  BY <1>1, <1>2 DEF ReadClaim, Stamped

LEMMA LookupProtocol ==
  ASSUME TypeOK, ClaimProtocol, NEW s \in Servers, Lookup(s)
  PROVE  ClaimProtocol'
<1>1. /\ cmd'[s] = cmd[s] /\ tier'[s] = tier[s] /\ UNCHANGED <<row, deed, loaded, instance>>
      /\ \/ pc'[s] = "act" /\ err'[s] = err[s]
         \/ pc'[s] = "finish" /\ err'[s] = "no such character"
  BY DEF Lookup, Proceed, Fail, Goto, TypeOK, ThreadOK
<1>2. Tick(s)
  BY ProtocolParts
<1>3. Tick(s)'
  <2>1. TickHasRow(s)' /\ OwnClaim(s)'
    BY <1>1, <1>2 DEF Lookup, Tick, TickHasRow, OwnClaim, Stamped, Owning
  <2>2. Did(cmd[s], 0, "none")
    <3>1. pc[s] = "lookup"
      BY DEF Lookup
    <3>2. Did(cmd[s], 0, "none")
      BY <1>2, <3>1 DEF Tick, Progress
    <3>3. QED
      BY <3>2
  <2>3. Progress(s)'
    BY <1>1, <1>2, <2>2 DEF Lookup, Tick, Progress
  <2>4. QED
    BY <2>1, <2>3 DEF Tick
<1>4. QED
  BY <1>1, <1>3, OthersWait, LocalProtocol DEF Lookup, TypeOK

LEMMA RecordSyncProtocol ==
  ASSUME TypeOK, ClaimProtocol, NEW s \in Servers, RecordSync(s)
  PROVE  ClaimProtocol'
<1>1. /\ cmd'[s] = cmd[s] /\ tier'[s] = tier[s] /\ UNCHANGED <<row, deed, loaded, instance>>
      /\ pc'[s] = "finish" /\ err'[s] = err[s]
  BY DEF RecordSync, Proceed, Goto, TypeOK, ThreadOK
<1>2. Tick(s)
  BY ProtocolParts
<1>3. Tick(s)'
  <2>1. TickHasRow(s)' /\ OwnClaim(s)'
    BY <1>1, <1>2 DEF RecordSync, Tick, TickHasRow, OwnClaim, Stamped, Owning
  <2>2. deed[cmd[s]].effect = "full" /\ err[s] = ""
    <3>1. pc[s] = "record"
      BY DEF RecordSync
    <3>2. Did(cmd[s], 1, "full") /\ err[s] = ""
      BY <1>2, <3>1 DEF Tick, Progress
    <3>3. QED
      BY <3>2
  <2>3. Progress(s)'
    BY <1>1, <2>2 DEF Progress, Refusals
  <2>4. QED
    BY <2>1, <2>3 DEF Tick
<1>4. QED
  BY <1>1, <1>3, OthersWait, LocalProtocol DEF RecordSync, TypeOK

\* A row in the hands of a tick is nobody else's.
LEMMA OthersElsewhere ==
  ASSUME TypeOK, ClaimProtocol, NEW s \in Servers, NEW o \in Servers \ {s},
         pc[s] \in Owning, pc[o] \notin {"idle", "select"}, cmd[o] = cmd[s]
  PROVE  ~Stamped(o) /\ pc[o] \in {"claim", "readclaim"}
<1>1. instance[s][tier[s]] # instance[o][tier[o]]
  BY Exclusive DEF Owning
<1>2. Stamped(s)
  BY DEF ClaimProtocol, OwnClaim
<1>3. ~Stamped(o)
  BY <1>1, <1>2 DEF Stamped
<1>4. pc[o] \notin Owning
  BY <1>3 DEF ClaimProtocol, OwnClaim
<1>5. pc[o] \in Positions
  BY DEF TypeOK, ThreadOK
<1>6. QED
  BY <1>3, <1>4, <1>5 DEF Positions

\* A tick that owns its row lets the game act for it, once.
LEMMA DeedProtocol ==
  ASSUME TypeOK, ClaimProtocol, NEW s \in Servers, pc[s] \in Owning,
         NEW d \in Deed, d.runs = 1, deed' = [deed EXCEPT ![cmd[s]] = d],
         UNCHANGED <<row, loaded, instance>>,
         \A o \in Servers \ {s} : /\ pc'[o] = pc[o] /\ tier'[o] = tier[o]
                                  /\ cmd'[o] = cmd[o] /\ err'[o] = err[o],
         Tick(s)'
  PROVE  ClaimProtocol'
<1> DEFINE i == cmd[s]
<1>1. i \in Ids /\ pc[s] \notin {"idle", "select"}
  BY DEF TypeOK, ThreadOK, Owning
<1>2. row[i].status = "processing" /\ row[i].claimedBy # None
  <2>1. row[i].status = "processing" /\ row[i].claimedBy = instance[s][tier[s]]
    BY DEF ClaimProtocol, OwnClaim, Stamped
  <2>2. tier[s] \in loaded[s]
    BY <1>1 DEF ClaimProtocol, TickHasRow
  <2>3. instance[s][tier[s]] \in Instances
    BY <2>2 DEF ClaimProtocol, InstancesApart
  <2>4. QED
    BY <2>1, <2>3
<1>3. deed'[i] = d /\ \A j \in Ids \ {i} : deed'[j] = deed[j]
  BY <1>1 DEF TypeOK
<1>4. Rows'
  <2>1. Untouched'
    BY <1>2, <1>3 DEF ClaimProtocol, Untouched
  <2>2. AtMostOnce'
    BY <1>2, <1>3 DEF ClaimProtocol, AtMostOnce
  <2>3. ExecutedIsObserved'
    BY <1>2, <1>3 DEF ClaimProtocol, ExecutedIsObserved, Terminal
  <2>4. RefusalLeavesGameAlone'
    BY <1>2, <1>3 DEF ClaimProtocol, RefusalLeavesGameAlone
  <2>5. QED
    BY <2>1, <2>2, <2>3, <2>4 DEF Rows
<1>5. ASSUME NEW o \in Servers \ {s} PROVE Tick(o)'
  <2>1. Tick(o)
    BY ProtocolParts
  <2>2. CASE pc[o] \in {"idle", "select"} \/ cmd[o] # i
    <3>1. pc[o] \notin {"idle", "select"} => cmd[o] \in Ids
      BY DEF TypeOK, ThreadOK
    <3>2. QED
      BY <1>3, <2>1, <2>2, <3>1, OtherTick
  <2>3. CASE pc[o] \notin {"idle", "select"} /\ cmd[o] = i
    <3>1. ~Stamped(o) /\ pc[o] \in {"claim", "readclaim"}
      BY <2>3, OthersElsewhere
    <3>2. TickHasRow(o)' /\ OwnClaim(o)' /\ ~Stamped(o)'
      BY <2>1, <3>1 DEF Tick, TickHasRow, OwnClaim, Stamped, Owning
    <3>3. Progress(o)'
      BY <2>1, <3>1, <3>2 DEF Tick, Progress
    <3>4. QED
      BY <3>2, <3>3 DEF Tick
  <2>4. QED
    BY <2>2, <2>3
<1>6. QED
  BY <1>4, <1>5, InstancesStay DEF ClaimProtocol, Rows, Tick

\* A tick that owns its row and goes on to a later statement of the same script
\* still has it, whatever it does to the deed.
LEMMA TickKeepsRow ==
  ASSUME TypeOK, ClaimProtocol, NEW s \in Servers, pc[s] \in Owning, pc'[s] \in Owning,
         cmd'[s] = cmd[s], tier'[s] = tier[s], UNCHANGED <<row, loaded, instance>>
  PROVE  TickHasRow(s)' /\ OwnClaim(s)'
<1>1. TickHasRow(s) /\ OwnClaim(s)
  BY DEF ClaimProtocol
<1>2. QED
  BY <1>1 DEF TickHasRow, OwnClaim, Stamped, Owning

LEMMA RefuseProtocol ==
  ASSUME TypeOK, ClaimProtocol, NEW s \in Servers, pc[s] = "act",
         NEW e \in Refusals, Fail(s, e), UNCHANGED <<row, deed, loaded, instance>>
  PROVE  ClaimProtocol'
<1>1. pc'[s] = "finish" /\ cmd'[s] = cmd[s] /\ tier'[s] = tier[s] /\ err'[s] = e
  BY DEF Fail, Goto, TypeOK, ThreadOK
<1>2. TickHasRow(s)' /\ OwnClaim(s)'
  BY <1>1, TickKeepsRow DEF Owning
<1>3. Did(cmd[s], 0, "none")
  BY DEF ClaimProtocol, Progress
<1>4. deed[cmd[s]].runs = 0 /\ deed[cmd[s]].effect = "none" /\ e # ""
  BY <1>3 DEF Refusals
<1>5. Progress(s)'
  BY <1>1, <1>4 DEF Progress
<1>6. Tick(s)'
  BY <1>2, <1>5 DEF Tick
<1>7. QED
  BY <1>6, OthersWait, LocalProtocol DEF TypeOK

LEMMA ActTier1Protocol ==
  ASSUME TypeOK, ClaimProtocol, NEW s \in Servers, ActTier1(s)
  PROVE  ClaimProtocol'
<1>1. CASE UNCHANGED deed /\ \E e \in Refusals : Fail(s, e)
  BY <1>1, RefuseProtocol DEF ActTier1
<1>2. ASSUME NEW e \in Effects, Fail(s, Verdict(e)),
             deed' = [deed EXCEPT ![cmd[s]] = [runs |-> @.runs + 1, effect |-> e]]
      PROVE  ClaimProtocol'
  <2>1. /\ pc'[s] = "finish" /\ cmd'[s] = cmd[s] /\ tier'[s] = tier[s]
        /\ err'[s] = Verdict(e)
    BY <1>2 DEF Fail, Goto, TypeOK, ThreadOK
  <2>2. pc[s] = "act" /\ UNCHANGED <<row, loaded, instance>>
    BY DEF ActTier1
  <2>3. cmd[s] \in Ids /\ Did(cmd[s], 0, "none")
    BY <2>2 DEF ClaimProtocol, Progress, TypeOK, ThreadOK
  <2> DEFINE d == [runs |-> 1, effect |-> e]
  <2>4. deed' = [deed EXCEPT ![cmd[s]] = d]
    BY <1>2, <2>3
  <2>5. d \in Deed /\ d.runs = 1 /\ d.effect = e
    BY DEF Deed
  <2>6. deed'[cmd[s]] = d
    BY <2>3, <2>4 DEF TypeOK
  <2> HIDE DEF d
  <2>7. TickHasRow(s)' /\ OwnClaim(s)'
    BY <2>1, <2>2, TickKeepsRow DEF Owning
  <2>8. Progress(s)'
    BY <2>1, <2>5, <2>6 DEF Progress, Verdict, Refusals
  <2>9. QED
    BY <1>2, <2>2, <2>4, <2>5, <2>7, <2>8, DeedProtocol, OthersWait DEF TypeOK, Tick, Owning
<1>3. QED
  BY <1>1, <1>2 DEF ActTier1, Refuse, Refusals

LEMMA ActTier2Protocol ==
  ASSUME TypeOK, ClaimProtocol, NEW s \in Servers, ActTier2(s)
  PROVE  ClaimProtocol'
<1>1. CASE UNCHANGED deed /\ \E e \in Refusals : Fail(s, e)
  BY <1>1, RefuseProtocol DEF ActTier2
<1>2. CASE /\ deed' = [deed EXCEPT ![cmd[s]] = [runs |-> @.runs + 1, effect |-> "part"]]
           /\ Proceed(s, "readback")
  <2>1. /\ pc'[s] = "readback" /\ cmd'[s] = cmd[s] /\ tier'[s] = tier[s]
        /\ err'[s] = err[s]
    BY <1>2 DEF Proceed, Goto, TypeOK, ThreadOK
  <2>2. pc[s] = "act" /\ UNCHANGED <<row, loaded, instance>>
    BY DEF ActTier2
  <2>3. cmd[s] \in Ids /\ Did(cmd[s], 0, "none") /\ err[s] = ""
    BY <2>2 DEF ClaimProtocol, Progress, TypeOK, ThreadOK
  <2> DEFINE d == [runs |-> 1, effect |-> "part"]
  <2>4. deed' = [deed EXCEPT ![cmd[s]] = d]
    <3> DEFINE n == deed[cmd[s]].runs
    <3>1. n = 0
      BY <2>3 DEF Did
    <3> HIDE DEF n
    <3>2. n + 1 = 1
      BY <3>1
    <3> USE DEF n
    <3>3. deed' = [deed EXCEPT ![cmd[s]] = [runs |-> deed[cmd[s]].runs + 1,
                                            effect |-> "part"]]
      BY <1>2, Zenon
    <3>4. QED
      BY <3>2, <3>3, Zenon
  <2>5. d \in Deed /\ d.runs = 1 /\ d.effect = "part"
    BY DEF Deed, Effects
  <2>6. deed'[cmd[s]] = d
    BY <2>3, <2>4 DEF TypeOK
  <2> HIDE DEF d
  <2>7. TickHasRow(s)' /\ OwnClaim(s)'
    BY <2>1, <2>2, TickKeepsRow DEF Owning
  <2>8. Progress(s)'
    BY <2>1, <2>3, <2>5, <2>6 DEF Progress
  <2>9. QED
    BY <1>2, <2>2, <2>4, <2>5, <2>7, <2>8, DeedProtocol, OthersWait DEF TypeOK, Tick, Owning
<1>3. QED
  BY <1>1, <1>2 DEF ActTier2, Refuse, HookFails, Refusals

LEMMA ReadStoredProtocol ==
  ASSUME TypeOK, ClaimProtocol, NEW s \in Servers, ReadStored(s)
  PROVE  ClaimProtocol'
<1>1. pc[s] = "readback" /\ UNCHANGED <<row, loaded, instance>>
  BY DEF ReadStored
<1>2. cmd[s] \in Ids /\ Did(cmd[s], 1, "part") /\ err[s] = ""
  BY <1>1 DEF ClaimProtocol, Progress, TypeOK, ThreadOK
<1>3. CASE Fail(s, "not yet persisted") /\ UNCHANGED deed
  <2>1. /\ pc'[s] = "finish" /\ cmd'[s] = cmd[s] /\ tier'[s] = tier[s]
        /\ err'[s] = "not yet persisted"
    BY <1>3 DEF Fail, Goto, TypeOK, ThreadOK
  <2>2. TickHasRow(s)' /\ OwnClaim(s)'
    BY <1>1, <2>1, TickKeepsRow DEF Owning
  <2>3. Progress(s)'
    BY <1>2, <1>3, <2>1 DEF Progress, Refusals
  <2>4. QED
    BY <1>1, <1>3, <2>2, <2>3, OthersWait, LocalProtocol DEF TypeOK, Tick
<1>4. CASE /\ deed' = [deed EXCEPT ![cmd[s]] = [runs |-> @.runs, effect |-> "full"]]
           /\ Proceed(s, "record")
  <2>1. /\ pc'[s] = "record" /\ cmd'[s] = cmd[s] /\ tier'[s] = tier[s]
        /\ err'[s] = err[s]
    BY <1>4 DEF Proceed, Goto, TypeOK, ThreadOK
  <2> DEFINE d == [runs |-> 1, effect |-> "full"]
  <2>2. deed' = [deed EXCEPT ![cmd[s]] = d]
    BY <1>2, <1>4
  <2>3. d \in Deed /\ d.runs = 1 /\ d.effect = "full"
    BY DEF Deed, Effects
  <2>4. deed'[cmd[s]] = d
    BY <1>2, <2>2 DEF TypeOK
  <2> HIDE DEF d
  <2>5. TickHasRow(s)' /\ OwnClaim(s)'
    BY <1>1, <2>1, TickKeepsRow DEF Owning
  <2>6. Progress(s)'
    BY <1>2, <2>1, <2>3, <2>4 DEF Progress
  <2>7. QED
    BY <1>1, <1>4, <2>2, <2>3, <2>5, <2>6, DeedProtocol, OthersWait DEF TypeOK, Tick, Owning
<1>5. QED
  BY <1>3, <1>4 DEF ReadStored

\* L_Finish: the verdict is written on a row that is still in processing.
LEMMA FinishProtocol ==
  ASSUME TypeOK, ClaimProtocol, NEW s \in Servers, Finish(s)
  PROVE  ClaimProtocol'
<1> DEFINE i == cmd[s]
           r == [row[i] EXCEPT !.status = Outcome(err[s]), !.error = err[s]]
<1>1. /\ i \in Ids /\ pc[s] = "finish" /\ pc[s] \in Owning
      /\ Reschedule(s) /\ UNCHANGED <<deed, loaded, instance>>
  BY DEF Finish, TypeOK, ThreadOK, Owning
<1>2. \A o \in Servers \ {s} : /\ pc'[o] = pc[o] /\ tier'[o] = tier[o]
                               /\ cmd'[o] = cmd[o] /\ err'[o] = err[o]
  BY <1>1, OthersWait DEF TypeOK
<1>3. Tick(s)'
  BY <1>1, IdleTick DEF TypeOK
<1>4. CASE row' = row
  BY <1>1, <1>2, <1>3, <1>4, LocalProtocol
<1>5. CASE row' = [row EXCEPT ![i] = r]
  <2>1. /\ row[i].status = "processing" /\ row[i].claimedBy = instance[s][tier[s]]
        /\ tier[s] \in loaded[s]
    BY <1>1 DEF ClaimProtocol, OwnClaim, Stamped, TickHasRow
  <2>2. instance[s][tier[s]] \in Instances
    BY <2>1 DEF ClaimProtocol, InstancesApart
  <2>3. /\ err[s] = "" <=> deed[i].effect = "full"
        /\ err[s] \in Refusals => deed[i].runs = 0
    BY <1>1 DEF ClaimProtocol, Progress
  <2>4. /\ row'[i].status = Outcome(err[s]) /\ row'[i].error = err[s]
        /\ row'[i].claimedBy = row[i].claimedBy /\ row'[i].action = row[i].action
        /\ \A j \in Ids \ {i} : row'[j] = row[j]
    <3>1. row \in [Ids -> Row] /\ row[i] \in Row
      BY <1>1 DEF TypeOK, TablesOK
    <3>2. /\ r.status = Outcome(err[s]) /\ r.error = err[s]
          /\ r.claimedBy = row[i].claimedBy /\ r.action = row[i].action
      BY <3>1 DEF Row
    <3>3. row'[i] = r /\ \A j \in Ids \ {i} : row'[j] = row[j]
      BY <1>1, <1>5, <3>1
    <3>4. QED
      BY <3>2, <3>3
  <2>5. Rows'
    <3>1. Outcome(err[s]) \in Terminal /\ (Outcome(err[s]) = "executed" <=> err[s] = "")
      BY DEF Outcome, Terminal
    <3>2. Untouched'
      BY <1>1, <2>4, <3>1 DEF ClaimProtocol, Untouched, Terminal
    <3>3. AtMostOnce'
      BY <1>1, <2>1, <2>2, <2>4 DEF ClaimProtocol, AtMostOnce
    <3>4. ExecutedIsObserved'
      BY <1>1, <2>3, <2>4, <3>1 DEF ClaimProtocol, ExecutedIsObserved
    <3>5. RefusalLeavesGameAlone'
      BY <1>1, <2>3, <2>4 DEF ClaimProtocol, RefusalLeavesGameAlone
    <3>6. QED
      BY <3>2, <3>3, <3>4, <3>5 DEF Rows
  <2>6. ASSUME NEW o \in Servers \ {s} PROVE Tick(o)'
    <3>1. Tick(o)
      BY ProtocolParts
    <3>2. CASE pc[o] \in {"idle", "select"} \/ cmd[o] # i
      <4>1. pc[o] \notin {"idle", "select"} => cmd[o] \in Ids
        BY DEF TypeOK, ThreadOK
      <4>2. QED
        BY <1>1, <1>2, <2>4, <3>1, <3>2, <4>1, OtherTick
    <3>3. CASE pc[o] \notin {"idle", "select"} /\ cmd[o] = i
      <4>1. ~Stamped(o) /\ pc[o] \in {"claim", "readclaim"}
        BY <1>1, <3>3, OthersElsewhere
      <4>2. ~Stamped(o)'
        BY <1>1, <1>2, <2>4, <3>3, <4>1 DEF Stamped
      <4>3. TickHasRow(o)'
        BY <1>1, <1>2, <2>4, <3>1, <3>3 DEF Tick, TickHasRow, Outcome
      <4>4. OwnClaim(o)'
        BY <1>2, <4>1, <4>2 DEF OwnClaim, Owning
      <4>5. Progress(o)'
        BY <1>2, <3>1, <4>1, <4>2 DEF Tick, Progress
      <4>6. QED
        BY <4>3, <4>4, <4>5 DEF Tick
    <3>4. QED
      BY <3>2, <3>3
  <2>7. QED
    BY <1>1, <1>3, <2>5, <2>6, InstancesStay DEF ClaimProtocol, Rows, Tick
<1>6. QED
  BY <1>4, <1>5 DEF Finish

\* A script is loaded between two ticks, with an instance no other consumer has.
LEMMA LoadProtocol ==
  ASSUME TypeOK, ClaimProtocol, NEW s \in Servers, NEW T \in SUBSET Scripts[s] \ {{}},
         Load(s, T)
  PROVE  ClaimProtocol'
<1>1. T \in SUBSET Tiers
  OBVIOUS
<1>2. PICK drawn \in [T -> Instances] :
        /\ Distinct(s, T, drawn)
        /\ instance' = [instance EXCEPT ![s] =
                          [t \in Tiers |-> IF t \in T THEN drawn[t] ELSE None]]
  BY DEF Load
<1>3. /\ pc[s] = "idle" /\ loaded' = [loaded EXCEPT ![s] = T]
      /\ UNCHANGED <<row, deed, thread>>
  BY DEF Load
<1>4. /\ loaded'[s] = T /\ \A t \in T : instance'[s][t] = drawn[t]
      /\ \A o \in Servers \ {s} : loaded'[o] = loaded[o] /\ instance'[o] = instance[o]
  BY <1>1, <1>2, <1>3 DEF TypeOK, WorldOK
<1>5. InstancesApart'
  <2>1. \A o \in Servers : \A t \in loaded'[o] : instance'[o][t] \in Instances
    BY <1>2, <1>4 DEF ClaimProtocol, InstancesApart
  <2>2. ASSUME NEW o \in Servers \ {s}, NEW t \in T, t \in loaded'[o]
        PROVE  instance'[s][t] # instance'[o][t]
    BY <1>2, <1>4, <2>2 DEF Distinct
  <2>3. ASSUME NEW a \in Servers, NEW b \in Servers,
               NEW t \in loaded'[a] \cap loaded'[b], a # b
        PROVE  instance'[a][t] # instance'[b][t]
    <3>1. CASE a = s
      BY <1>4, <2>2, <2>3, <3>1
    <3>2. CASE b = s
      BY <1>4, <2>2, <2>3, <3>2
    <3>3. CASE a # s /\ b # s
      BY <1>4, <2>3, <3>3 DEF ClaimProtocol, InstancesApart
    <3>4. QED
      BY <3>1, <3>2, <3>3
  <2>4. QED
    BY <2>1, <2>3 DEF InstancesApart
<1>6. ASSUME NEW o \in Servers PROVE Tick(o)'
  <2>1. Tick(o)
    BY ProtocolParts
  <2>2. CASE o = s
    BY <1>3, <2>1, <2>2 DEF Tick, TickHasRow, OwnClaim, Progress, Owning
  <2>3. CASE o # s
    BY <1>3, <1>4, <2>1, <2>3, OtherTick
  <2>4. QED
    BY <2>2, <2>3
<1>7. QED
  BY <1>3, <1>5, <1>6, RowsApart, ProtocolParts DEF ClaimProtocol, Rows, Tick

\* A server that dies leaves its row as it was and its instance to nobody.
LEMMA CrashProtocol ==
  ASSUME TypeOK, ClaimProtocol, NEW s \in Servers, Crash(s) PROVE ClaimProtocol'
<1>1. /\ Reschedule(s) /\ loaded' = [loaded EXCEPT ![s] = {}]
      /\ instance' = [instance EXCEPT ![s] = [t \in Tiers |-> None]]
      /\ UNCHANGED <<row, deed>>
  BY DEF Crash
<1>2. /\ loaded'[s] = {}
      /\ \A o \in Servers \ {s} : loaded'[o] = loaded[o] /\ instance'[o] = instance[o]
  BY <1>1 DEF TypeOK, WorldOK
<1>3. InstancesApart'
  BY <1>2 DEF ClaimProtocol, InstancesApart
<1>4. ASSUME NEW o \in Servers PROVE Tick(o)'
  <2>1. CASE o = s
    BY <1>1, <2>1, IdleTick DEF TypeOK
  <2>2. CASE o # s
    <3>1. /\ pc'[o] = pc[o] /\ tier'[o] = tier[o]
          /\ cmd'[o] = cmd[o] /\ err'[o] = err[o]
      BY <1>1, <2>2, OthersWait DEF TypeOK
    <3>2. Tick(o)
      BY ProtocolParts
    <3>3. QED
      BY <1>1, <1>2, <2>2, <3>1, <3>2, OtherTick
  <2>3. QED
    BY <2>1, <2>2
<1>5. QED
  BY <1>1, <1>3, <1>4, RowsApart, ProtocolParts DEF ClaimProtocol, Rows, Tick

\* What callers and other programs do to the queue: read it, or add a row to it.
LEMMA ApiProtocol ==
  ASSUME TypeOK, ClaimProtocol,
         \/ \E k \in Clients : Api(k)
         \/ \E a \in ForeignActions, c \in Chars : ForeignInsert(a, c)
  PROVE  ClaimProtocol'
<1>1. ASSUME NEW k \in Clients, NEW a \in AskedActions, NEW c \in Chars, Check(k, a, c)
      PROVE  ClaimProtocol'
  BY <1>1, ProtocolApart DEF Check, world
<1>2. ASSUME NEW k \in Clients, Enqueue(k) PROVE ClaimProtocol'
  <2>1. PICK i \in Ids :
          /\ NextId(i)
          /\ \/ row' = row
             \/ row' = [row EXCEPT ![i] = NewRow(client[k].action, client[k].char)]
    BY <1>2 DEF Enqueue
  <2>2. UNCHANGED <<deed, loaded, instance, thread>>
    BY <1>2 DEF Enqueue
  <2>3. QED
    BY <2>1, <2>2, InsertProtocol, ProtocolApart
<1>3. ASSUME NEW k \in Clients, ReadBack(k) \/ Poll(k) PROVE ClaimProtocol'
  BY <1>3, ProtocolApart DEF ReadBack, Poll
<1>4. ASSUME NEW a \in ForeignActions, NEW c \in Chars, ForeignInsert(a, c)
      PROVE  ClaimProtocol'
  <2>1. PICK i \in Ids : NextId(i) /\ row' = [row EXCEPT ![i] = NewRow(a, c)]
    BY <1>4 DEF ForeignInsert
  <2>2. UNCHANGED <<deed, loaded, instance, thread>>
    BY <1>4 DEF ForeignInsert
  <2>3. QED
    BY <2>1, <2>2, InsertProtocol
<1>5. QED
  BY <1>1, <1>2, <1>3, <1>4 DEF Api

LEMMA AroundProtocol ==
  ASSUME ClaimProtocol,
         \/ \E c \in Registered : Player(c)
         \/ \E t \in Tiers : Age(t)
         \/ UNCHANGED vars
  PROVE  ClaimProtocol'
<1>1. UNCHANGED <<row, deed, loaded, instance, thread>>
  BY DEF Player, Login, Logout, Age, vars
<1>2. QED
  BY <1>1, ProtocolApart

\* Every step of a map server.
LEMMA ServerProtocol ==
  ASSUME TypeOK, ClaimProtocol, NEW s \in Servers, Server(s) PROVE ClaimProtocol'
  BY StartTickProtocol, SelectProtocol, ClaimProtocolStep, ReadClaimProtocol,
     LookupProtocol, ActTier1Protocol, ActTier2Protocol, ReadStoredProtocol,
     RecordSyncProtocol, FinishProtocol, LoadProtocol, CrashProtocol
  DEF Server, Continue

\* The claim protocol of the two scripts is inductive: whatever number of consumers
\* share the queue, whichever statements fail and servers die, between any two statements
\* a row is either unclaimed and untouched, or stamped by the one tick that acts on it.
THEOREM ProtocolHolds == Spec => []ClaimProtocol
<1>1. TypeOK /\ ClaimProtocol /\ [Next]_vars => ClaimProtocol'
  BY ApiProtocol, ServerProtocol, AroundProtocol DEF Next
<1>2. QED
  BY InitProtocol, TypeCorrect, <1>1, PTL DEF Spec

\* No command is ever carried out twice in the game, and none before it carries the
\* instance of the script that carries it out.
THEOREM CommandsRunAtMostOnce == Spec => []AtMostOnce
<1>1. ClaimProtocol => AtMostOnce
  BY DEF ClaimProtocol
<1>2. QED
  BY ProtocolHolds, <1>1, PTL

\* `executed' is written exactly on the rows whose whole effect was observed in the game.
THEOREM VerdictsAreObserved == Spec => []ExecutedIsObserved
<1>1. ClaimProtocol => ExecutedIsObserved
  BY DEF ClaimProtocol
<1>2. QED
  BY ProtocolHolds, <1>1, PTL

\* A caller that reads a refusal may ask again: the game was not touched for that row.
THEOREM RefusalsAreSafeToRetry == Spec => []RefusalLeavesGameAlone
<1>1. ClaimProtocol => RefusalLeavesGameAlone
  BY DEF ClaimProtocol
<1>2. QED
  BY ProtocolHolds, <1>1, PTL

\* A verdict is final: the UPDATE of L_Finish, which asks neither the status nor the
\* claimant of the row it names, never meets a row that already has one.
THEOREM VerdictsAreFinal == Spec => TerminalIsFinal
<1> DEFINE Kept == \A i \in Ids : row[i].status \in Terminal => row'[i] = row[i]
<1>1. TypeOK /\ ClaimProtocol /\ [Next]_vars => [Kept]_vars
  <2> SUFFICES ASSUME TypeOK, ClaimProtocol, [Next]_vars PROVE Kept
    OBVIOUS
  <2>1. CASE row' = row
    BY <2>1
  <2>2. ASSUME NEW i \in Ids, NextId(i), NEW a, NEW c,
               row' = [row EXCEPT ![i] = NewRow(a, c)]
        PROVE  Kept
    BY <2>2 DEF NextId, Terminal, TypeOK, TablesOK
  <2>3. ASSUME NEW k \in Clients, Enqueue(k) PROVE Kept
    BY <2>1, <2>2, <2>3 DEF Enqueue
  <2>4. ASSUME NEW a \in ForeignActions, NEW c \in Chars, ForeignInsert(a, c) PROVE Kept
    BY <2>2, <2>4 DEF ForeignInsert
  <2>5. ASSUME NEW s \in Servers, Claim(s) PROVE Kept
    <3>1. row' = row \/ row[cmd[s]].status = "pending"
      BY <2>5 DEF Claim
    <3>2. \A j \in Ids \ {cmd[s]} : row'[j] = row[j]
      BY <2>5 DEF Claim, TypeOK, TablesOK
    <3>3. QED
      BY <3>1, <3>2 DEF Terminal
  <2>6. ASSUME NEW s \in Servers, Finish(s) PROVE Kept
    <3>1. row[cmd[s]].status = "processing"
      <4>1. pc[s] \in Owning
        BY <2>6 DEF Finish, Owning
      <4>2. QED
        BY <4>1 DEF ClaimProtocol, OwnClaim
    <3>2. \A j \in Ids \ {cmd[s]} : row'[j] = row[j]
      BY <2>6 DEF Finish, TypeOK, TablesOK
    <3>3. QED
      BY <3>1, <3>2 DEF Terminal
  <2>7. CASE \E k \in Clients : Api(k)
    <3>1. ASSUME NEW k \in Clients, Api(k) PROVE row' = row \/ Enqueue(k)
      BY <3>1 DEF Api, Check, ReadBack, Poll
    <3>2. QED
      BY <2>1, <2>3, <2>7, <3>1
  <2>8. CASE \E s \in Servers : Server(s)
    <3>1. ASSUME NEW s \in Servers, Server(s) PROVE row' = row \/ Claim(s) \/ Finish(s)
      BY <3>1 DEF Server, Continue, StartTick, Select, ReadClaim, Lookup, ActTier1, ActTier2,
                  ReadStored, RecordSync, Load, Crash
    <3>2. QED
      BY <2>1, <2>5, <2>6, <2>8, <3>1
  <2>9. CASE (\E c \in Registered : Player(c)) \/ (\E t \in Tiers : Age(t)) \/ UNCHANGED vars
    BY <2>1, <2>9 DEF Player, Login, Logout, Age, vars
  <2>10. QED
    BY <2>4, <2>7, <2>8, <2>9 DEF Next
<1>2. QED
  BY <1>1, TypeCorrect, ProtocolHolds, PTL DEF TerminalIsFinal, Spec
------------------------------------------------------------------------------
(***************************************************************************)
(* What callers and operators may count on: that the overlay is the queue  *)
(* CommandQueue describes, and that rows are served in order, served by    *)
(* somebody, and never reported otherwise than they stand.                 *)
(***************************************************************************)
\* What the queue sees of row i.
Seen(i) == [status |-> row[i].status, runs |-> deed[i].runs, effect |-> deed[i].effect]

LEMMA InitRefines == Init => Queue!Init
<1> SUFFICES ASSUME Init PROVE Queue!Init
  OBVIOUS
<1>1. \A i \in Ids : row[i].status = "absent" /\ deed[i].runs = 0 /\ deed[i].effect = "none"
  BY DEF Init, NoRow, NoDeed
<1>2. job = [i \in Ids |-> [status |-> "absent", runs |-> 0, effect |-> "none"]]
  BY <1>1 DEF job
<1>3. QED
  BY <1>2 DEF Queue!Init

\* A step that leaves every row but one alone changes what the queue sees of that one.
LEMMA JobChanges ==
  ASSUME NEW i \in Ids,
         \A j \in Ids \ {i} : row'[j] = row[j] /\ deed'[j] = deed[j]
  PROVE  /\ job[i] = Seen(i)
         /\ job' = [job EXCEPT ![i] = Seen(i)']
  BY DEF job, Seen

LEMMA JobStays == ASSUME UNCHANGED <<row, deed>> PROVE UNCHANGED job
  BY DEF job

\* INSERT is Submit.
LEMMA InsertRefines ==
  ASSUME TypeOK, ClaimProtocol, NEW i \in Ids, NextId(i), NEW a, NEW c,
         row' = [row EXCEPT ![i] = NewRow(a, c)], UNCHANGED deed
  PROVE  Queue!Submit(i)
<1>1. row[i].status = "absent"
  BY DEF NextId
<1>2. row'[i].status = "pending" /\ \A j \in Ids \ {i} : row'[j] = row[j]
  BY DEF TypeOK, TablesOK, NewRow
<1>3. job[i] = Seen(i) /\ job' = [job EXCEPT ![i] = Seen(i)']
  BY <1>2, JobChanges
<1>4. Seen(i)' = [Seen(i) EXCEPT !.status = "pending"]
  BY <1>2 DEF Seen
<1>5. job[i].status = "absent"
  BY <1>1, <1>3 DEF Seen
<1>6. QED
  BY <1>3, <1>4, <1>5 DEF Queue!Submit

\* The compare-and-swap is Claim, or nothing.
LEMMA ClaimRefines ==
  ASSUME TypeOK, NEW s \in Servers, Claim(s)
  PROVE  (\E i \in Ids : Queue!Claim(i)) \/ UNCHANGED job
<1>1. PICK i \in Ids : i = cmd[s]
  BY DEF Claim, TypeOK, ThreadOK
<1>2. UNCHANGED deed
  BY DEF Claim
<1>3. CASE row' = row
  BY <1>2, <1>3, JobStays
<1>4. CASE /\ row[i].status = "pending"
           /\ row' = [row EXCEPT ![i] = [@ EXCEPT !.status = "processing",
                                                  !.claimedBy = instance[s][tier[s]]]]
  <2>1. row[i] \in Row /\ row \in [Ids -> Row]
    BY DEF TypeOK, TablesOK
  <2>2. row'[i].status = "processing" /\ \A j \in Ids \ {i} : row'[j] = row[j]
    BY <1>4, <2>1 DEF Row
  <2>3. job[i] = Seen(i) /\ job' = [job EXCEPT ![i] = Seen(i)']
    BY <1>2, <2>2, JobChanges
  <2>4. Seen(i)' = [Seen(i) EXCEPT !.status = "processing"]
    BY <1>2, <2>2 DEF Seen
  <2>5. job[i].status = "pending"
    BY <1>4, <2>3 DEF Seen
  <2>6. QED
    BY <2>3, <2>4, <2>5 DEF Queue!Claim
<1>5. QED
  BY <1>1, <1>3, <1>4 DEF Claim

\* A row in the hands of a tick is processing.
LEMMA OwnedRow ==
  ASSUME TypeOK, ClaimProtocol, NEW s \in Servers, pc[s] \in Owning
  PROVE  cmd[s] \in Ids /\ row[cmd[s]].status = "processing"
<1>1. pc[s] \notin {"idle", "select"}
  BY DEF Owning
<1>2. QED
  BY <1>1 DEF TypeOK, ThreadOK, ClaimProtocol, OwnClaim

\* The game acts for a row nobody has acted for: that is Run.
LEMMA RunRefines ==
  ASSUME TypeOK, ClaimProtocol, NEW s \in Servers, pc[s] = "act", NEW e \in Effects,
         deed' = [deed EXCEPT ![cmd[s]] = [runs |-> @.runs + 1, effect |-> e]],
         UNCHANGED row
  PROVE  \E i \in Ids : Queue!Run(i)
<1>1. PICK i \in Ids : i = cmd[s] /\ row[i].status = "processing"
  BY OwnedRow DEF Owning
<1>2. deed[i].runs = 0
  BY <1>1 DEF ClaimProtocol, Progress, Did
<1>3. deed'[i].runs = 1 /\ deed'[i].effect = e /\ \A j \in Ids \ {i} : deed'[j] = deed[j]
  BY <1>1, <1>2 DEF TypeOK
<1>4. job[i] = Seen(i) /\ job' = [job EXCEPT ![i] = Seen(i)']
  BY <1>3, JobChanges
<1>5. Seen(i)' = [status |-> "processing", runs |-> 1, effect |-> e]
  BY <1>1, <1>3 DEF Seen
<1>6. job[i].status = "processing" /\ job[i].runs = 0
  BY <1>1, <1>2, <1>4 DEF Seen
<1>7. e \in Queue!Effects
  BY DEF Effects, Queue!Effects
<1>8. QED
  BY <1>4, <1>5, <1>6, <1>7 DEF Queue!Run

\* The stored row is read back and found equal: that is Confirm.
LEMMA ReadStoredRefines ==
  ASSUME TypeOK, ClaimProtocol, NEW s \in Servers, ReadStored(s)
  PROVE  (\E i \in Ids : Queue!Confirm(i)) \/ UNCHANGED job
<1>1. pc[s] = "readback" /\ UNCHANGED row
  BY DEF ReadStored
<1>2. PICK i \in Ids : i = cmd[s] /\ row[i].status = "processing"
  BY <1>1, OwnedRow DEF Owning
<1>3. deed[i].effect = "part"
  BY <1>1, <1>2 DEF ClaimProtocol, Progress, Did
<1>4. CASE UNCHANGED deed
  BY <1>1, <1>4, JobStays
<1>5. CASE deed' = [deed EXCEPT ![i] = [runs |-> @.runs, effect |-> "full"]]
  <2>1. /\ deed'[i].runs = deed[i].runs /\ deed'[i].effect = "full"
        /\ \A j \in Ids \ {i} : deed'[j] = deed[j]
    BY <1>5 DEF TypeOK
  <2>2. job[i] = Seen(i) /\ job' = [job EXCEPT ![i] = Seen(i)']
    BY <1>1, <2>1, JobChanges
  <2>3. Seen(i)' = [Seen(i) EXCEPT !.effect = "full"]
    BY <1>1, <2>1 DEF Seen
  <2>4. job[i].status = "processing" /\ job[i].effect = "part"
    BY <1>2, <1>3, <2>2 DEF Seen
  <2>5. QED
    BY <2>2, <2>3, <2>4 DEF Queue!Confirm
<1>6. QED
  BY <1>2, <1>4, <1>5 DEF ReadStored

\* L_Finish is Finish, or nothing when the UPDATE is lost.
LEMMA FinishRefines ==
  ASSUME TypeOK, ClaimProtocol, NEW s \in Servers, Finish(s)
  PROVE  (\E i \in Ids : Queue!Finish(i)) \/ UNCHANGED job
<1>1. pc[s] = "finish" /\ UNCHANGED deed
  BY DEF Finish
<1>2. PICK i \in Ids : i = cmd[s] /\ row[i].status = "processing"
  BY <1>1, OwnedRow DEF Owning
<1>3. err[s] = "" <=> deed[i].effect = "full"
  BY <1>1, <1>2 DEF ClaimProtocol, Progress
<1>4. CASE row' = row
  BY <1>1, <1>4, JobStays
<1>5. CASE row' = [row EXCEPT ![i] = [@ EXCEPT !.status = Outcome(err[s]), !.error = err[s]]]
  <2>1. row[i] \in Row /\ row \in [Ids -> Row]
    BY DEF TypeOK, TablesOK
  <2>2. row'[i].status = Outcome(err[s]) /\ \A j \in Ids \ {i} : row'[j] = row[j]
    BY <1>5, <2>1 DEF Row
  <2>3. job[i] = Seen(i) /\ job' = [job EXCEPT ![i] = Seen(i)']
    BY <1>1, <2>2, JobChanges
  <2>4. job[i].status = "processing" /\ job[i].effect = deed[i].effect
    BY <1>2, <2>3 DEF Seen
  <2>5. Seen(i)' = [Seen(i) EXCEPT !.status = Outcome(err[s])]
    BY <1>1, <2>2 DEF Seen
  <2>6. CASE err[s] = ""
    BY <1>3, <2>3, <2>4, <2>5, <2>6 DEF Outcome, Queue!Finish
  <2>7. CASE err[s] # ""
    BY <1>3, <2>3, <2>4, <2>5, <2>7 DEF Outcome, Queue!Finish
  <2>8. QED
    BY <2>6, <2>7
<1>6. QED
  BY <1>2, <1>4, <1>5 DEF Finish

LEMMA ServerRefines ==
  ASSUME TypeOK, ClaimProtocol, NEW s \in Servers, Server(s)
  PROVE  Queue!Next \/ UNCHANGED job
<1>1. CASE Claim(s)
  BY <1>1, ClaimRefines DEF Queue!Next, Queue!Step
<1>2. CASE ActTier1(s)
  <2>1. UNCHANGED row /\ pc[s] = "act"
    BY <1>2 DEF ActTier1
  <2>2. \/ UNCHANGED deed
        \/ \E e \in Effects :
              deed' = [deed EXCEPT ![cmd[s]] = [runs |-> @.runs + 1, effect |-> e]]
    BY <1>2 DEF ActTier1, Refuse
  <2>3. QED
    BY <2>1, <2>2, RunRefines, JobStays DEF Queue!Next, Queue!Step
<1>3. CASE ActTier2(s)
  <2>1. UNCHANGED row /\ pc[s] = "act" /\ "part" \in Effects
    BY <1>3 DEF ActTier2, Effects
  <2>2. \/ UNCHANGED deed
        \/ deed' = [deed EXCEPT ![cmd[s]] = [runs |-> @.runs + 1, effect |-> "part"]]
    BY <1>3 DEF ActTier2, Refuse
  <2>3. QED
    BY <2>1, <2>2, RunRefines, JobStays DEF Queue!Next, Queue!Step
<1>4. CASE ReadStored(s)
  BY <1>4, ReadStoredRefines DEF Queue!Next, Queue!Step
<1>5. CASE Finish(s)
  BY <1>5, FinishRefines DEF Queue!Next, Queue!Step
<1>6. CASE \/ \E t \in Tiers : StartTick(s, t)
           \/ Select(s) \/ ReadClaim(s) \/ Lookup(s) \/ RecordSync(s)
           \/ \E T \in SUBSET Scripts[s] \ {{}} : Load(s, T)
           \/ Crash(s)
  <2>1. UNCHANGED <<row, deed>>
    BY <1>6 DEF StartTick, Select, ReadClaim, Lookup, RecordSync, Load, Crash
  <2>2. QED
    BY <2>1, JobStays
<1>7. QED
  BY <1>1, <1>2, <1>3, <1>4, <1>5, <1>6 DEF Server, Continue

LEMMA ApiRefines ==
  ASSUME TypeOK, ClaimProtocol,
         \/ \E k \in Clients : Api(k)
         \/ \E a \in ForeignActions, c \in Chars : ForeignInsert(a, c)
  PROVE  Queue!Next \/ UNCHANGED job
<1>1. UNCHANGED deed
  BY DEF Api, Check, Enqueue, ReadBack, Poll, ForeignInsert
<1>2. \/ row' = row
      \/ \E i \in Ids : NextId(i) /\ \E a, c : row' = [row EXCEPT ![i] = NewRow(a, c)]
  BY DEF Api, Check, Enqueue, ReadBack, Poll, ForeignInsert
<1>3. QED
  BY <1>1, <1>2, InsertRefines, JobStays DEF Queue!Next, Queue!Step

\* Whatever statements fail and servers die, the overlay is a queue: every job is
\* submitted once, claimed once, run at most once, and finished once with the verdict
\* that its effect earned.
THEOREM OverlayImplementsQueue == Spec => ImplementsQueue
<1>1. TypeOK /\ ClaimProtocol /\ [Next]_vars => [Queue!Next]_job
  <2> SUFFICES ASSUME TypeOK, ClaimProtocol, [Next]_vars PROVE Queue!Next \/ UNCHANGED job
    OBVIOUS
  <2>1. CASE (\E c \in Registered : Player(c)) \/ (\E t \in Tiers : Age(t)) \/ UNCHANGED vars
    <3>1. UNCHANGED <<row, deed>>
      BY <2>1 DEF Player, Login, Logout, Age, vars
    <3>2. QED
      BY <3>1, JobStays
  <2>2. QED
    BY <2>1, ServerRefines, ApiRefines DEF Next
<1>2. QED
  BY InitRefines, TypeCorrect, ProtocolHolds, <1>1, PTL DEF Spec, ImplementsQueue, Queue!Spec
------------------------------------------------------------------------------
(***************************************************************************)
(* The guarantees that are not the claim protocol's own, and what they     *)
(* rest on.                                                                *)
(***************************************************************************)

\* Ids are given out in order and no row is ever deleted.
RowsInOrder == \A i, j \in Ids : j < i /\ row[i].status # "absent" => row[j].status # "absent"

\* Whoever writes a row writes an action.
ActionsKnown ==
    \A i \in Ids : row[i].status # "absent" => row[i].action \in ApiActions \cup ForeignActions

SameLane(i, j) == Claims("tier1", row[i].action) = Claims("tier1", row[j].action)

\* A row in `processing' is in the hands of the consumer whose instance it bears.
Carried ==
    \A i \in Ids : row[i].status = "processing" =>
       \/ faults > 0 \/ crashes > 0
       \/ \E s \in Servers : Working(s, i) /\ Stamped(s)

\* What a tick knows of its row: that no older one of its lane still waits, which script
\* it belongs to, and what its verdict will stand on.
Errand(s) ==
    /\ pc[s] = "claim" => \A j \in Ids : j < cmd[s] /\ SameLane(j, cmd[s])
                                           => row[j].status # "pending"
    /\ pc[s] \in {"readback", "record"} => tier[s] = "tier2"
    /\ pc[s] = "finish" /\ err[s] = "" /\ row[cmd[s]].action = "sync_character" =>
          row[cmd[s]].char \in synced \/ faults > 0
    /\ pc[s] = "finish" /\ err[s] = "unknown action" => row[cmd[s]].action \in ForeignActions

\* A consumer of action a has been heard from.
HeardOf(a) == \E t \in Tiers : heartbeat[t] # "none" /\ Claims(t, a)

\* What a caller has asked, and what it was told of it.
Caller(k) ==
    /\ client[k].pc \in {"idle", "checked"} => client[k].id = 0
    /\ client[k].pc # "idle" => client[k].action \in AskedActions
    /\ client[k].pc = "checked" \/ client[k].id # 0 => HeardOf(client[k].action)
    /\ client[k].id = 0 => client[k].seen = "absent"
    /\ client[k].id # 0 => row[client[k].id].status # "absent"

Guarantees ==
    /\ RowsInOrder /\ ActionsKnown /\ Carried
    /\ \A s \in Servers : Errand(s)
    /\ \A k \in Clients : Caller(k)
    /\ NoOvertaking /\ SplitIsTotal /\ SyncsAreObserved /\ RepliesStand

\* What the steps of the system do to the table: nothing, or one of three things.
Inserts(i) ==
    /\ row[i].status = "absent" /\ \A j \in Ids : j < i => row[j].status # "absent"
    /\ row'[i].status = "pending" /\ row'[i].error = ""
    /\ row'[i].action \in ApiActions \cup ForeignActions
    /\ \A j \in Ids \ {i} : row'[j] = row[j]

Kept(i) == row'[i].action = row[i].action /\ row'[i].char = row[i].char

Claimed(s) ==
    /\ pc[s] = "claim" /\ cmd[s] \in Ids
    /\ row[cmd[s]].status = "pending" /\ row'[cmd[s]].status = "processing"
    /\ row'[cmd[s]].claimedBy = instance[s][tier[s]]
    /\ row'[cmd[s]].error = row[cmd[s]].error /\ Kept(cmd[s])
    /\ pc'[s] = "readclaim" /\ UNCHANGED <<tier, cmd, instance>>
    /\ \A j \in Ids \ {cmd[s]} : row'[j] = row[j]

Finished(s) ==
    /\ pc[s] = "finish" /\ cmd[s] \in Ids
    /\ row[cmd[s]].status = "processing" /\ row'[cmd[s]].status = Outcome(err[s])
    /\ row'[cmd[s]].error = err[s] /\ Kept(cmd[s])
    /\ \A j \in Ids \ {cmd[s]} : row'[j] = row[j]

LEMMA WriteInserts ==
  ASSUME TypeOK, NEW i \in Ids, NextId(i), NEW a \in ApiActions \cup ForeignActions, NEW c,
         row' = [row EXCEPT ![i] = NewRow(a, c)]
  PROVE  Inserts(i)
<1>1. row'[i] = NewRow(a, c) /\ \A j \in Ids \ {i} : row'[j] = row[j]
  BY DEF TypeOK, TablesOK
<1>2. NewRow(a, c).status = "pending" /\ NewRow(a, c).error = "" /\ NewRow(a, c).action = a
  BY DEF NewRow
<1>3. QED
  BY <1>1, <1>2 DEF Inserts, NextId

LEMMA EnqueueInserts ==
  ASSUME TypeOK, NEW k \in Clients, Caller(k), Enqueue(k)
  PROVE  UNCHANGED row \/ \E i \in Ids : Inserts(i)
<1>1. PICK i \in Ids :
        /\ NextId(i)
        /\ \/ row' = row
           \/ row' = [row EXCEPT ![i] = NewRow(client[k].action, client[k].char)]
  BY DEF Enqueue
<1>2. client[k].action \in ApiActions
  BY DEF Enqueue, Caller
<1>3. QED
  BY <1>1, <1>2, WriteInserts

LEMMA ForeignInserts ==
  ASSUME TypeOK, NEW a \in ForeignActions, NEW c \in Chars, ForeignInsert(a, c)
  PROVE  \E i \in Ids : Inserts(i)
  BY WriteInserts DEF ForeignInsert

LEMMA ClaimClaims ==
  ASSUME TypeOK, NEW s \in Servers, Claim(s)
  PROVE  UNCHANGED row \/ Claimed(s)
<1>1. cmd[s] \in Ids /\ row \in [Ids -> Row] /\ row[cmd[s]] \in Row /\ pc \in [Servers -> Positions]
  BY DEF Claim, TypeOK, ThreadOK, TablesOK
<1>2. pc[s] = "claim" /\ pc'[s] = "readclaim" /\ UNCHANGED <<tier, cmd, instance>>
  BY <1>1 DEF Claim, Proceed, Goto
<1>3. ASSUME row[cmd[s]].status = "pending",
             row' = [row EXCEPT ![cmd[s]] = [@ EXCEPT !.status = "processing",
                                               !.claimedBy = instance[s][tier[s]]]]
      PROVE  Claimed(s)
  <2>1. \A j \in Ids \ {cmd[s]} : row'[j] = row[j]
    BY <1>1, <1>3
  <2>2. /\ row'[cmd[s]].status = "processing" /\ row'[cmd[s]].claimedBy = instance[s][tier[s]]
        /\ row'[cmd[s]].error = row[cmd[s]].error /\ Kept(cmd[s])
    BY <1>1, <1>3 DEF Row, Kept
  <2>3. QED
    BY <1>1, <1>2, <1>3, <2>1, <2>2 DEF Claimed
<1>4. QED
  BY <1>3 DEF Claim

LEMMA FinishFinishes ==
  ASSUME TypeOK, ClaimProtocol, NEW s \in Servers, Finish(s)
  PROVE  (UNCHANGED row /\ faults' > 0) \/ Finished(s)
<1>1. /\ cmd[s] \in Ids /\ row \in [Ids -> Row] /\ row[cmd[s]] \in Row /\ pc[s] = "finish"
      /\ faults \in Nat
  BY DEF Finish, TypeOK, ThreadOK, TablesOK
<1>2. row[cmd[s]].status = "processing"
  BY <1>1, OwnedRow DEF Owning
<1>3. ASSUME row' = [row EXCEPT ![cmd[s]] = [@ EXCEPT !.status = Outcome(err[s]),
                                                      !.error = err[s]]]
      PROVE  Finished(s)
  <2>1. \A j \in Ids \ {cmd[s]} : row'[j] = row[j]
    BY <1>1, <1>3
  <2>2. /\ row'[cmd[s]].status = Outcome(err[s])
        /\ row'[cmd[s]].error = err[s] /\ Kept(cmd[s])
    BY <1>1, <1>3 DEF Row, Kept
  <2>3. QED
    BY <1>1, <1>2, <2>1, <2>2 DEF Finished
<1>4. QED
  BY <1>1, <1>3 DEF Finish, Query

LEMMA RowSteps ==
  ASSUME TypeOK, ClaimProtocol, \A k \in Clients : Caller(k), [Next]_vars
  PROVE  \/ UNCHANGED row
         \/ \E i \in Ids : Inserts(i)
         \/ \E s \in Servers : Claimed(s) \/ Finished(s)
<1>1. CASE \E k \in Clients : Api(k)
  BY <1>1, EnqueueInserts DEF Api, Check, ReadBack, Poll
<1>2. CASE \E a \in ForeignActions, c \in Chars : ForeignInsert(a, c)
  BY <1>2, ForeignInserts
<1>3. CASE \E s \in Servers : Server(s)
  <2>1. ASSUME NEW s \in Servers, Server(s) PROVE row' = row \/ Claim(s) \/ Finish(s)
    BY <2>1 DEF Server, Continue, StartTick, Select, ReadClaim, Lookup, ActTier1, ActTier2,
                ReadStored, RecordSync, Load, Crash
  <2>2. QED
    BY <1>3, <2>1, ClaimClaims, FinishFinishes
<1>4. CASE (\E c \in Registered : Player(c)) \/ (\E t \in Tiers : Age(t)) \/ UNCHANGED vars
  BY <1>4 DEF Player, Login, Logout, Age, vars
<1>5. QED
  BY <1>1, <1>2, <1>3, <1>4 DEF Next

\* What the steps of the system do to a tick: nothing, or one of four things.
Unmoved(o) ==
    pc'[o] = pc[o] /\ cmd'[o] = cmd[o] /\ tier'[o] = tier[o] /\ err'[o] = err[o]

Selected(o) ==
    /\ pc'[o] = "claim" /\ cmd'[o] \in Ids /\ tier'[o] \in Tiers
    /\ Oldest(tier'[o], cmd'[o]) /\ UNCHANGED row

WentOn(o) ==
    /\ cmd'[o] = cmd[o] /\ tier'[o] = tier[o] /\ cmd[o] \in Ids
    /\ \/ pc'[o] \in {"readclaim", "lookup", "act"}
       \/ pc'[o] = "readback" /\ tier[o] = "tier2"
       \/ pc'[o] = "record" /\ pc[o] = "readback"

Ended(o) ==
    /\ cmd'[o] = cmd[o] /\ tier'[o] = tier[o] /\ cmd[o] \in Ids
    /\ pc'[o] = "finish" /\ pc[o] \notin {"idle", "select"} /\ UNCHANGED row
    /\ \/ err'[o] \notin {"", "unknown action"}
       \/ tier[o] = "tier1" /\ err'[o] = ""
       \/ /\ tier[o] = "tier1" /\ err'[o] = "unknown action"
          /\ row[cmd[o]].action \notin {"give_item", "adjust_zeny"}
       \/ /\ err'[o] = "" /\ pc[o] = "record"
          /\ row[cmd[o]].char \in synced' \/ faults' > 0

Moves(o) ==
    Unmoved(o) \/ pc'[o] \in {"idle", "select"} \/ Selected(o) \/ WentOn(o) \/ Ended(o)

LEMMA OthersUnmoved ==
  ASSUME ThreadOK, NEW s \in Servers, NEW p, NEW e, NEW o \in Servers \ {s},
         Reschedule(s) \/ Proceed(s, p) \/ Fail(s, e)
  PROVE  Unmoved(o)
  BY OthersWait DEF Unmoved

LEMMA ActMoves ==
  ASSUME TypeOK, ClaimProtocol, NEW s \in Servers, ActTier1(s) \/ ActTier2(s)
  PROVE  Moves(s)
<1>1. pc[s] = "act" /\ cmd[s] \in Ids /\ err[s] = "" /\ UNCHANGED row
  BY DEF ActTier1, ActTier2, TypeOK, ThreadOK, ClaimProtocol, Progress
<1>2. ASSUME NEW e, Fail(s, e)
      PROVE  pc'[s] = "finish" /\ err'[s] = e /\ cmd'[s] = cmd[s] /\ tier'[s] = tier[s]
  BY <1>2 DEF Fail, Goto, TypeOK, ThreadOK
<1>3. CASE ActTier1(s)
  <2>1. tier[s] = "tier1"
    BY <1>3 DEF ActTier1
  <2>2. \/ \E e \in {"not online", "could not attach", "not applied", ""} : Fail(s, e)
        \/ /\ Fail(s, "unknown action")
           /\ row[cmd[s]].action \notin {"give_item", "adjust_zeny"}
    BY <1>3 DEF ActTier1, Refuse, Verdict, Action
  <2>3. QED
    BY <1>1, <1>2, <2>1, <2>2 DEF Moves, Ended
<1>4. CASE ActTier2(s)
  <2>1. tier[s] = "tier2"
    BY <1>4 DEF ActTier2
  <2>2. \/ \E e \in {"not online", "could not attach", "sync hook could not flush"} : Fail(s, e)
        \/ Proceed(s, "readback")
    BY <1>4 DEF ActTier2, Refuse, HookFails
  <2>3. CASE \E e \in {"not online", "could not attach", "sync hook could not flush"} : Fail(s, e)
    BY <1>1, <1>2, <2>3 DEF Moves, Ended
  <2>4. CASE Proceed(s, "readback")
    BY <1>1, <2>1, <2>4 DEF Proceed, Goto, TypeOK, ThreadOK, Moves, WentOn
  <2>5. QED
    BY <2>2, <2>3, <2>4
<1>5. QED
  BY <1>3, <1>4

LEMMA ContinueMoves ==
  ASSUME TypeOK, ClaimProtocol, NEW s \in Servers, Continue(s)
  PROVE  Moves(s)
<1>1. CASE Reschedule(s)
  BY <1>1 DEF Reschedule, Goto, TypeOK, ThreadOK, Moves
<1>2. ASSUME NEW p, Proceed(s, p)
      PROVE  pc'[s] = p /\ cmd'[s] = cmd[s] /\ tier'[s] = tier[s] /\ err'[s] = err[s]
  BY <1>2 DEF Proceed, Goto, TypeOK, ThreadOK
<1>3. ASSUME NEW e, Fail(s, e)
      PROVE  pc'[s] = "finish" /\ cmd'[s] = cmd[s] /\ tier'[s] = tier[s] /\ err'[s] = e
  BY <1>3 DEF Fail, Goto, TypeOK, ThreadOK
<1>4. pc[s] \notin {"idle", "select"} => cmd[s] \in Ids
  BY DEF TypeOK, ThreadOK
<1>5. CASE Select(s)
  <2>1. CASE \E i \in Ids : /\ Oldest(tier[s], i) /\ Goto(s, "claim")
                            /\ cmd' = [cmd EXCEPT ![s] = i] /\ UNCHANGED <<tier, err>>
    <3>1. tier[s] \in Tiers
      BY <1>5 DEF Select, TypeOK, ThreadOK
    <3>2. QED
      BY <1>5, <2>1, <3>1 DEF Select, Goto, TypeOK, ThreadOK, Moves, Selected
  <2>2. QED
    BY <1>1, <1>5, <2>1 DEF Select
<1>6. CASE Claim(s)
  BY <1>2, <1>4, <1>6 DEF Claim, Moves, WentOn
<1>7. CASE ReadClaim(s)
  BY <1>1, <1>2, <1>4, <1>7 DEF ReadClaim, Moves, WentOn
<1>8. CASE Lookup(s)
  <2>1. Proceed(s, "act") \/ Fail(s, "no such character")
    BY <1>8 DEF Lookup
  <2>2. pc[s] = "lookup" /\ UNCHANGED row
    BY <1>8 DEF Lookup
  <2>3. CASE Proceed(s, "act")
    BY <1>2, <1>4, <2>2, <2>3 DEF Moves, WentOn
  <2>4. CASE Fail(s, "no such character")
    <3>1. /\ pc'[s] = "finish" /\ cmd'[s] = cmd[s] /\ tier'[s] = tier[s]
          /\ err'[s] = "no such character"
      BY <1>3, <2>4
    <3>2. QED
      BY <1>4, <2>2, <3>1 DEF Moves, Ended
  <2>5. QED
    BY <2>1, <2>3, <2>4
<1>9. CASE ActTier1(s) \/ ActTier2(s)
  BY <1>9, ActMoves
<1>10. CASE ReadStored(s)
  <2>1. Proceed(s, "record") \/ Fail(s, "not yet persisted")
    BY <1>10 DEF ReadStored
  <2>2. pc[s] = "readback" /\ UNCHANGED row
    BY <1>10 DEF ReadStored
  <2>3. CASE Proceed(s, "record")
    BY <1>2, <1>4, <2>2, <2>3 DEF Moves, WentOn
  <2>4. CASE Fail(s, "not yet persisted")
    <3>1. /\ pc'[s] = "finish" /\ cmd'[s] = cmd[s] /\ tier'[s] = tier[s]
          /\ err'[s] = "not yet persisted"
      BY <1>3, <2>4
    <3>2. QED
      BY <1>4, <2>2, <3>1 DEF Moves, Ended
  <2>5. QED
    BY <2>1, <2>3, <2>4
<1>11. CASE RecordSync(s)
  <2>1. err[s] = "" /\ pc[s] = "record" /\ Proceed(s, "finish") /\ UNCHANGED row
    BY <1>11 DEF RecordSync, ClaimProtocol, Progress
  <2>2. row[cmd[s]].char \in synced' \/ faults' > 0
    BY <1>11 DEF RecordSync, Query, Character, TypeOK
  <2>3. QED
    BY <1>2, <1>4, <2>1, <2>2 DEF Moves, Ended
<1>12. CASE Finish(s)
  BY <1>1, <1>12 DEF Finish
<1>13. QED
  BY <1>5, <1>6, <1>7, <1>8, <1>9, <1>10, <1>11, <1>12 DEF Continue

\* One server at a time moves.
LEMMA ServerUnmoved ==
  ASSUME TypeOK, NEW s \in Servers, Server(s), NEW o \in Servers \ {s}
  PROVE  Unmoved(o)
<1>1. CASE \E t \in Tiers : StartTick(s, t)
  BY <1>1 DEF StartTick, Goto, TypeOK, ThreadOK, Unmoved
<1>2. CASE Select(s)
  <2>1. CASE Reschedule(s)
    BY <2>1, OthersUnmoved DEF TypeOK
  <2>2. CASE \E i \in Ids : /\ Goto(s, "claim")
                            /\ cmd' = [cmd EXCEPT ![s] = i] /\ UNCHANGED <<tier, err>>
    BY <2>2 DEF Goto, TypeOK, ThreadOK, Unmoved
  <2>3. QED
    BY <1>2, <2>1, <2>2 DEF Select
<1>3. CASE Continue(s) /\ ~Select(s)
  <2>1. Reschedule(s) \/ \E p, e : Proceed(s, p) \/ Fail(s, e)
    BY <1>3 DEF Continue, Claim, ReadClaim, Lookup, ActTier1, ActTier2, Refuse, HookFails,
                ReadStored, RecordSync, Finish
  <2>2. QED
    BY <2>1, OthersUnmoved DEF TypeOK
<1>4. CASE \E T \in SUBSET Scripts[s] \ {{}} : Load(s, T)
  BY <1>4 DEF Load, Unmoved
<1>5. CASE Crash(s)
  BY <1>5, OthersUnmoved DEF Crash, TypeOK
<1>6. QED
  BY <1>1, <1>2, <1>3, <1>4, <1>5 DEF Server

LEMMA TickSteps ==
  ASSUME TypeOK, ClaimProtocol, [Next]_vars, NEW o \in Servers
  PROVE  Moves(o)
<1>1. CASE UNCHANGED thread
  BY <1>1 DEF Moves, Unmoved
<1>2. ASSUME NEW s \in Servers, Server(s) PROVE Moves(o)
  <2>1. CASE o # s
    BY <1>2, <2>1, ServerUnmoved DEF Moves
  <2>2. CASE o = s
    <3>1. CASE \E t \in Tiers : StartTick(s, t)
      BY <2>2, <3>1 DEF StartTick, Goto, TypeOK, ThreadOK, Moves
    <3>2. CASE \E T \in SUBSET Scripts[s] \ {{}} : Load(s, T)
      BY <1>1, <3>2 DEF Load
    <3>3. CASE Crash(s)
      BY <2>2, <3>3 DEF Crash, Reschedule, Goto, TypeOK, ThreadOK, Moves
    <3>4. QED
      BY <1>2, <2>2, <3>1, <3>2, <3>3, ContinueMoves DEF Server
  <2>3. QED
    BY <2>1, <2>2
<1>3. CASE ~\E s \in Servers : Server(s)
  <2>1. UNCHANGED thread
    BY <1>3 DEF Next, Api, Check, Enqueue, ReadBack, Poll, ForeignInsert, Player, Login, Logout,
                Age, vars
  <2>2. QED
    BY <1>1, <2>1
<1>4. QED
  BY <1>2, <1>3

RowStep ==
    \/ UNCHANGED row
    \/ \E i \in Ids : Inserts(i)
    \/ \E s \in Servers : Claimed(s) \/ Finished(s)

\* A row that is there keeps what it asks for, and never goes back.
LEMMA RowsGrow ==
  ASSUME RowStep, NEW i \in Ids, row[i].status # "absent"
  PROVE  /\ Kept(i) /\ row'[i].status # "absent"
         /\ row[i].status # "pending" => row'[i].status # "pending"
         /\ row[i].status \in Terminal => row'[i].status = row[i].status
<1>1. CASE UNCHANGED row
  BY <1>1 DEF Kept
<1>2. ASSUME NEW n \in Ids, Inserts(n) PROVE n # i /\ row'[i] = row[i]
  BY <1>2 DEF Inserts
<1>3. ASSUME NEW s \in Servers, Claimed(s), cmd[s] # i PROVE row'[i] = row[i]
  BY <1>3 DEF Claimed
<1>4. ASSUME NEW s \in Servers, Finished(s), cmd[s] # i PROVE row'[i] = row[i]
  BY <1>4 DEF Finished
<1>5. ASSUME NEW s \in Servers, Claimed(s), cmd[s] = i
      PROVE  Kept(i) /\ row'[i].status = "processing" /\ row[i].status = "pending"
  BY <1>5 DEF Claimed
<1>6. ASSUME NEW s \in Servers, Finished(s), cmd[s] = i
      PROVE  Kept(i) /\ row'[i].status \in Terminal /\ row[i].status = "processing"
  BY <1>6 DEF Finished, Outcome, Terminal
<1>7. QED
  BY <1>1, <1>2, <1>3, <1>4, <1>5, <1>6 DEF RowStep, Kept, Terminal

LEMMA OrderStep ==
  ASSUME RowStep, RowsInOrder, ActionsKnown
  PROVE  RowsInOrder' /\ ActionsKnown'
<1>1. ASSUME NEW i \in Ids, row[i].status = "absent", row'[i].status # "absent"
      PROVE  Inserts(i)
  BY <1>1 DEF RowStep, Inserts, Claimed, Finished
<1>2. RowsInOrder'
  <2> SUFFICES ASSUME NEW i \in Ids, NEW j \in Ids, j < i, row'[i].status # "absent"
               PROVE  row'[j].status # "absent"
    BY DEF RowsInOrder
  <2>1. row[j].status # "absent"
    BY <1>1 DEF RowsInOrder, Inserts
  <2>2. QED
    BY <2>1, RowsGrow
<1>3. ActionsKnown'
  <2> SUFFICES ASSUME NEW i \in Ids, row'[i].status # "absent"
               PROVE  row'[i].action \in ApiActions \cup ForeignActions
    BY DEF ActionsKnown
  <2>1. CASE row[i].status = "absent"
    BY <1>1, <2>1 DEF Inserts
  <2>2. CASE row[i].status # "absent"
    BY <2>2, RowsGrow DEF ActionsKnown, Kept
  <2>3. QED
    BY <2>1, <2>2
<1>4. QED
  BY <1>2, <1>3

\* Rows that are there stay in their lanes.
LEMMA LanesStay ==
  ASSUME RowStep, NEW i \in Ids, NEW j \in Ids,
         row[i].status # "absent", row[j].status # "absent"
  PROVE  SameLane(i, j)' <=> SameLane(i, j)
  BY RowsGrow DEF SameLane, Kept

LEMMA OvertakingStep ==
  ASSUME RowStep, RowsInOrder, \A s \in Servers : Errand(s), NoOvertaking, TypeOK
  PROVE  NoOvertaking'
<1> SUFFICES ASSUME NEW i \in Ids, NEW j \in Ids, i < j, row'[i].status = "pending",
                    SameLane(i, j)'
             PROVE  row'[j].status \in {"absent", "pending"}
  BY DEF NoOvertaking, SameLane
<1>1. CASE row[j].status = "absent"
  BY <1>1 DEF RowStep, Inserts, Claimed, Finished
<1>2. CASE row[j].status # "absent"
  <2>1. row[i].status # "absent"
    BY <1>2 DEF RowsInOrder
  <2>2. row[i].status = "pending" /\ SameLane(i, j)
    BY <1>2, <2>1, RowsGrow, LanesStay
  <2>3. row[j].status = "pending"
    BY <1>2, <2>2 DEF NoOvertaking, SameLane
  <2>4. ASSUME NEW s \in Servers, Claimed(s) PROVE cmd[s] # j
    BY <2>2, <2>4 DEF Claimed, Errand
  <2>5. QED
    BY <2>3, <2>4 DEF RowStep, Inserts, Claimed, Finished
<1>3. QED
  BY <1>1, <1>2

\* The two halves of the table: Tier 2's action and all others.
LEMMA LaneIsTier ==
  ASSUME NEW i \in Ids, NEW j \in Ids, NEW t \in Tiers, Claims(t, row[j].action),
         SameLane(i, j)
  PROVE  Claims(t, row[i].action)
  BY DEF SameLane, Claims, Tiers

LEMMA ErrandStep ==
  ASSUME TypeOK, ClaimProtocol, RowStep, RowsInOrder, ActionsKnown,
         synced \subseteq synced', faults' >= faults, faults' \in Nat,
         NEW o \in Servers, Errand(o), Moves(o)
  PROVE  Errand(o)'
<1>1. CASE pc'[o] \in {"idle", "select"}
  BY <1>1 DEF Errand
<1>2. CASE Unmoved(o)
  <2>1. CASE pc[o] \in {"idle", "select"}
    BY <1>2, <2>1 DEF Unmoved, Errand
  <2>2. CASE pc[o] \notin {"idle", "select"}
    <3>1. cmd[o] \in Ids /\ row[cmd[o]].status # "absent"
      BY <2>2 DEF TypeOK, ThreadOK, ClaimProtocol, TickHasRow
    <3>2. PICK n \in Ids : n = cmd[o] /\ n = cmd'[o] /\ row[n].status # "absent"
      BY <1>2, <3>1 DEF Unmoved
    <3>3. row'[n].action = row[n].action /\ row'[n].char = row[n].char
      BY <3>2, RowsGrow DEF Kept
    <3>4. pc[o] = "claim" => \A j \in Ids : j < n /\ SameLane(j, n)' => row'[j].status # "pending"
      <4> SUFFICES ASSUME pc[o] = "claim", NEW j \in Ids, j < n, SameLane(j, n)'
                   PROVE  row'[j].status # "pending"
        OBVIOUS
      <4>1. row[j].status # "absent"
        BY <3>2 DEF RowsInOrder
      <4>2. SameLane(j, n)
        BY <3>2, <4>1, LanesStay
      <4>3. row[j].status # "pending"
        BY <3>2, <4>2 DEF Errand
      <4>4. QED
        BY <4>1, <4>3, RowsGrow
    <3>5. pc'[o] = pc[o] /\ tier'[o] = tier[o] /\ err'[o] = err[o]
      BY <1>2 DEF Unmoved
    <3>6. pc'[o] = "claim" => \A j \in Ids : j < cmd'[o] /\ SameLane(j, cmd[o])'
                                             => row'[j].status # "pending"
      BY <3>2, <3>4, <3>5
    <3>7. pc'[o] \in {"readback", "record"} => tier'[o] = "tier2"
      BY <3>5 DEF Errand
    <3>8. pc'[o] = "finish" /\ err'[o] = "" /\ row'[n].action = "sync_character" =>
            row'[n].char \in synced' \/ faults' > 0
      <4>1. faults > 0 => faults' > 0
        BY DEF TypeOK
      <4>2. QED
        BY <3>2, <3>3, <3>5, <4>1 DEF Errand
    <3>9. pc'[o] = "finish" /\ err'[o] = "unknown action" => row'[n].action \in ForeignActions
      BY <3>2, <3>3, <3>5 DEF Errand
    <3>10. QED
      BY <3>2, <3>6, <3>7, <3>8, <3>9 DEF Errand
  <2>3. QED
    BY <2>1, <2>2
<1>3. CASE Selected(o)
  <2>1. ASSUME NEW j \in Ids, j < cmd'[o], SameLane(j, cmd'[o]) PROVE row[j].status # "pending"
    BY <1>3, <2>1, LaneIsTier DEF Selected, Oldest
  <2>2. QED
    BY <1>3, <2>1 DEF Selected, Errand, SameLane
<1>4. CASE WentOn(o)
  BY <1>4 DEF WentOn, Errand
<1>5. CASE Ended(o)
  <2>1. row[cmd[o]].status # "absent" /\ Claims(tier[o], row[cmd[o]].action)
    BY <1>5 DEF Ended, ClaimProtocol, TickHasRow
  <2>2. row[cmd[o]].action \in ApiActions \cup ForeignActions
    BY <1>5, <2>1 DEF Ended, ActionsKnown
  <2>3. tier[o] = "tier1" => row[cmd[o]].action # "sync_character"
    BY <2>1 DEF Claims
  <2>4. QED
    BY <1>5, <2>2, <2>3 DEF Ended, Errand, ApiActions
<1>6. QED
  BY <1>1, <1>2, <1>3, <1>4, <1>5 DEF Moves

\* Statements that fail are only ever counted up, and nothing forgets a sync.
LEMMA CountsGrow ==
  ASSUME TypeOK, [Next]_vars
  PROVE  /\ faults' >= faults /\ faults' \in Nat
         /\ crashes' >= crashes /\ crashes' \in Nat
<1> USE DEF Query
<1>0. faults \in Nat /\ crashes \in Nat
  BY DEF TypeOK, WorldOK
<1>1. ASSUME NEW k \in Clients, Api(k) PROVE faults' \in {faults, faults + 1} /\ crashes' = crashes
  BY <1>1 DEF Api, Check, Enqueue, ReadBack, Poll
<1>2. ASSUME NEW s \in Servers, Continue(s)
      PROVE  faults' \in {faults, faults + 1} /\ crashes' = crashes
  BY <1>2 DEF Continue, Select, Claim, ReadClaim, Lookup, ActTier1, ActTier2, ReadStored,
              RecordSync, Finish
<1>3. ASSUME NEW s \in Servers, Server(s), ~Continue(s)
      PROVE  faults' \in {faults, faults + 1} /\ crashes' \in {crashes, crashes + 1}
  BY <1>3 DEF Server, StartTick, Load, Crash
<1>4. CASE \/ \E a \in ForeignActions, c \in Chars : ForeignInsert(a, c)
           \/ \E c \in Registered : Player(c)
           \/ \E t \in Tiers : Age(t)
           \/ UNCHANGED vars
  BY <1>0, <1>4 DEF ForeignInsert, Player, Login, Logout, Age, vars
<1>5. QED
  BY <1>0, <1>1, <1>2, <1>3, <1>4 DEF Next

\* The game's part is never undone, and a row that is there is its only place.
LEMMA FullStays ==
  ASSUME TypeOK, ClaimProtocol, [Next]_vars, NEW i \in Ids, deed[i].effect = "full"
  PROVE  deed'[i].effect = "full" /\ row[i].status # "absent"
<1>1. row[i].status # "absent"
  BY DEF ClaimProtocol, Untouched, Did
<1>2. ASSUME NEW s \in Servers, ActTier1(s) \/ ActTier2(s) PROVE deed'[i] = deed[i]
  <2>1. pc[s] = "act" /\ cmd[s] \in Ids
    BY <1>2 DEF ActTier1, ActTier2, TypeOK, ThreadOK
  <2>2. cmd[s] # i
    BY <2>1 DEF ClaimProtocol, Progress, Did
  <2>3. QED
    BY <1>2, <2>2 DEF ActTier1, ActTier2, Refuse, TypeOK
<1>3. ASSUME NEW s \in Servers, ReadStored(s) PROVE deed'[i].effect = "full"
  <2>1. cmd[s] \in Ids
    BY <1>3 DEF ReadStored, TypeOK, ThreadOK
  <2>2. CASE UNCHANGED deed
    BY <2>2
  <2>3. CASE deed' = [deed EXCEPT ![cmd[s]] = [runs |-> @.runs, effect |-> "full"]]
    <3>1. cmd[s] # i => deed'[i] = deed[i]
      BY <2>1, <2>3 DEF TypeOK
    <3>2. cmd[s] = i => deed'[i] = [runs |-> deed[i].runs, effect |-> "full"]
      BY <2>1, <2>3 DEF TypeOK
    <3>3. QED
      BY <3>1, <3>2
  <2>4. QED
    BY <1>3, <2>2, <2>3 DEF ReadStored
<1>4. ASSUME NEW s \in Servers, Server(s)
      PROVE  ActTier1(s) \/ ActTier2(s) \/ ReadStored(s) \/ UNCHANGED deed
  BY <1>4 DEF Server, Continue, StartTick, Select, Claim, ReadClaim, Lookup, RecordSync, Finish,
              Load, Crash
<1>5. ~(\E s \in Servers : Server(s)) => UNCHANGED deed
  BY DEF Next, Api, Check, Enqueue, ReadBack, Poll, ForeignInsert, Player, Login, Logout, Age, vars
<1>6. QED
  BY <1>1, <1>2, <1>3, <1>4, <1>5

LEMMA SyncedSteps ==
  ASSUME [Next]_vars
  PROVE  \/ UNCHANGED synced
         \/ \E s \in Servers : /\ pc[s] = "record" /\ synced' = synced \cup {Character(s)}
                               /\ UNCHANGED <<row, deed>>
<1>1. ASSUME NEW s \in Servers, RecordSync(s)
      PROVE  \/ UNCHANGED synced
             \/ /\ pc[s] = "record" /\ synced' = synced \cup {Character(s)}
                /\ UNCHANGED <<row, deed>>
  BY <1>1 DEF RecordSync
<1>2. ASSUME NEW s \in Servers, Server(s) PROVE RecordSync(s) \/ UNCHANGED synced
  BY <1>2 DEF Server, Continue, StartTick, Select, Claim, ReadClaim, Lookup, ActTier1, ActTier2,
              ReadStored, Finish, Load, Crash
<1>3. ~(\E s \in Servers : Server(s)) => UNCHANGED synced
  BY DEF Next, Api, Check, Enqueue, ReadBack, Poll, ForeignInsert, Player, Login, Logout, Age, vars
<1>4. QED
  BY <1>1, <1>2, <1>3

LEMMA SplitStep ==
  ASSUME RowStep, \A s \in Servers : Errand(s), SplitIsTotal, NEW i \in Ids,
         row'[i].error = "unknown action"
  PROVE  row'[i].action \in ForeignActions
<1>1. CASE row'[i] = row[i]
  BY <1>1 DEF SplitIsTotal
<1>2. CASE Inserts(i)
  BY <1>2 DEF Inserts
<1>3. ASSUME NEW s \in Servers, Claimed(s), cmd[s] = i PROVE row'[i].action \in ForeignActions
  BY <1>3 DEF Claimed, Kept, SplitIsTotal
<1>4. ASSUME NEW s \in Servers, Finished(s), cmd[s] = i PROVE row'[i].action \in ForeignActions
  BY <1>4 DEF Finished, Kept, Errand
<1>5. QED
  BY <1>1, <1>2, <1>3, <1>4 DEF RowStep, Inserts, Claimed, Finished

\* A tick that is about to record a sync has seen it persisted.
LEMMA RecordIsObserved ==
  ASSUME TypeOK, ClaimProtocol, NEW s \in Servers, Errand(s), pc[s] = "record"
  PROVE  \E i \in Ids : /\ row[i].char = Character(s) /\ row[i].action = "sync_character"
                        /\ deed[i].effect = "full"
<1>1. cmd[s] \in Ids /\ tier[s] = "tier2"
  BY DEF TypeOK, ThreadOK, Errand
<1>2. Claims(tier[s], row[cmd[s]].action) /\ deed[cmd[s]].effect = "full"
  BY DEF ClaimProtocol, TickHasRow, Progress, Did
<1>3. QED
  BY <1>1, <1>2 DEF Claims, Character

LEMMA SyncStep ==
  ASSUME TypeOK, ClaimProtocol, [Next]_vars, RowStep, SyncsAreObserved,
         \A s \in Servers : Errand(s)
  PROVE  SyncsAreObserved' /\ synced \subseteq synced'
<1>1. synced \subseteq synced'
  BY SyncedSteps
<1>2. ASSUME NEW c \in synced
      PROVE  \E i \in Ids : /\ row'[i].char = c /\ row'[i].action = "sync_character"
                            /\ deed'[i].effect = "full"
  <2>1. PICK i \in Ids : row[i].char = c /\ row[i].action = "sync_character"
                         /\ deed[i].effect = "full"
    BY <1>2 DEF SyncsAreObserved
  <2>2. deed'[i].effect = "full" /\ Kept(i)
    BY <2>1, FullStays, RowsGrow
  <2>3. QED
    BY <2>1, <2>2 DEF Kept
<1>3. ASSUME NEW c \in synced' \ synced
      PROVE  \E i \in Ids : /\ row'[i].char = c /\ row'[i].action = "sync_character"
                            /\ deed'[i].effect = "full"
  <2>1. PICK s \in Servers : pc[s] = "record" /\ c = Character(s) /\ UNCHANGED <<row, deed>>
    BY <1>3, SyncedSteps
  <2>2. QED
    BY <2>1, RecordIsObserved
<1>4. ASSUME NEW i \in Ids, row'[i].action = "sync_character", row'[i].status = "executed"
      PROVE  row'[i].char \in synced' \/ faults' > 0
  <2>1. faults > 0 => faults' > 0
    BY CountsGrow DEF TypeOK
  <2>2. CASE row'[i] = row[i]
    BY <1>1, <1>4, <2>1, <2>2 DEF SyncsAreObserved
  <2>3. CASE row'[i] # row[i]
    <3>1. PICK s \in Servers : Finished(s) /\ cmd[s] = i
      BY <1>4, <2>3 DEF RowStep, Inserts, Claimed, Finished
    <3>2. err[s] = "" /\ row[i].action = "sync_character" /\ row'[i].char = row[i].char
      BY <1>4, <3>1 DEF Finished, Outcome, Kept
    <3>3. row[i].char \in synced \/ faults > 0
      BY <3>1, <3>2 DEF Finished, Errand
    <3>4. QED
      BY <1>1, <2>1, <3>2, <3>3
  <2>4. QED
    BY <2>2, <2>3
<1>5. QED
  BY <1>1, <1>2, <1>3, <1>4 DEF SyncsAreObserved

\* The consumer that holds a row keeps it, brings it to its verdict, or is hindered.
LEMMA HandsOn ==
  ASSUME TypeOK, ClaimProtocol, [Next]_vars, NEW i \in Ids, NEW s \in Servers,
         Working(s, i), Stamped(s), row[i].status = "processing"
  PROVE  \/ Working(s, i)' /\ tier'[s] = tier[s] /\ instance'[s] = instance[s]
         \/ row'[i].status # "processing" \/ faults' > 0 \/ crashes' > 0
<1> DEFINE Keeps == Working(s, i)' /\ tier'[s] = tier[s] /\ instance'[s] = instance[s]
           Hindered == faults' > 0 \/ crashes' > 0
<1>1. /\ cmd[s] = i /\ pc[s] \notin {"idle", "select", "claim"}
      /\ pc[s] \in {"readclaim", "lookup", "act", "readback", "record", "finish"}
  BY DEF Working, Holds, Owning
<1>2. ASSUME NEW o \in Servers \ {s}, Server(o) PROVE Keeps
  <2>1. Unmoved(s)
    BY <1>2, ServerUnmoved
  <2>2. instance'[s] = instance[s]
    BY <1>2 DEF Server, Continue, StartTick, Select, Claim, ReadClaim, Lookup, ActTier1,
                ActTier2, ReadStored, RecordSync, Finish, Load, Crash, TypeOK, WorldOK
  <2>3. QED
    BY <2>1, <2>2 DEF Unmoved, Working, Holds
<1>3. ASSUME NEW p \in Owning, Proceed(s, p), UNCHANGED instance PROVE Keeps
  BY <1>1, <1>3 DEF Proceed, Goto, Working, Holds, TypeOK, ThreadOK
<1>4. ASSUME NEW e, Fail(s, e), UNCHANGED instance PROVE Keeps
  BY <1>1, <1>4 DEF Fail, Goto, Working, Holds, Owning, TypeOK, ThreadOK
<1>5. CASE Server(s)
  <2>1. ~(\E t \in Tiers : StartTick(s, t)) /\ ~Select(s) /\ ~Claim(s)
    BY <1>1 DEF StartTick, Select, Claim
  <2>2. ~(\E T \in SUBSET Scripts[s] \ {{}} : Load(s, T))
    BY <1>1 DEF Load
  <2>3. CASE Crash(s)
    BY <2>3 DEF Crash, TypeOK, WorldOK
  <2>4. CASE ReadClaim(s)
    <3>1. row[cmd[s]].claimedBy = instance[s][tier[s]]
      BY DEF Stamped
    <3>2. Proceed(s, "lookup") \/ faults' = faults + 1
      BY <2>4, <3>1 DEF ReadClaim, Query
    <3>3. UNCHANGED instance /\ "lookup" \in Owning
      BY <2>4 DEF ReadClaim, Owning
    <3>4. QED
      BY <1>3, <3>2, <3>3 DEF TypeOK
  <2>5. CASE Lookup(s) \/ ActTier1(s) \/ ActTier2(s) \/ ReadStored(s) \/ RecordSync(s)
    <3>1. UNCHANGED instance
      BY <2>5 DEF Lookup, ActTier1, ActTier2, ReadStored, RecordSync
    <3>2. (\E p \in Owning : Proceed(s, p)) \/ (\E e : Fail(s, e))
      BY <2>5 DEF Lookup, ActTier1, ActTier2, Refuse, HookFails, ReadStored, RecordSync, Owning
    <3>3. QED
      BY <1>3, <1>4, <3>1, <3>2
  <2>6. CASE Finish(s)
    <3>1. (UNCHANGED row /\ faults' > 0) \/ Finished(s)
      BY <2>6, FinishFinishes
    <3>2. QED
      BY <1>1, <3>1 DEF Finished, Outcome
  <2>7. QED
    BY <1>5, <2>1, <2>2, <2>3, <2>4, <2>5, <2>6 DEF Server, Continue
<1>6. CASE ~(\E o \in Servers : Server(o))
  <2>1. UNCHANGED <<pc, tier, cmd, instance>>
    BY <1>6 DEF Next, Api, Check, Enqueue, ReadBack, Poll, ForeignInsert, Player, Login, Logout,
                Age, vars
  <2>2. QED
    BY <2>1 DEF Working, Holds
<1>7. QED
  BY <1>2, <1>5, <1>6

LEMMA CarriedStep ==
  ASSUME TypeOK, ClaimProtocol, [Next]_vars, RowStep, Carried
  PROVE  Carried'
<1> SUFFICES ASSUME NEW i \in Ids, row'[i].status = "processing",
                    ~(faults' > 0), ~(crashes' > 0)
             PROVE  \E s \in Servers : Working(s, i)' /\ Stamped(s)'
  BY DEF Carried
<1>1. ~(faults > 0) /\ ~(crashes > 0)
  BY CountsGrow DEF TypeOK, WorldOK
<1>2. CASE row[i].status = "processing"
  <2>1. PICK s \in Servers : Working(s, i) /\ Stamped(s)
    BY <1>1, <1>2 DEF Carried
  <2>2. Working(s, i)' /\ tier'[s] = tier[s] /\ instance'[s] = instance[s]
    BY <1>2, <2>1, HandsOn
  <2>3. row'[i].claimedBy = row[i].claimedBy
    BY <1>2 DEF RowStep, Inserts, Claimed, Finished, Outcome
  <2>4. cmd[s] = i /\ cmd'[s] = i
    BY <2>1, <2>2 DEF Working, Holds
  <2>5. Stamped(s)'
    BY <2>1, <2>2, <2>3, <2>4 DEF Stamped
  <2>6. QED
    BY <2>2, <2>5
<1>3. CASE row[i].status # "processing"
  <2>1. PICK s \in Servers : Claimed(s) /\ cmd[s] = i
    BY <1>3 DEF RowStep, Inserts, Claimed, Finished, Outcome
  <2>2. Working(s, i)' /\ Stamped(s)'
    BY <2>1 DEF Claimed, Working, Stamped
  <2>3. QED
    BY <2>2
<1>4. QED
  BY <1>2, <1>3

\* A heartbeat row that was written is never taken away.
LEMMA HeardStays ==
  ASSUME TypeOK, [Next]_vars, NEW a, HeardOf(a)
  PROVE  HeardOf(a)'
<1>1. PICK t \in Tiers : heartbeat[t] # "none" /\ Claims(t, a)
  BY DEF HeardOf
<1>2. ASSUME NEW s \in Servers, Server(s)
      PROVE  UNCHANGED heartbeat \/ \E u \in Tiers : heartbeat' = [heartbeat EXCEPT ![u] = "fresh"]
  BY <1>2 DEF Server, Continue, StartTick, Select, Claim, ReadClaim, Lookup, ActTier1,
              ActTier2, ReadStored, RecordSync, Finish, Load, Crash
<1>3. ASSUME NEW u \in Tiers, Age(u) PROVE heartbeat' = [heartbeat EXCEPT ![u] = "stale"]
  BY <1>3 DEF Age
<1>4. ASSUME ~\E s \in Servers : Server(s), ~\E u \in Tiers : Age(u) PROVE UNCHANGED heartbeat
  BY <1>4 DEF Next, Api, Check, Enqueue, ReadBack, Poll, ForeignInsert, Player, Login, Logout,
              vars
<1>5. heartbeat'[t] # "none"
  <2>1. \/ UNCHANGED heartbeat
        \/ \E u \in Tiers : \/ heartbeat' = [heartbeat EXCEPT ![u] = "fresh"]
                            \/ heartbeat' = [heartbeat EXCEPT ![u] = "stale"]
    BY <1>2, <1>3, <1>4
  <2>2. QED
    BY <1>1, <2>1 DEF TypeOK, TablesOK
<1>6. QED
  BY <1>1, <1>5 DEF HeardOf

\* What a caller was told of its row, and what the row is now.
Standing(k) ==
    client[k].id # 0 =>
       /\ client[k].seen \in Terminal => row[client[k].id].status = client[k].seen
       /\ client[k].seen = "processing" => row[client[k].id].status \notin {"absent", "pending"}

LEMMA RepliesAreStanding == RepliesStand <=> \A k \in Clients : Standing(k)
  BY DEF RepliesStand, Standing

\* A caller that makes no step.
LEMMA CallerWaits ==
  ASSUME TypeOK, [Next]_vars, RowStep, NEW k \in Clients, Caller(k), Standing(k),
         client'[k] = client[k]
  PROVE  Caller(k)' /\ Standing(k)'
<1>1. client[k].id \in Ids \cup {0} /\ client[k].seen \in Statuses
  BY DEF TypeOK, ClientOK, Client
<1>2. client[k].pc = "checked" \/ client[k].id # 0 => HeardOf(client[k].action)'
  BY HeardStays DEF Caller
<1>3. client[k].id # 0 => row'[client[k].id].status # "absent"
  BY <1>1, RowsGrow DEF Caller
<1>4. Caller(k)'
  BY <1>2, <1>3 DEF Caller, HeardOf
<1>5. ASSUME client[k].id # 0, client[k].seen \in Terminal
      PROVE  row'[client[k].id].status = client[k].seen
  BY <1>1, <1>5, RowsGrow DEF Caller, Standing
<1>6. ASSUME client[k].id # 0, client[k].seen = "processing"
      PROVE  row'[client[k].id].status \notin {"absent", "pending"}
  BY <1>1, <1>3, <1>6, RowsGrow DEF Caller, Standing
<1>7. QED
  BY <1>4, <1>5, <1>6 DEF Standing

LEMMA LaneClaims == ASSUME NEW a PROVE Lane(a) \in Tiers /\ Claims(Lane(a), a)
  BY DEF Lane, Claims, Tiers

LEMMA CheckCaller ==
  ASSUME TypeOK, NEW k \in Clients, NEW a \in AskedActions, NEW c \in Chars, Check(k, a, c),
         Caller(k)
  PROVE  Caller(k)' /\ Standing(k)'
<1>1. client[k] \in Client /\ client[k].pc = "idle" /\ client[k].id = 0
      /\ client[k].seen = "absent"
  BY DEF Check, TypeOK, ClientOK, Caller
<1>2. PICK p \in {"lost", "checked", "refused"} :
        /\ client' = [client EXCEPT ![k] = [@ EXCEPT !.action = a, !.char = c, !.pc = p]]
        /\ p = "checked" => heartbeat[Lane(a)] = "fresh"
  BY DEF Check
<1>3. client'[k].pc = p /\ client'[k].action = a /\ client'[k].id = 0
      /\ client'[k].seen = "absent"
  BY <1>1, <1>2 DEF TypeOK, ClientOK, Client
<1>4. UNCHANGED heartbeat
  BY DEF Check
<1>5. p = "checked" => HeardOf(a)'
  BY <1>2, <1>4, LaneClaims DEF HeardOf
<1>6. QED
  BY <1>3, <1>5 DEF Caller, HeardOf, Standing

LEMMA EnqueueCaller ==
  ASSUME TypeOK, NEW k \in Clients, Enqueue(k), Caller(k)
  PROVE  Caller(k)' /\ Standing(k)'
<1>1. client[k] \in Client /\ client[k].pc = "checked" /\ client[k].id = 0
      /\ client[k].seen = "absent" /\ client[k].action \in AskedActions
      /\ HeardOf(client[k].action)
  BY DEF Enqueue, TypeOK, ClientOK, Caller
<1>2. UNCHANGED heartbeat
  BY DEF Enqueue
<1>3. CASE client' = [client EXCEPT ![k] = [@ EXCEPT !.pc = "lost"]]
  <2>1. /\ client'[k].pc = "lost" /\ client'[k].action = client[k].action
        /\ client'[k].id = 0 /\ client'[k].seen = "absent"
    BY <1>1, <1>3 DEF TypeOK, ClientOK, Client
  <2>2. QED
    BY <1>1, <2>1 DEF Caller, Standing
<1>4. ASSUME NEW i \in Ids,
             client' = [client EXCEPT ![k] = [@ EXCEPT !.pc = "inserted", !.id = i]],
             row' = [row EXCEPT ![i] = NewRow(client[k].action, client[k].char)]
      PROVE  Caller(k)' /\ Standing(k)'
  <2>1. /\ client'[k].pc = "inserted" /\ client'[k].action = client[k].action
        /\ client'[k].id = i /\ client'[k].seen = "absent"
    BY <1>1, <1>4 DEF TypeOK, ClientOK, Client
  <2>2. row'[i].status = "pending"
    BY <1>4 DEF NewRow, TypeOK, TablesOK
  <2>3. QED
    BY <1>1, <1>2, <2>1, <2>2 DEF Caller, HeardOf, Standing, Terminal
<1>5. QED
  BY <1>3, <1>4 DEF Enqueue

LEMMA ReplyCaller ==
  ASSUME TypeOK, NEW k \in Clients, ReadBack(k) \/ Poll(k), Caller(k), Standing(k)
  PROVE  Caller(k)' /\ Standing(k)'
<1>1. client[k] \in Client /\ client[k].id \in Ids /\ UNCHANGED <<row, heartbeat>>
      /\ client[k].action \in AskedActions /\ HeardOf(client[k].action)
      /\ row[client[k].id].status # "absent"
  <2>1. client[k] \in Client /\ client[k].id \in Ids /\ UNCHANGED <<row, heartbeat>>
        /\ client[k].pc # "idle"
    BY DEF ReadBack, Poll, TypeOK, ClientOK
  <2>2. client[k].id # 0
    BY <2>1 DEF Ids
  <2>3. QED
    BY <2>1, <2>2 DEF Caller
<1>2. CASE Told(k)
  <2>1. PICK p \in {"done", "polling"} :
          client' = [client EXCEPT ![k] = [@ EXCEPT !.seen = row[client[k].id].status, !.pc = p]]
    BY <1>2 DEF Told
  <2>2. /\ client'[k].pc = p /\ client'[k].action = client[k].action
        /\ client'[k].id = client[k].id /\ client'[k].seen = row[client[k].id].status
    BY <1>1, <2>1 DEF TypeOK, ClientOK, Client
  <2>3. PICK n \in Ids : n = client[k].id
    BY <1>1
  <2>4. client'[k].id = n /\ row'[n] = row[n] /\ n # 0
    BY <1>1, <2>2, <2>3 DEF Ids
  <2>5. Caller(k)'
    BY <1>1, <2>2, <2>3, <2>4 DEF Caller, HeardOf
  <2>6. Standing(k)'
    BY <1>1, <2>2, <2>3, <2>4 DEF Standing
  <2>7. QED
    BY <2>5, <2>6
<1>3. CASE UNCHANGED client
  BY <1>1, <1>3 DEF Caller, HeardOf, Standing
<1>4. CASE client' = [client EXCEPT ![k] = [@ EXCEPT !.pc = "lost"]]
  <2>1. /\ client'[k].pc = "lost" /\ client'[k].action = client[k].action
        /\ client'[k].id = client[k].id /\ client'[k].seen = client[k].seen
    BY <1>1, <1>4 DEF TypeOK, ClientOK, Client
  <2>2. QED
    BY <1>1, <2>1 DEF Caller, HeardOf, Standing
<1>5. QED
  BY <1>2, <1>3, <1>4 DEF ReadBack, Poll

LEMMA CallerStep ==
  ASSUME TypeOK, [Next]_vars, RowStep, NEW k \in Clients, Caller(k), Standing(k)
  PROVE  Caller(k)' /\ Standing(k)'
<1>1. ASSUME NEW o \in Clients, Api(o), o # k PROVE client'[k] = client[k]
  BY <1>1 DEF Api, Check, Enqueue, ReadBack, Poll, Told, TypeOK, ClientOK
<1>2. ASSUME Api(k) PROVE Caller(k)' /\ Standing(k)'
  BY <1>2, CheckCaller, EnqueueCaller, ReplyCaller DEF Api
<1>3. ASSUME NEW s \in Servers, Server(s) PROVE UNCHANGED client
  BY <1>3 DEF Server, Continue, StartTick, Select, Claim, ReadClaim, Lookup, ActTier1,
              ActTier2, ReadStored, RecordSync, Finish, Load, Crash
<1>4. CASE (~\E s \in Servers : Server(s)) /\ (~\E o \in Clients : Api(o))
  BY <1>4, CallerWaits DEF Next, ForeignInsert, Player, Login, Logout, Age, vars
<1>5. QED
  BY <1>1, <1>2, <1>3, <1>4, CallerWaits

LEMMA InitGuarantees == Init => Guarantees
<1> SUFFICES ASSUME Init PROVE Guarantees
  OBVIOUS
<1>1. \A i \in Ids : row[i].status = "absent" /\ row[i].error = ""
  BY DEF Init, NoRow
<1>2. \A k \in Clients : /\ client[k].pc = "idle" /\ client[k].id = 0
                         /\ client[k].seen = "absent"
  BY DEF Init, NoClient
<1>3. \A s \in Servers : pc[s] = "idle"
  BY DEF Init
<1>4. RowsInOrder /\ ActionsKnown /\ Carried /\ NoOvertaking /\ SplitIsTotal
  BY <1>1 DEF RowsInOrder, ActionsKnown, Carried, NoOvertaking, SplitIsTotal
<1>5. SyncsAreObserved
  BY <1>1 DEF Init, SyncsAreObserved
<1>6. (\A s \in Servers : Errand(s)) /\ (\A k \in Clients : Caller(k)) /\ RepliesStand
  BY <1>2, <1>3 DEF Errand, Caller, RepliesStand
<1>7. QED
  BY <1>4, <1>5, <1>6 DEF Guarantees

\* What the guarantees rest on is inductive beside the claim protocol: order of the ids,
\* what each tick knows of its row, what each caller has asked and was told.
THEOREM GuaranteesHold == Spec => []Guarantees
<1>1. TypeOK /\ ClaimProtocol /\ Guarantees /\ [Next]_vars => Guarantees'
  <2> SUFFICES ASSUME TypeOK, ClaimProtocol, Guarantees, [Next]_vars PROVE Guarantees'
    OBVIOUS
  <2> USE DEF Guarantees
  <2>1. RowStep
    BY RowSteps DEF RowStep
  <2>2. RowsInOrder' /\ ActionsKnown'
    BY <2>1, OrderStep
  <2>3. NoOvertaking'
    BY <2>1, OvertakingStep
  <2>4. SplitIsTotal'
    BY <2>1, SplitStep DEF SplitIsTotal
  <2>5. SyncsAreObserved' /\ synced \subseteq synced'
    BY <2>1, SyncStep
  <2>6. \A s \in Servers : Errand(s)'
    BY <2>1, <2>5, CountsGrow, TickSteps, ErrandStep
  <2>7. Carried'
    BY <2>1, CarriedStep
  <2>8. (\A k \in Clients : Caller(k)') /\ RepliesStand'
    <3>1. \A k \in Clients : Caller(k)' /\ Standing(k)'
      BY <2>1, CallerStep, RepliesAreStanding
    <3>2. QED
      BY <3>1 DEF RepliesStand, Standing
  <2>9. QED
    BY <2>2, <2>3, <2>4, <2>5, <2>6, <2>7, <2>8
<1>2. QED
  BY InitGuarantees, TypeCorrect, ProtocolHolds, <1>1, PTL DEF Spec

\* Within a tier no row is claimed before an older one, for any number of consumers,
\* lost statements and crashes: the ORDER BY of the two SELECTs is kept by the claims.
THEOREM NobodyOvertakes == Spec => []NoOvertaking
<1>1. Guarantees => NoOvertaking
  BY DEF Guarantees
<1>2. QED
  BY GuaranteesHold, <1>1, PTL

\* What a 202 or a GET said of a row is never taken back.
THEOREM RepliesKeepStanding == Spec => []RepliesStand
<1>1. Guarantees => RepliesStand
  BY DEF Guarantees
<1>2. QED
  BY GuaranteesHold, <1>1, PTL

\* ro_admin_sync names exactly what was observed to be persisted, up to a lost REPLACE.
THEOREM SyncsWereObserved == Spec => []SyncsAreObserved
<1>1. Guarantees => SyncsAreObserved
  BY DEF Guarantees
<1>2. QED
  BY GuaranteesHold, <1>1, PTL

\* Every row that is queued has a script that has been heard of, knows its action, and
\* does not drop it once claimed unless a statement failed or a server died.
THEOREM QueueKeepsServed == Spec => []QueueIsServed
<1>1. TypeOK /\ Guarantees => QueueIsServed
  <2> SUFFICES ASSUME TypeOK, Guarantees PROVE QueueIsServed
    OBVIOUS
  <2>1. GuardedQueue
    BY DEF Guarantees, Caller, HeardOf, GuardedQueue
  <2>2. NoStrandedRow
    BY DEF Guarantees, Carried, NoStrandedRow
  <2>3. QED
    BY <2>1, <2>2 DEF Guarantees, QueueIsServed
<1>2. QED
  BY GuaranteesHold, TypeCorrect, <1>1, PTL
=============================================================================
