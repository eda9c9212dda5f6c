--------------------------- MODULE FreshnessProofs ---------------------------
(***************************************************************************)
(* That a fresh answer is earned, for any number of writes, any window,    *)
(* any clock and any number of lost statements and crashes.                *)
(***************************************************************************)
EXTENDS Freshness, TLAPS

USE FreshnessAssumption DEF evidence, thread, history

\* The part of the types the argument needs: the queue and the clock.
QueueTyped ==
    /\ now \in Times
    /\ queue \in [Writes -> Command]
    /\ synced_at \in Times \cup {None}
    /\ cmd \in Writes \cup {None}
    /\ pc \in {"act", "execute", "fail"} => cmd \in Writes

IInv == QueueTyped /\ WriteIsOnRecord

\* A row of the queue, taken apart.
LEMMA RowTyped ==
  ASSUME QueueTyped, NEW w \in Writes
  PROVE  /\ queue[w] \in Command
         /\ queue[w].status \in Statuses
         /\ queue[w].claimed_at \in Times \cup {None}
         /\ queue[w].finished_at \in Times \cup {None}
  BY DEF QueueTyped, Command

\* Times are numbers, and None is not one of them.
LEMMA TimesAreNumbers == Times \subseteq Nat /\ None \notin Times
  BY DEF Times

LEMMA InitRecorded == Init => IInv
<1> SUFFICES ASSUME Init PROVE IInv
  OBVIOUS
<1>1. 0 \in Times
  BY DEF Times
<1>2. QueueTyped
  BY <1>1 DEF Init, QueueTyped, Command, Statuses
<1>3. WriteIsOnRecord
  BY DEF Init, WriteIsOnRecord, ColumnsInOrder, Attempted
<1>4. QED
  BY <1>2, <1>3 DEF IInv

\* The steps that write neither the queue nor the sync, nor touch the game for a write.
LEMMA GameRecorded ==
  ASSUME IInv, Game \/ UNCHANGED vars PROVE IInv'
<1>1. UNCHANGED <<queue, synced_at, touched>>
  BY DEF Game, Second, Play, Autosave, Logout, CharServer, Login, Crash, NoticeCrash, vars
<1>2. \/ UNCHANGED <<pc, cmd>>
      \/ pc' = "idle" /\ cmd' = None
  BY DEF Game, Second, Play, Autosave, Logout, CharServer, Login, Crash, NoticeCrash, vars
<1>3. now' \in Times /\ now <= now'
  BY TimesAreNumbers DEF IInv, QueueTyped, Times, Game, Second, Play, Autosave, Logout,
     CharServer, Login, Crash, NoticeCrash, vars
<1>4. QueueTyped'
  BY <1>1, <1>2, <1>3 DEF IInv, QueueTyped
<1>5. ColumnsInOrder' /\ \A w \in Writes : NotBeforeSync(w) => NotBeforeSync(w)'
  BY <1>1 DEF IInv, WriteIsOnRecord, ColumnsInOrder, NotBeforeSync, Stamp
<1>6. synced_at' # None => synced_at' <= now'
  BY <1>1, <1>3, TimesAreNumbers DEF IInv, QueueTyped, WriteIsOnRecord
<1>7. WriteIsOnRecord'
  BY <1>1, <1>2, <1>5, <1>6 DEF IInv, QueueTyped, WriteIsOnRecord
<1>8. QED
  BY <1>4, <1>7 DEF IInv

LEMMA ClaimRecorded ==
  ASSUME IInv, NEW w \in Writes, ClaimWrite(w) PROVE IInv'
<1> DEFINE r == [queue[w] EXCEPT !.status = "processing", !.claimed_at = now]
<1>1. queue[w] \in Command /\ now \in Times /\ queue[w].status = "pending"
  BY RowTyped DEF IInv, QueueTyped, ClaimWrite
<1>2. queue[w].finished_at = None
  BY <1>1 DEF IInv, WriteIsOnRecord, ColumnsInOrder
<1>3. r \in Command /\ r.status = "processing" /\ r.claimed_at = now /\ r.finished_at = None
  BY <1>1, <1>2 DEF Command, Statuses, Attempted
<1>4. queue' = [queue EXCEPT ![w] = r]
  BY DEF ClaimWrite
<1> HIDE DEF r
<1>5. /\ queue'[w] = r
      /\ \A v \in Writes \ {w} : queue'[v] = queue[v]
      /\ queue' \in [Writes -> Command]
  BY <1>3, <1>4 DEF IInv, QueueTyped
<1>6. /\ UNCHANGED <<now, synced_at, touched>>
      /\ \/ pc' = "act" /\ cmd' = w
         \/ pc' = "idle" /\ cmd' = cmd
  BY DEF ClaimWrite
<1>7. QueueTyped'
  BY <1>5, <1>6 DEF IInv, QueueTyped
<1>8. ColumnsInOrder'
  BY <1>3, <1>5, TimesAreNumbers, <1>1 DEF IInv, WriteIsOnRecord, ColumnsInOrder
<1>9. NotBeforeSync(w)'
  BY <1>3, <1>5, <1>6 DEF IInv, WriteIsOnRecord, NotBeforeSync, Stamp, Attempted
<1>10. \A v \in Writes \ {w} : NotBeforeSync(v) => NotBeforeSync(v)'
  BY <1>5, <1>6 DEF NotBeforeSync, Stamp
<1>11. touched' => \E v \in Writes : NotBeforeSync(v)'
  BY <1>6, <1>9, <1>10 DEF IInv, WriteIsOnRecord
<1>12. pc' \in {"act", "execute", "fail"} => queue'[cmd'].status = "processing" /\ cmd' = w
  BY <1>3, <1>5, <1>6
<1>13. WriteIsOnRecord'
  <2>1. (pc \in {"act", "execute", "fail"} =>
           queue[cmd].status = "processing" /\ NotBeforeSync(cmd))'
    BY <1>9, <1>12
  <2>2. (synced_at # None => synced_at <= now)' /\ (pc = "record" => ~touched)'
    BY <1>6 DEF IInv, WriteIsOnRecord
  <2>3. QED
    BY <1>8, <1>11, <2>1, <2>2 DEF WriteIsOnRecord
<1>14. QED
  BY <1>7, <1>13 DEF IInv

\* The command touches the game: the row it works on is the witness.
LEMMA ActRecorded ==
  ASSUME IInv, Act PROVE IInv'
<1>1. UNCHANGED <<now, queue, synced_at, cmd>> /\ pc = "act" /\ pc' \in {"execute", "fail"}
  BY DEF Act
<1>2. cmd \in Writes /\ queue[cmd].status = "processing" /\ NotBeforeSync(cmd)
  BY <1>1 DEF IInv, QueueTyped, WriteIsOnRecord
<1>3. QueueTyped'
  BY <1>1, <1>2 DEF IInv, QueueTyped
<1>4. ColumnsInOrder' /\ NotBeforeSync(cmd)'
  BY <1>1, <1>2 DEF IInv, WriteIsOnRecord, ColumnsInOrder, NotBeforeSync, Stamp
<1>5. WriteIsOnRecord'
  BY <1>1, <1>2, <1>4 DEF IInv, WriteIsOnRecord, NotBeforeSync, Stamp
<1>6. QED
  BY <1>3, <1>5 DEF IInv

LEMMA FinishRecorded ==
  ASSUME IInv, Finish PROVE IInv'
<1>1. /\ UNCHANGED <<now, synced_at, touched>> /\ pc \in {"execute", "fail"}
      /\ pc' = "idle" /\ cmd' = None
  BY DEF Finish, EndTick
<1>2. cmd \in Writes /\ queue[cmd].status = "processing" /\ now \in Times
  BY <1>1 DEF IInv, QueueTyped, WriteIsOnRecord
<1>3. PICK s \in {"executed", "failed"} :
        \/ queue' = queue
        \/ queue' = [queue EXCEPT ![cmd] = [@ EXCEPT !.status = s, !.finished_at = now]]
  BY DEF Finish
<1> DEFINE r == [queue[cmd] EXCEPT !.status = s, !.finished_at = now]
<1>4. /\ r \in Command /\ r.status = s /\ r.finished_at = now
      /\ r.claimed_at = queue[cmd].claimed_at /\ queue[cmd].claimed_at # None
  <2>1. queue[cmd] \in Command
    BY <1>2, RowTyped DEF IInv
  <2>2. queue[cmd].claimed_at # None
    BY <1>2 DEF IInv, WriteIsOnRecord, ColumnsInOrder, Attempted
  <2>3. QED
    BY <1>2, <2>1, <2>2 DEF Command, Statuses, Attempted
<1>5. queue' = queue \/ queue' = [queue EXCEPT ![cmd] = r]
  BY <1>3
<1> HIDE DEF r
<1>6. CASE queue' = queue
  <2>1. ColumnsInOrder' /\ \A w \in Writes : NotBeforeSync(w) => NotBeforeSync(w)'
    BY <1>1, <1>6 DEF IInv, WriteIsOnRecord, ColumnsInOrder, NotBeforeSync, Stamp
  <2>2. WriteIsOnRecord'
    BY <1>1, <1>6, <2>1 DEF IInv, WriteIsOnRecord
  <2>3. QED
    BY <1>1, <1>6, <2>2 DEF IInv, QueueTyped
<1>7. CASE queue' = [queue EXCEPT ![cmd] = r]
  <2>1. /\ queue'[cmd] = r
        /\ \A v \in Writes \ {cmd} : queue'[v] = queue[v]
        /\ queue' \in [Writes -> Command]
    BY <1>2, <1>4, <1>7 DEF IInv, QueueTyped
  <2>2. QueueTyped'
    BY <1>1, <2>1 DEF IInv, QueueTyped
  <2>3. ColumnsInOrder'
    BY <1>3, <1>4, <2>1 DEF IInv, WriteIsOnRecord, ColumnsInOrder
  <2>4. \A v \in Writes \ {cmd} : NotBeforeSync(v) => NotBeforeSync(v)'
    BY <1>1, <2>1 DEF NotBeforeSync, Stamp
  <2>5. queue'[cmd].status \in Attempted /\ queue'[cmd].finished_at = now /\ now # None
    BY <1>2, <1>4, <2>1, TimesAreNumbers DEF Attempted
  <2>6. \A v \in Writes : NotBeforeSync(v) => NotBeforeSync(v)'
    <3>1. /\ queue'[cmd].status \in Attempted
          /\ synced_at' # None => now >= synced_at'
      BY <1>1, <1>2, <2>5, TimesAreNumbers DEF IInv, QueueTyped, WriteIsOnRecord
    <3>2. ASSUME NEW v \in Writes, v = cmd PROVE NotBeforeSync(v)'
      BY <1>1, <2>5, <3>1, <3>2 DEF NotBeforeSync, Stamp
    <3>3. QED
      BY <2>4, <3>2
  <2>7. WriteIsOnRecord'
    BY <1>1, <2>3, <2>6 DEF IInv, WriteIsOnRecord
  <2>8. QED
    BY <2>2, <2>7 DEF IInv
<1>8. QED
  BY <1>5, <1>6, <1>7

LEMMA Tier2Recorded ==
  ASSUME IInv, Tier2 PROVE IInv'
<1>1. UNCHANGED <<now, queue>> /\ pc' \notin {"act", "execute", "fail"}
      /\ cmd' \in {cmd, None}
  BY DEF Tier2, Hook, ReadBack, Record, EndTick
<1>2. ColumnsInOrder'
  BY <1>1 DEF IInv, WriteIsOnRecord, ColumnsInOrder
<1>3. CASE Hook \/ ReadBack
  <2>1. synced_at' = synced_at
    BY <1>3 DEF Hook, ReadBack
  <2>2. touched' = FALSE \/ (touched' = touched /\ pc' # "record")
    BY <1>3 DEF Hook, ReadBack, EndTick
  <2>3. \A w \in Writes : NotBeforeSync(w) => NotBeforeSync(w)'
    BY <1>1, <2>1 DEF NotBeforeSync, Stamp
  <2>4. QueueTyped'
    BY <1>1, <2>1 DEF IInv, QueueTyped
  <2>5. WriteIsOnRecord'
    BY <1>1, <1>2, <2>1, <2>2, <2>3 DEF IInv, WriteIsOnRecord
  <2>6. QED
    BY <2>4, <2>5 DEF IInv
<1>4. CASE Record
  <2>1. synced_at' \in {now, synced_at} /\ touched' = touched /\ pc' = "idle" /\ pc = "record"
    BY <1>4 DEF Record, EndTick
  <2>2. ~touched'
    BY <2>1 DEF IInv, WriteIsOnRecord
  <2>3. QueueTyped'
    BY <1>1, <2>1 DEF IInv, QueueTyped
  <2>4. synced_at' # None => synced_at' <= now'
    BY <1>1, <2>1, TimesAreNumbers DEF IInv, QueueTyped, WriteIsOnRecord
  <2>5. WriteIsOnRecord'
    BY <1>1, <1>2, <2>1, <2>2, <2>4 DEF WriteIsOnRecord
  <2>6. QED
    BY <2>3, <2>5 DEF IInv
<1>5. QED
  BY <1>3, <1>4 DEF Tier2

\* A write that touched the game after the last read-back has left its time in the queue.
THEOREM WritesAreOnRecord == Spec => []WriteIsOnRecord
<1>1. IInv /\ [Next]_vars => IInv'
  BY GameRecorded, ClaimRecorded, ActRecorded, FinishRecorded, Tier2Recorded DEF Next, Tier1
<1>2. IInv => WriteIsOnRecord
  BY DEF IInv
<1>3. QED
  BY InitRecorded, <1>1, <1>2, PTL DEF Spec

\* The API never calls a row fresh after a queued write has touched the game: seconds are
\* enough, because a tie counts against the sync and a claim is stamped before the game
\* is touched.
THEOREM FreshIsEarned == Spec => []FreshMeansNotWrittenSince
<1>1. IInv => FreshMeansNotWrittenSince
  <2> SUFFICES ASSUME IInv, online, ~Stale, touched PROVE FALSE
    BY DEF FreshMeansNotWrittenSince
  <2>1. synced_at # None /\ NotUndone(synced_at)
    BY DEF Stale, Fresh
  <2>2. PICK w \in Writes : NotBeforeSync(w)
    BY DEF IInv, WriteIsOnRecord
  <2>3. queue[w].status \in Attempted /\ Stamp(w) >= synced_at
    BY <2>1, <2>2 DEF NotBeforeSync
  <2>4. Stamp(w) \in Times
    BY <2>3, RowTyped DEF IInv, WriteIsOnRecord, ColumnsInOrder, Stamp
  <2>5. Stamp(w) \in Written
    BY <2>3, <2>4, TimesAreNumbers DEF Written
  <2>6. synced_at > Stamp(w) /\ synced_at \in Times
    BY <2>1, <2>5 DEF NotUndone, IInv, QueueTyped
  <2> DEFINE at == Stamp(w)
  <2>7. at \in Nat /\ synced_at \in Nat /\ at >= synced_at /\ synced_at > at
    BY <2>3, <2>4, <2>6, TimesAreNumbers
  <2> HIDE DEF at
  <2>8. QED
    BY <2>7
<1>2. IInv /\ [Next]_vars => IInv'
  BY GameRecorded, ClaimRecorded, ActRecorded, FinishRecorded, Tier2Recorded DEF Next, Tier1
<1>3. QED
  BY InitRecorded, <1>1, <1>2, PTL DEF Spec
=============================================================================
