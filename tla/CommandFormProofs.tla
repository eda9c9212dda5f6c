------------------------- MODULE CommandFormProofs --------------------------
(***************************************************************************)
(* That a form sends no write twice, says what is so, and loses no row:    *)
(* for any number of rows, presses, polls and flights.                     *)
(*                                                                         *)
(* What a call under way and the outcome line may rely on is said of the   *)
(* books: what the server and the history hold.  Most steps leave them, or *)
(* only end rows, and what is relied on outlives both.                     *)
(***************************************************************************)
EXTENDS CommandForm, TLAPS

USE CommandFormAssumption

Books == [job |-> job, reason |-> reason, intentOf |-> intentOf, intents |-> intents]

\* The game has recorded row i as not persisted: its write may be sent again.
Unsaved(b, i) == b.job[i].status = "failed" /\ b.reason[i] = "not yet persisted"

\* Every row that is due to press n, but perhaps row k, is unsaved.
UnsavedBut(b, n, k) == \A i \in Ids : n # 0 /\ b.intentOf[i] = n => i = k \/ Unsaved(b, i)

\* What a row said of its end when it was read is still so.
TrueRow(b, r) ==
    /\ r.status \in Queue!Terminal =>
         r.id \in Ids /\ b.job[r.id].status = r.status /\ b.reason[r.id] = r.reason
    /\ r.status \notin Queue!Terminal => r.reason = ""

\* Rows come in the order of their ids, each for a press that was made, and
\* carry a reason from their end on.
ServerStands ==
    /\ \A i, j \in Ids : i < j /\ job[j].status # "absent" => job[i].status # "absent"
    /\ \A i \in Ids :
         /\ intentOf[i] # 0 => job[i].status # "absent"
         /\ intentOf[i] <= intents
         /\ job[i].status \notin Queue!Terminal => reason[i] = ""
         /\ reason[i] = "not online" => job[i].runs = 0

\* The awaits of a call that watches a row.
Watching == {"sleeping", "getting", "got"}

Watches(b, d) ==
    /\ d.row.id \in Ids /\ UnsavedBut(b, d.intent, d.row.id)
    /\ d.polls < MaxPolls /\ d.failures < 3
    /\ SaysNoConsumer(d) => d.heard

\* What a call that is under way may rely on at each await.
FlightStands(b, d) ==
    /\ TrueRow(b, d.row) /\ TrueRow(b, d.answer.row) /\ d.intent <= b.intents
    /\ d.pc = "posting" => UnsavedBut(b, d.intent, 0) /\ d.polls = 0 /\ d.failures = 0
    /\ d.pc = "inserted" \/ (d.pc = "posted" /\ d.answer.error = "") =>
         /\ d.answer.row.id \in Ids /\ UnsavedBut(b, d.intent, d.answer.row.id)
         /\ d.answer.row.responding /\ d.polls = 0 /\ d.failures = 0
    /\ d.pc = "posted" /\ d.answer.error \in {"refused", "unauthorized"} =>
         UnsavedBut(b, d.intent, 0)
    /\ d.pc \in Watching => Watches(b, d)
    /\ d.pc = "got" /\ d.answer.error = "" => d.answer.row.id = d.row.id

\* Every row of the write the outcome line o speaks of has failed.
AllFailed(b, o) ==
    \A i \in Ids : o.intent # 0 /\ b.intentOf[i] = o.intent => b.job[i].status = "failed"

\* What the outcome line says, and what its button would send or watch.
LineStands(b, o, here) ==
    /\ TrueRow(b, o.row) /\ o.intent <= b.intents
    /\ o.busy => o.kind = "pending" /\ o.offer = "none"
    /\ o.kind = "done" => o.row.status = "executed"
    /\ o.kind = "refused" => o.row.status = "failed" /\ o.row.reason = "not online"
    /\ here /\ o.kind \in {"refused", "retry", "failed"} => AllFailed(b, o)
    /\ o.offer = "Retry" => UnsavedBut(b, o.intent, 0)
    /\ o.offer = "Check again" => o.row.id \in Ids /\ UnsavedBut(b, o.intent, o.row.id)
    /\ o.stopped = "no-consumer" => o.heard

\* The form is busy while a call is under way.
BusyWhileUnderWay == \A f \in Flights : flight[f].pc # "free" => form.busy

ServerTyped ==
    /\ job \in [Ids -> Queue!Job]
    /\ reason \in [Ids -> Reasons]
    /\ intentOf \in [Ids -> Intents \cup {0}]
    /\ responding \in BOOLEAN

ClientTyped ==
    /\ action \in Actions /\ connected \in BOOLEAN
    /\ intents \in 0..MaxIntents
    /\ form \in Form
    /\ flight \in [Flights -> Flight]

ServerInv == ServerTyped /\ ServerStands /\ OneRowPerIntent

FlightInv ==
    /\ \A f \in Flights : flight[f].pc # "free" => FlightStands(Books, flight[f])
    /\ OneInFlight /\ BusyWhileUnderWay

FormInv ==
    /\ ServerInv /\ ClientTyped /\ FlightInv
    /\ LineStands(Books, form, connected) /\ RowStaysInSight
-----------------------------------------------------------------------------
(***************************************************************************)
(* What outlives a step.                                                   *)
(***************************************************************************)

\* From books b to books c no press is taken back, no row changes the press it is due to,
\* and a row that has ended stays as it is.
Later(b, c) ==
    /\ c.intentOf = b.intentOf /\ b.intents <= c.intents
    /\ \A i \in Ids : b.job[i].status \in Queue!Terminal =>
          c.job[i].status = b.job[i].status /\ c.reason[i] = b.reason[i]

\* A row that told its end truly still does, and an unsaved row stays one.
LEMMA RowsLast ==
    ASSUME NEW b, NEW c, Later(b, c)
    PROVE  /\ \A r : TrueRow(b, r) => TrueRow(c, r)
           /\ \A n, k : UnsavedBut(b, n, k) => UnsavedBut(c, n, k)
           /\ \A o : AllFailed(b, o) => AllFailed(c, o)
<1>1. ASSUME NEW r, TrueRow(b, r) PROVE TrueRow(c, r)
  BY <1>1 DEF TrueRow, Later
<1>2. ASSUME NEW n, NEW k, UnsavedBut(b, n, k) PROVE UnsavedBut(c, n, k)
  BY <1>2 DEF UnsavedBut, Unsaved, Later, Queue!Terminal
<1>3. ASSUME NEW o, AllFailed(b, o) PROVE AllFailed(c, o)
  BY <1>3 DEF AllFailed, Later, Queue!Terminal
<1> QED
  BY <1>1, <1>2, <1>3

\* What a call relies on outlives a step to later books.
LEMMA FlightLasts ==
    ASSUME NEW b, NEW c, Later(b, c), b.intents \in Int, c.intents \in Int,
           NEW d, d.intent \in Int, FlightStands(b, d)
    PROVE  FlightStands(c, d)
<1>1. d.intent <= c.intents
  <2>1. b.intents <= c.intents /\ d.intent <= b.intents
    BY DEF Later, FlightStands
  <2> QED
    BY <2>1
<1>2. /\ TrueRow(b, d.row) => TrueRow(c, d.row)
      /\ TrueRow(b, d.answer.row) => TrueRow(c, d.answer.row)
      /\ UnsavedBut(b, d.intent, 0) => UnsavedBut(c, d.intent, 0)
      /\ UnsavedBut(b, d.intent, d.row.id) => UnsavedBut(c, d.intent, d.row.id)
      /\ UnsavedBut(b, d.intent, d.answer.row.id) => UnsavedBut(c, d.intent, d.answer.row.id)
  BY RowsLast
<1>3. Watches(b, d) => Watches(c, d)
  BY <1>2 DEF Watches
<1> QED
  BY <1>1, <1>2, <1>3, Zenon DEF FlightStands

\* So does what the outcome line says.
LEMMA LineLasts ==
    ASSUME NEW b, NEW c, Later(b, c), b.intents \in Int, c.intents \in Int,
           NEW o, o.intent \in Int, NEW here, LineStands(b, o, here)
    PROVE  LineStands(c, o, here)
<1>1. o.intent <= c.intents
  <2>1. b.intents <= c.intents /\ o.intent <= b.intents
    BY DEF Later, LineStands
  <2> QED
    BY <2>1
<1>2. /\ TrueRow(b, o.row) => TrueRow(c, o.row)
      /\ AllFailed(b, o) => AllFailed(c, o)
      /\ UnsavedBut(b, o.intent, 0) => UnsavedBut(c, o.intent, 0)
      /\ UnsavedBut(b, o.intent, o.row.id) => UnsavedBut(c, o.intent, o.row.id)
  BY RowsLast
<1> QED
  BY <1>1, <1>2, Zenon DEF LineStands

\* A step that leaves the client alone, and takes the books to later ones, keeps the
\* client's part.
LEMMA ClientLeft ==
    ASSUME FormInv, Silent, Later(Books, Books'), ServerInv'
    PROVE  FormInv'
<1>1. UNCHANGED <<action, connected, intents, form, flight>>
  BY DEF Silent
<1>2. ClientTyped'
  BY <1>1 DEF FormInv, ClientTyped
<1>3. Books.intents \in Int /\ Books'.intents \in Int
  BY <1>1 DEF FormInv, ClientTyped, Books
<1>4. FlightInv'
  <2>1. OneInFlight' /\ BusyWhileUnderWay'
    BY <1>1 DEF FormInv, FlightInv, OneInFlight, BusyWhileUnderWay
  <2>2. ASSUME NEW f \in Flights, flight[f].pc # "free"
        PROVE  FlightStands(Books', flight[f])
    <3>1. FlightStands(Books, flight[f])
      BY <2>2 DEF FormInv, FlightInv
    <3>2. flight[f].intent \in Int
      BY DEF FormInv, ClientTyped, Flight, Intents
    <3> QED
      BY <1>3, <3>1, <3>2, FlightLasts
  <2> QED
    BY <1>1, <2>1, <2>2 DEF FlightInv
<1>5. LineStands(Books, form, connected)'
  <2>1. form.intent \in Int
    BY DEF FormInv, ClientTyped, Form, Intents
  <2>2. LineStands(Books', form, connected)
    BY <1>3, <2>1, LineLasts DEF FormInv
  <2> QED
    BY <1>1, <2>2
<1>6. RowStaysInSight'
  BY <1>1 DEF FormInv, RowStaysInSight
<1> QED
  BY <1>2, <1>4, <1>5, <1>6 DEF FormInv

\* A step that leaves the server alone, and takes back no press, keeps the server's part.
LEMMA ServerLeft ==
    ASSUME ServerInv, UNCHANGED server, intents \in Nat, intents' \in Nat, intents <= intents'
    PROVE  ServerInv' /\ Later(Books, Books')
<1>1. UNCHANGED <<job, reason, intentOf, responding>>
  BY DEF server
<1>2. ServerTyped'
  BY <1>1 DEF ServerInv, ServerTyped
<1>3. \A i \in Ids : intentOf[i] \in Int
  BY DEF ServerInv, ServerTyped, Intents
<1>4. ASSUME NEW i \in Ids PROVE intentOf[i] <= intents'
  <2>1. intentOf[i] <= intents
    BY <1>4 DEF ServerInv, ServerStands
  <2> QED
    BY <1>3, <1>4, <2>1
<1>5. ServerStands'
  BY <1>1, <1>4 DEF ServerInv, ServerStands
<1>6. OneRowPerIntent'
  BY <1>1 DEF ServerInv, OneRowPerIntent
<1>7. Later(Books, Books')
  BY <1>1 DEF Later, Books
<1> QED
  BY <1>2, <1>5, <1>6, <1>7 DEF ServerInv
-----------------------------------------------------------------------------
(***************************************************************************)
(* The queue moves by itself.                                              *)
(***************************************************************************)

\* The number of presses, and the press a call or the line is about, are numbers.
LEMMA PressesAreCounted ==
    FormInv => /\ intents \in Nat /\ form.intent \in Nat
               /\ \A f \in Flights : flight[f].intent \in Nat
  BY DEF FormInv, ClientTyped, Form, Flight, Intents

\* Without a new press their number is what it was.
LEMMA NoNewPress == FormInv /\ UNCHANGED intents => intents <= intents'
<1> SUFFICES ASSUME FormInv, intents' = intents PROVE intents <= intents'
  OBVIOUS
<1> QED
  BY PressesAreCounted

\* One row moves on, or ends with a reason.
LEMMA OneRowMoves ==
    ASSUME FormInv, Silent, intentOf' = intentOf, responding' = responding,
           NEW i \in Ids, job[i].status \in {"pending", "processing"},
           NEW x \in Queue!Job, x.status # "absent", job' = [job EXCEPT ![i] = x],
           NEW r \in Reasons, reason' = [reason EXCEPT ![i] = r],
           x.status \notin Queue!Terminal => r = "",
           r = "not online" => x.runs = 0
    PROVE  FormInv'
<1>1. ServerTyped
  BY DEF FormInv, ServerInv
<1>2. ServerTyped'
  BY <1>1 DEF ServerTyped
<1>3. /\ \A j \in Ids : job'[j] = IF j = i THEN x ELSE job[j]
      /\ \A j \in Ids : reason'[j] = IF j = i THEN r ELSE reason[j]
  BY <1>1 DEF ServerTyped
<1>4. reason[i] = ""
  BY DEF FormInv, ServerInv, ServerStands, Queue!Terminal
<1>5. UNCHANGED intents
  BY DEF Silent
<1>6. ServerStands'
  <2>1. \A j, k \in Ids : j < k /\ job'[k].status # "absent" => job'[j].status # "absent"
    <3>1. \A j \in Ids : job'[j].status # "absent" <=> job[j].status # "absent"
      BY <1>3
    <3>2. \A j, k \in Ids : j < k /\ job[k].status # "absent" => job[j].status # "absent"
      BY DEF FormInv, ServerInv, ServerStands
    <3> QED
      BY <3>1, <3>2
  <2>2. ASSUME NEW j \in Ids
        PROVE  /\ intentOf[j] # 0 => job'[j].status # "absent"
               /\ intentOf[j] <= intents
               /\ job'[j].status \notin Queue!Terminal => reason'[j] = ""
               /\ reason'[j] = "not online" => job'[j].runs = 0
    <3>1. /\ intentOf[j] # 0 => job[j].status # "absent"
          /\ intentOf[j] <= intents
          /\ job[j].status \notin Queue!Terminal => reason[j] = ""
          /\ reason[j] = "not online" => job[j].runs = 0
      BY DEF FormInv, ServerInv, ServerStands
    <3>2. CASE j = i
      BY <1>3, <3>1, <3>2
    <3>3. CASE j # i
      BY <1>3, <3>1, <3>3
    <3> QED
      BY <3>2, <3>3
  <2> QED
    BY <1>5, <2>1, <2>2 DEF ServerStands
<1>7. OneRowPerIntent'
  BY <1>3, <1>4 DEF FormInv, ServerInv, OneRowPerIntent
<1>8. Later(Books, Books')
  <2>1. intents <= intents'
    BY <1>5, NoNewPress, Zenon
  <2> QED
    BY <1>3, <2>1 DEF Later, Books, Queue!Terminal
<1> QED
  BY <1>2, <1>6, <1>7, <1>8, ClientLeft DEF ServerInv

LEMMA ConsumeKeeps == ASSUME FormInv, NEW i \in Ids, Consume(i) PROVE FormInv'
<1>1. job \in [Ids -> Queue!Job] /\ reason \in [Ids -> Reasons]
  BY DEF FormInv, ServerInv, ServerTyped
<1>2. PICK x \in Queue!Job : /\ job' = [job EXCEPT ![i] = x]
                             /\ x.status = "processing"
  <2>1. CASE Queue!Claim(i)
    <3>1. [job[i] EXCEPT !.status = "processing"] \in Queue!Job
      BY <1>1 DEF Queue!Job, Queue!Statuses
    <3> QED
      BY <1>1, <2>1, <3>1 DEF Queue!Claim, Queue!Job
  <2>2. CASE Queue!Run(i)
    <3>1. PICK e \in Queue!Effects :
             job' = [job EXCEPT ![i] = [status |-> "processing", runs |-> 1, effect |-> e]]
      BY <2>2 DEF Queue!Run
    <3>2. [status |-> "processing", runs |-> 1, effect |-> e] \in Queue!Job
      BY DEF Queue!Job, Queue!Statuses
    <3> QED
      BY <3>1, <3>2
  <2>3. CASE Queue!Confirm(i)
    <3>1. [job[i] EXCEPT !.effect = "full"] \in Queue!Job
      BY <1>1 DEF Queue!Job, Queue!Effects
    <3>2. [job[i] EXCEPT !.effect = "full"].status = "processing"
      BY <1>1, <2>3 DEF Queue!Confirm, Queue!Job
    <3> QED
      BY <2>3, <3>1, <3>2 DEF Queue!Confirm
  <2> QED
    BY <2>1, <2>2, <2>3 DEF Consume
<1>3. job[i].status \in {"pending", "processing"}
  BY DEF Consume, Queue!Claim, Queue!Run, Queue!Confirm
<1>4. reason[i] = ""
  BY <1>3 DEF FormInv, ServerInv, ServerStands, Queue!Terminal
<1>5. reason' = [reason EXCEPT ![i] = ""] /\ intentOf' = intentOf /\ responding' = responding
  BY <1>1, <1>4 DEF Consume
<1>6. Silent
  BY DEF Consume
<1> QED
  BY <1>2, <1>3, <1>5, <1>6, OneRowMoves DEF Reasons

LEMMA FinishKeeps == ASSUME FormInv, NEW i \in Ids, FinishJob(i) PROVE FormInv'
<1>1. job \in [Ids -> Queue!Job] /\ reason \in [Ids -> Reasons]
  BY DEF FormInv, ServerInv, ServerTyped
<1>2. PICK s \in Queue!Terminal : job' = [job EXCEPT ![i].status = s]
  BY DEF FinishJob, Queue!Finish, Queue!Terminal
<1> DEFINE x == [job[i] EXCEPT !.status = s]
<1>3. x \in Queue!Job /\ x.status = s /\ x.runs = job[i].runs
  BY <1>1 DEF Queue!Job, Queue!Statuses, Queue!Terminal
<1>4. job' = [job EXCEPT ![i] = x]
  BY <1>2
<1>5. PICK r \in ReasonsFor(job[i]) : reason' = [reason EXCEPT ![i] = r]
  BY DEF FinishJob
<1>6. r \in Reasons /\ (r = "not online" => job[i].runs = 0)
  BY <1>5 DEF ReasonsFor, Reasons
<1>7. job[i].status \in {"pending", "processing"}
  BY DEF FinishJob, Queue!Finish
<1>8. intentOf' = intentOf /\ responding' = responding /\ Silent
  BY DEF FinishJob
<1>9. x.status # "absent" /\ (x.status \notin Queue!Terminal => r = "")
  BY <1>2, <1>3 DEF Queue!Terminal
<1> HIDE DEF x
<1> QED
  BY <1>3, <1>4, <1>5, <1>6, <1>7, <1>8, <1>9, OneRowMoves

LEMMA HeartbeatKeeps == FormInv /\ Heartbeat => FormInv'
<1> SUFFICES ASSUME FormInv, Heartbeat PROVE FormInv'
  OBVIOUS
<1>1. UNCHANGED <<job, reason, intentOf, intents>> /\ Silent /\ responding' \in BOOLEAN
  BY DEF Heartbeat, Silent
<1>2. ServerTyped' /\ ServerStands' /\ OneRowPerIntent'
  BY <1>1 DEF FormInv, ServerInv, ServerTyped, ServerStands, OneRowPerIntent
<1>3. Later(Books, Books')
  <2>1. intents <= intents'
    BY <1>1 DEF FormInv, ClientTyped
  <2> QED
    BY <1>1, <2>1 DEF Later, Books
<1> QED
  BY <1>1, <1>2, <1>3, ClientLeft DEF ServerInv
-----------------------------------------------------------------------------
(***************************************************************************)
(* The client moves.                                                       *)
(***************************************************************************)

\* While a call is under way its slot is the only one taken.
LEMMA OthersAreFree ==
    ASSUME FormInv, NEW f \in Flights, flight[f].pc # "free" \/ ~form.busy
    PROVE  \A g \in Flights : g # f => flight[g].pc = "free"
  BY DEF FormInv, FlightInv, OneInFlight, BusyWhileUnderWay

\* A step that changes one slot, and perhaps the outcome line, keeps the invariant when what
\* it leaves in them stands.
LEMMA SlotMoves ==
    ASSUME FormInv, ServerInv', action' = action, intents' \in 0..MaxIntents,
           connected' \in BOOLEAN, form' \in Form,
           NEW f \in Flights, \A g \in Flights : g # f => flight[g].pc = "free",
           NEW d \in Flight, flight' = [flight EXCEPT ![f] = d],
           d.pc # "free" => form'.busy /\ FlightStands(Books', d),
           LineStands(Books', form', connected'),
           RowStaysInSight'
    PROVE  FormInv'
<1>1. flight \in [Flights -> Flight] /\ action \in Actions
  BY DEF FormInv, ClientTyped
<1>2. ClientTyped'
  BY <1>1 DEF ClientTyped
<1>3. \A g \in Flights : flight'[g] = IF g = f THEN d ELSE flight[g]
  BY <1>1
<1>4. OneInFlight' /\ BusyWhileUnderWay'
  BY <1>3 DEF OneInFlight, BusyWhileUnderWay
<1>5. ASSUME NEW g \in Flights, flight'[g].pc # "free"
      PROVE  FlightStands(Books', flight'[g])
  BY <1>3, <1>5
<1>6. FlightInv'
  BY <1>4, <1>5 DEF FlightInv
<1>7. LineStands(Books, form, connected)'
  OBVIOUS
<1> QED
  BY <1>2, <1>6, <1>7 DEF FormInv
-----------------------------------------------------------------------------
(***************************************************************************)
(* The network.                                                            *)
(***************************************************************************)

LEMMA BooksStay == UNCHANGED <<server, intents>> => Books' = Books
  BY DEF Books, server

LEMMA NoRowTyped == NoRow \in Row /\ NoAnswer \in Answer /\ NoFlight \in Flight
<1>1. NoRow \in Row
  BY DEF NoRow, Row, Queue!Statuses, Reasons
<1>2. NoAnswer \in Answer
  BY <1>1 DEF NoAnswer, Answer
<1> QED
  BY <1>1, <1>2 DEF NoFlight, Flight

LEMMA NoRowIsTrue == ASSUME NEW b PROVE TrueRow(b, NoRow)
  BY DEF TrueRow, NoRow, Queue!Terminal

LEMMA NoRowIsNone == NoRow.id = 0
  BY DEF NoRow

\* What a slot holds once an answer is on its way or has arrived.
Replied(d, pc, e, row) == [d EXCEPT !.pc = pc, !.answer = [error |-> e, row |-> row]]

LEMMA NoAnswerIsTrue == ASSUME NEW b, NEW a, a = NoAnswer PROVE TrueRow(b, a.row)
  BY NoRowIsTrue DEF NoAnswer

\* A row is true when it is read.
LEMMA ReadIsTrue ==
    ASSUME ServerInv, NEW i \in Ids, NEW r \in BOOLEAN
    PROVE  ReadRow(i, r) \in Row /\ ReadRow(i, r).id = i /\ ReadRow(i, r).responding = r
           /\ TrueRow(Books, ReadRow(i, r))
<1>1. job[i].status \in Queue!Statuses /\ reason[i] \in Reasons
  BY DEF ServerInv, ServerTyped, Queue!Job
<1>2. job[i].status \notin Queue!Terminal => reason[i] = ""
  BY DEF ServerInv, ServerStands
<1>3. ReadRow(i, r) \in Row
  BY <1>1 DEF ReadRow, Row
<1> QED
  BY <1>2, <1>3 DEF ReadRow, TrueRow, Books

\* A slot that only changes what has arrived in it.
LEMMA SlotAnswers ==
    ASSUME FormInv, UNCHANGED <<action, connected, intents, form>>, ServerInv',
           NEW f \in Flights, flight[f].pc # "free",
           NEW d \in Flight, flight' = [flight EXCEPT ![f] = d],
           d.pc # "free", d.row = flight[f].row,
           FlightStands(Books', d),
           LineStands(Books', form, connected)
    PROVE  FormInv'
<1>1. \A g \in Flights : g # f => flight[g].pc = "free"
  BY OthersAreFree
<1>2. form.busy
  BY DEF FormInv, FlightInv, BusyWhileUnderWay
<1>3. \A g \in Flights : flight'[g] = IF g = f THEN d ELSE flight[g]
  BY DEF FormInv, ClientTyped
<1>4. RowStaysInSight'
  <2> SUFFICES ASSUME connected', form'.row.id # 0, form'.row.status \notin Queue!Terminal,
                      form'.offer # "Check again"
               PROVE  \E g \in Flights : flight'[g].pc # "free" /\ flight'[g].row.id = form'.row.id
    BY DEF RowStaysInSight
  <2>1. PICK g \in Flights : flight[g].pc # "free" /\ flight[g].row.id = form.row.id
    BY DEF FormInv, RowStaysInSight
  <2>2. g = f
    BY <1>1, <2>1
  <2>3. d.row.id = form'.row.id
    BY <2>1, <2>2
  <2>4. flight'[f] = d
    BY <1>3
  <2>5. flight'[f].pc # "free" /\ flight'[f].row.id = form'.row.id
    BY <2>3, <2>4
  <2> QED
    BY <2>5
<1>5. intents' \in 0..MaxIntents /\ connected' \in BOOLEAN /\ form' \in Form /\ action' = action
  BY DEF FormInv, ClientTyped
<1>6. LineStands(Books', form', connected')
  OBVIOUS
<1>7. d.pc # "free" => form'.busy /\ FlightStands(Books', d)
  BY <1>2
<1> QED
  BY <1>1, <1>4, <1>5, <1>6, <1>7, SlotMoves

\* The same, when the server has not moved.
LEMMA SlotAnswersOnly ==
    ASSUME FormInv, UNCHANGED <<action, server, connected, intents, form>>,
           NEW f \in Flights, flight[f].pc # "free",
           NEW d \in Flight, flight' = [flight EXCEPT ![f] = d],
           d.pc # "free", d.row = flight[f].row, FlightStands(Books, d)
    PROVE  FormInv'
<1>1. ServerInv'
  BY ServerLeft, PressesAreCounted, NoNewPress DEF FormInv
<1>2. Books' = Books
  BY BooksStay
<1>3. FlightStands(Books', d) /\ LineStands(Books', form, connected)
  BY <1>2 DEF FormInv
<1> QED
  BY <1>1, <1>3, SlotAnswers

\* What a call under way is known to be.
LEMMA UnderWay ==
    ASSUME FormInv, NEW f \in Flights, flight[f].pc # "free"
    PROVE  flight[f] \in Flight /\ FlightStands(Books, flight[f])
  BY DEF FormInv, FlightInv, ClientTyped

\* A refusal, or an answer that is lost.
LEMMA ErrorArrives ==
    ASSUME FormInv, NEW f \in Flights, UNCHANGED <<action, server, connected, intents, form>>,
           NEW e \in ApiErrors, NEW pc \in {"posted", "got"}, Reply(f, pc, e, NoRow),
           pc = "posted" => flight[f].pc = "posting"
                            \/ (flight[f].pc = "inserted" /\ e = "no answer"),
           pc = "got" => flight[f].pc = "getting"
    PROVE  FormInv'
<1> DEFINE d == Replied(flight[f], pc, e, NoRow)
<1>0. flight[f].pc # "free"
  OBVIOUS
<1>1. flight[f] \in Flight /\ FlightStands(Books, flight[f])
  BY <1>0, UnderWay
<1>2. /\ d \in Flight
      /\ d.pc = pc /\ d.answer.error = e /\ d.answer.row = NoRow
      /\ d.row = flight[f].row /\ d.intent = flight[f].intent /\ d.polls = flight[f].polls
      /\ d.failures = flight[f].failures /\ d.judge = flight[f].judge
      /\ d.heard = flight[f].heard
  <2>1. [error |-> e, row |-> NoRow] \in Answer
    BY NoRowTyped DEF Answer
  <2> QED
    BY <1>1, <2>1 DEF Flight, Replied
<1>3. flight' = [flight EXCEPT ![f] = d]
  BY DEF Reply, Replied
<1> HIDE DEF d
<1>4. TrueRow(Books, d.answer.row)
  BY <1>2, NoRowIsTrue
<1>5. FlightStands(Books, d)
  <2>1. CASE pc = "posted"
    BY <1>1, <1>2, <1>4, <2>1 DEF FlightStands, Watching, ApiErrors
  <2>2. CASE pc = "got"
    BY <1>1, <1>2, <1>4, <2>2 DEF FlightStands, Watching, ApiErrors, Watches, SaysNoConsumer
  <2> QED
    BY <2>1, <2>2
<1> QED
  BY <1>0, <1>2, <1>3, <1>5, SlotAnswersOnly
\* A row that is read when the call asks for it.
LEMMA RowArrives ==
    ASSUME FormInv, NEW f \in Flights, UNCHANGED <<action, server, connected, intents, form>>,
           NEW i \in Ids, NEW r \in BOOLEAN,
           NEW pc \in {"posted", "got"}, Reply(f, pc, "", ReadRow(i, r)),
           pc = "posted" => flight[f].pc = "inserted" /\ flight[f].answer.row.id = i /\ r,
           pc = "got" => flight[f].pc = "getting" /\ flight[f].row.id = i
    PROVE  FormInv'
<1> DEFINE d == Replied(flight[f], pc, "", ReadRow(i, r))
<1>0. flight[f].pc # "free"
  OBVIOUS
<1>1. flight[f] \in Flight /\ FlightStands(Books, flight[f])
  BY <1>0, UnderWay
<1>r. /\ ReadRow(i, r) \in Row /\ ReadRow(i, r).id = i /\ ReadRow(i, r).responding = r
      /\ TrueRow(Books, ReadRow(i, r))
  BY ReadIsTrue DEF FormInv
<1>2. /\ d \in Flight
      /\ d.pc = pc /\ d.answer.error = "" /\ d.answer.row = ReadRow(i, r)
      /\ d.row = flight[f].row /\ d.intent = flight[f].intent /\ d.polls = flight[f].polls
      /\ d.failures = flight[f].failures /\ d.judge = flight[f].judge
      /\ d.heard = flight[f].heard
  <2>1. [error |-> "", row |-> ReadRow(i, r)] \in Answer
    BY <1>r DEF Answer
  <2> QED
    BY <1>1, <2>1 DEF Flight, Replied
<1>3. flight' = [flight EXCEPT ![f] = d]
  BY DEF Reply, Replied
<1> HIDE DEF d
<1>4. TrueRow(Books, d.answer.row) /\ d.answer.row.id = i /\ d.answer.row.responding = r
  BY <1>2, <1>r
<1>5. FlightStands(Books, d)
  <2>1. CASE pc = "posted"
    BY <1>1, <1>2, <1>4, <2>1 DEF FlightStands, Watching
  <2>2. CASE pc = "got"
    BY <1>1, <1>2, <1>4, <2>2 DEF FlightStands, Watching, Watches, SaysNoConsumer
  <2> QED
    BY <2>1, <2>2
<1> QED
  BY <1>0, <1>2, <1>3, <1>5, SlotAnswersOnly

LEMMA IdsAreOrdered == \A i, j \in Ids : i < j => i # j
  OBVIOUS

\* The POST puts a row into the queue: the next one, and the only one that is due to this
\* press and not recorded as unsaved.
LEMMA RowInserted ==
    ASSUME FormInv, UNCHANGED <<action, connected, intents, form, reason, responding>>,
           NEW f \in Flights, flight[f].pc = "posting",
           NEW i \in Ids, NextId(i), Queue!Submit(i),
           intentOf' = [intentOf EXCEPT ![i] = flight[f].intent],
           Reply(f, "inserted", "", ReadRow(i, TRUE))
    PROVE  FormInv'
<1> DEFINE d == Replied(flight[f], "inserted", "", ReadRow(i, TRUE))
           n == flight[f].intent
<1>0. flight[f].pc # "free"
  OBVIOUS
<1>1. flight[f] \in Flight /\ FlightStands(Books, flight[f])
  BY <1>0, UnderWay
<1>r. /\ ReadRow(i, TRUE) \in Row /\ ReadRow(i, TRUE).id = i /\ ReadRow(i, TRUE).responding
      /\ ReadRow(i, TRUE).status = "absent" /\ ReadRow(i, TRUE).reason = ""
  <2>1. job[i].status = "absent"
    BY DEF Queue!Submit
  <2>2. reason[i] = ""
    BY <2>1 DEF FormInv, ServerInv, ServerStands, Queue!Terminal
  <2> QED
    BY <2>1, <2>2, ReadIsTrue DEF FormInv, ReadRow
<1>2. /\ d \in Flight
      /\ d.pc = "inserted" /\ d.answer.error = "" /\ d.answer.row = ReadRow(i, TRUE)
      /\ d.row = flight[f].row /\ d.intent = n /\ d.polls = flight[f].polls
      /\ d.failures = flight[f].failures
  <2>1. [error |-> "", row |-> ReadRow(i, TRUE)] \in Answer
    BY <1>r DEF Answer
  <2> QED
    BY <1>1, <2>1 DEF Flight, Replied
<1>3. flight' = [flight EXCEPT ![f] = d]
  BY DEF Reply, Replied
<1>4. n \in Intents \cup {0} /\ n <= intents /\ UnsavedBut(Books, n, 0)
      /\ d.polls = 0 /\ d.failures = 0
  BY <1>1, <1>2 DEF FlightStands, Flight, Books
<1> HIDE DEF d, n
<1>n. 0 \notin Ids
  OBVIOUS
<1>5. ServerTyped
  BY DEF FormInv, ServerInv
<1>6. /\ \A j \in Ids : job'[j].status = IF j = i THEN "pending" ELSE job[j].status
      /\ \A j \in Ids : job'[j].runs = job[j].runs
      /\ \A j \in Ids : intentOf'[j] = IF j = i THEN n ELSE intentOf[j]
      /\ job[i].status = "absent"
  BY <1>5 DEF ServerTyped, Queue!Submit, Queue!Job, n
<1>7. ServerTyped'
  <2>1. [job[i] EXCEPT !.status = "pending"] \in Queue!Job
    BY <1>5 DEF ServerTyped, Queue!Job, Queue!Statuses
  <2>2. job' \in [Ids -> Queue!Job]
    BY <1>5, <2>1 DEF ServerTyped, Queue!Submit
  <2>3. intentOf' \in [Ids -> Intents \cup {0}]
    BY <1>4, <1>5 DEF ServerTyped, n
  <2> QED
    BY <1>5, <2>2, <2>3 DEF ServerTyped
<1>8. \A j \in Ids : i < j => job[j].status = "absent" /\ intentOf[j] = 0
  BY <1>6 DEF FormInv, ServerInv, ServerStands
<1>9. ServerStands'
  <2>1. ASSUME NEW j \in Ids, NEW k \in Ids, j < k, job'[k].status # "absent"
        PROVE  job'[j].status # "absent"
    <3>1. CASE j = i
      BY <1>6, <3>1
    <3>2. CASE j # i /\ k = i
      BY <1>6, <2>1, <3>2 DEF NextId
    <3>3. CASE j # i /\ k # i
      <4>1. job[k].status # "absent"
        BY <1>6, <2>1, <3>3
      <4>2. job[j].status # "absent"
        BY <2>1, <4>1 DEF FormInv, ServerInv, ServerStands
      <4> QED
        BY <1>6, <3>3, <4>2
    <3> QED
      BY <3>1, <3>2, <3>3
  <2>2. ASSUME NEW j \in Ids
        PROVE  /\ intentOf'[j] # 0 => job'[j].status # "absent"
               /\ intentOf'[j] <= intents'
               /\ job'[j].status \notin Queue!Terminal => reason'[j] = ""
               /\ reason'[j] = "not online" => job'[j].runs = 0
    <3>1. /\ intentOf[j] # 0 => job[j].status # "absent"
          /\ intentOf[j] <= intents
          /\ job[j].status \notin Queue!Terminal => reason[j] = ""
          /\ reason[j] = "not online" => job[j].runs = 0
      BY DEF FormInv, ServerInv, ServerStands
    <3>2. CASE j = i
      BY <1>4, <1>6, <3>1, <3>2 DEF Queue!Terminal
    <3>3. CASE j # i
      BY <1>6, <3>1, <3>3
    <3> QED
      BY <3>2, <3>3
  <2> QED
    BY <2>1, <2>2 DEF ServerStands
<1>10. OneRowPerIntent'
  <2> SUFFICES ASSUME NEW j \in Ids, NEW k \in Ids, j < k, intentOf'[j] # 0,
                      intentOf'[j] = intentOf'[k]
               PROVE  reason[j] = "not yet persisted"
    BY DEF OneRowPerIntent
  <2>1. CASE k = i
    <3>1. j # i
      BY <2>1, IdsAreOrdered, Zenon
    <3>2. intentOf[j] = n /\ n # 0
      BY <1>6, <2>1, <3>1
    <3> QED
      BY <1>4, <1>n, <3>2 DEF UnsavedBut, Unsaved, Books
  <2>2. CASE j = i
    <3>1. k # i
      BY <2>2, IdsAreOrdered, Zenon
    <3>2. intentOf[k] = 0
      BY <1>8, <2>2, Zenon
    <3> QED
      BY <1>6, <3>1, <3>2
  <2>3. CASE j # i /\ k # i
    <3>1. intentOf[j] # 0 /\ intentOf[j] = intentOf[k]
      BY <1>6, <2>3
    <3>2. OneRowPerIntent
      BY DEF FormInv, ServerInv
    <3> QED
      BY <3>1, <3>2 DEF OneRowPerIntent
  <2> QED
    BY <2>1, <2>2, <2>3
<1>11. ASSUME NEW r, TrueRow(Books, r) PROVE TrueRow(Books', r)
  BY <1>6, <1>11 DEF TrueRow, Books, Queue!Terminal
<1>12. UnsavedBut(Books', n, i)
  <2> SUFFICES ASSUME NEW j \in Ids, n # 0, intentOf'[j] = n, j # i
               PROVE  job'[j].status = "failed" /\ reason'[j] = "not yet persisted"
    BY DEF UnsavedBut, Unsaved, Books
  <2>1. intentOf[j] = n /\ job'[j].status = job[j].status /\ j # 0
    BY <1>6, <1>n
  <2>2. job[j].status = "failed" /\ reason[j] = "not yet persisted"
    BY <1>4, <2>1 DEF UnsavedBut, Unsaved, Books
  <2> QED
    BY <2>1, <2>2
<1>13. FlightStands(Books', d)
  <2>1. TrueRow(Books', d.row)
    BY <1>1, <1>2, <1>11 DEF FlightStands
  <2>2. TrueRow(Books', d.answer.row)
    BY <1>2, <1>r DEF TrueRow, Queue!Terminal
  <2>3. d.intent <= Books'.intents
    BY <1>2, <1>4 DEF Books
  <2> QED
    BY <1>2, <1>r, <1>4, <1>12, <2>1, <2>2, <2>3 DEF FlightStands, Watching
<1>14. LineStands(Books', form, connected)
  <2>1. form.busy
    BY DEF FormInv, FlightInv, BusyWhileUnderWay
  <2>2. LineStands(Books, form, connected)
    BY DEF FormInv
  <2>3. TrueRow(Books', form.row) /\ form.intent <= Books'.intents
    BY <1>11, <2>2 DEF LineStands, Books
  <2> QED
    BY <2>1, <2>2, <2>3 DEF LineStands
<1>15. ServerInv' /\ d.pc # "free" /\ d.row = flight[f].row
  BY <1>2, <1>7, <1>9, <1>10 DEF ServerInv
<1> QED
  BY <1>0, <1>2, <1>3, <1>13, <1>14, <1>15, SlotAnswers

LEMMA NetworkKeeps ==
    ASSUME FormInv, NEW f \in Flights, Network(f)
    PROVE  FormInv'
<1>1. CASE HandlePost(f)
  <2>1. flight[f].pc = "posting" /\ UNCHANGED <<action, connected, intents, form>>
    BY <1>1 DEF HandlePost, Network
  <2>2. CASE (\E e \in ApiErrors : Reply(f, "posted", e, NoRow)) /\ UNCHANGED server
    BY <2>1, <2>2, ErrorArrives
  <2>3. CASE \E i \in Ids :
               /\ responding /\ NextId(i) /\ Queue!Submit(i)
               /\ intentOf' = [intentOf EXCEPT ![i] = flight[f].intent]
               /\ Reply(f, "inserted", "", ReadRow(i, TRUE))
               /\ UNCHANGED <<reason, responding>>
    BY <2>1, <2>3, RowInserted
  <2> QED
    BY <1>1, <2>2, <2>3 DEF HandlePost
<1>2. CASE HandleInserted(f)
  <2>1. /\ flight[f].pc = "inserted"
        /\ UNCHANGED <<action, server, connected, intents, form>>
    BY <1>2 DEF HandleInserted, Network
  <2>2. CASE Reply(f, "posted", "", ReadRow(flight[f].answer.row.id, TRUE))
    <3>1. flight[f].answer.row.id \in Ids
      BY <2>1, UnderWay DEF FlightStands
    <3> QED
      BY <2>1, <2>2, <3>1, RowArrives
  <2>3. CASE Reply(f, "posted", "no answer", NoRow)
    BY <2>1, <2>3, ErrorArrives DEF ApiErrors
  <2> QED
    BY <1>2, <2>2, <2>3 DEF HandleInserted
<1>3. CASE HandleGet(f)
  <2>1. /\ flight[f].pc = "getting"
        /\ UNCHANGED <<action, server, connected, intents, form>>
    BY <1>3 DEF HandleGet, Network
  <2>2. CASE Reply(f, "got", "", ReadRow(flight[f].row.id, responding))
    <3>1. flight[f].row.id \in Ids
      BY <2>1, UnderWay DEF FlightStands, Watching, Watches
    <3>2. responding \in BOOLEAN
      BY DEF FormInv, ServerInv, ServerTyped
    <3> QED
      BY <2>1, <2>2, <3>1, <3>2, RowArrives
  <2>3. CASE \E e \in ApiErrors : Reply(f, "got", e, NoRow)
    BY <2>1, <2>3, ErrorArrives
  <2> QED
    BY <1>3, <2>2, <2>3 DEF HandleGet
<1> QED
  BY <1>1, <1>2, <1>3 DEF Network
-----------------------------------------------------------------------------
(***************************************************************************)
(* The client.                                                             *)
(***************************************************************************)

\* The stops after which a row has not been seen to end.
Unseen == {"unwatchable", "lost-contact", "no-consumer", "timeout"}

\* The words for a row's end are used of nothing else.
LEMMA KindTells ==
    ASSUME NEW row, NEW stop \in Stops
    PROVE  LET k == Kind(row, stop) IN
           /\ k \in Kinds /\ k # "pending"
           /\ k = "done" => row.status = "executed"
           /\ k = "refused" => row.status # "executed" /\ row.reason = "not online"
           /\ k = "retry" => row.status # "executed" /\ row.reason = "not yet persisted"
           /\ k = "failed" => row.status # "executed"
           /\ k \in {"stopped", "lost-contact"} <=> stop \in Unseen
<1>1. /\ Verdict(row) \in {"done", "refused", "retry", "failed"}
      /\ Verdict(row) = "done" => row.status = "executed"
      /\ Verdict(row) # "done" => row.status # "executed"
      /\ Verdict(row) = "refused" => row.reason = "not online"
      /\ Verdict(row) = "retry" => row.reason = "not yet persisted"
  BY DEF Verdict
<1>2. CASE stop \in {"unwatchable", "lost-contact"}
  BY <1>2 DEF Kind, Kinds, Unseen
<1>3. CASE stop \in {"no-consumer", "timeout"}
  BY <1>3 DEF Kind, Kinds, Unseen
<1>4. CASE stop \in {"", "verdict", "detached"}
  <2>1. Kind(row, stop) = Verdict(row)
    BY <1>4 DEF Kind
  <2>2. stop \notin Unseen
    BY <1>4 DEF Unseen
  <2> QED
    BY <1>1, <2>1, <2>2 DEF Kinds
<1> QED
  BY <1>2, <1>3, <1>4 DEF Stops

\* A retry is offered for a kind of its own, another look for the waits that were cut off.
LEMMA OfferTells ==
    ASSUME NEW k
    PROVE  /\ Offer(k) \in Offers
           /\ Offer(k) = "Retry" <=> k = "retry"
           /\ Offer(k) = "Check again" <=> k \in {"stopped", "lost-contact"}
<1>1. CASE k = "retry"
  BY <1>1 DEF Offer, Offers
<1>2. CASE k \in {"stopped", "lost-contact"}
  BY <1>2 DEF Offer, Offers
<1>3. CASE k \notin {"retry", "stopped", "lost-contact"}
  BY <1>3 DEF Offer, Offers
<1> QED
  BY <1>1, <1>2, <1>3

\* The line that Settle leaves for a wait d that ended with stop.
Line(d, stop) ==
    [busy |-> FALSE, kind |-> Kind(d.row, stop), offer |-> Offer(Kind(d.row, stop)),
     stopped |-> stop, intent |-> d.intent, row |-> d.row, heard |-> d.heard]

\* What is known of a wait that ends.
Ends(b, d, stop, here) ==
    /\ d \in Flight /\ stop \in Stops /\ stop # ""
    /\ d.intent <= b.intents /\ TrueRow(b, d.row) /\ d.row.id \in Ids
    /\ UnsavedBut(b, d.intent, d.row.id)
    /\ stop = "verdict" => d.row.status \in Queue!Terminal
    /\ stop = "detached" => ~here
    /\ stop = "no-consumer" => d.heard

\* The line stands once the wait has ended.
LEMMA EndedLineStands ==
    ASSUME NEW b, NEW d, NEW stop, NEW here \in BOOLEAN, Ends(b, d, stop, here)
    PROVE  /\ Line(d, stop) \in Form
           /\ LineStands(b, Line(d, stop), here)
           /\ here /\ d.row.status \notin Queue!Terminal
                => Line(d, stop).offer = "Check again"
<1> DEFINE k == Kind(d.row, stop)
           o == Line(d, stop)
<1>1. d \in Flight /\ stop \in Stops
  BY DEF Ends
<1>2. /\ k \in Kinds /\ k # "pending"
      /\ k = "done" => d.row.status = "executed"
      /\ k = "refused" => d.row.status # "executed" /\ d.row.reason = "not online"
      /\ k = "retry" => d.row.status # "executed" /\ d.row.reason = "not yet persisted"
      /\ k = "failed" => d.row.status # "executed"
      /\ k \in {"stopped", "lost-contact"} <=> stop \in Unseen
  BY <1>1, KindTells
<1>3. /\ Offer(k) \in Offers
      /\ Offer(k) = "Retry" <=> k = "retry"
      /\ Offer(k) = "Check again" <=> k \in {"stopped", "lost-contact"}
  BY OfferTells
<1> HIDE DEF k
<1>4. /\ o.busy = FALSE /\ o.kind = k /\ o.offer = Offer(k) /\ o.stopped = stop
      /\ o.intent = d.intent /\ o.row = d.row /\ o.heard = d.heard
  BY DEF Line, k
<1>5. o \in Form
  BY <1>1, <1>2, <1>3 DEF Line, k, Form, Flight
<1>6. /\ TrueRow(b, d.row) /\ d.intent <= b.intents /\ d.row.id \in Ids
      /\ UnsavedBut(b, d.intent, d.row.id)
      /\ stop = "verdict" => d.row.status \in Queue!Terminal
      /\ stop = "detached" => ~here
      /\ stop = "no-consumer" => d.heard
      /\ stop # "" /\ stop \in Stops
  BY DEF Ends
<1>7. stop \in Unseen \/ stop = "verdict" \/ stop = "detached"
  BY <1>6 DEF Unseen, Stops
<1>8. here /\ d.row.status \notin Queue!Terminal => Offer(k) = "Check again"
  BY <1>2, <1>3, <1>6, <1>7
<1>9. k = "refused" => d.row.status = "failed"
  BY <1>2, <1>6 DEF TrueRow, Queue!Terminal
<1>10. ASSUME here, k \in {"refused", "retry", "failed"}
       PROVE  AllFailed(b, o)
  <2>1. d.row.status = "failed"
    BY <1>2, <1>6, <1>7, <1>10 DEF Queue!Terminal
  <2>2. b.job[d.row.id].status = "failed"
    BY <1>6, <2>1 DEF TrueRow, Queue!Terminal
  <2> QED
    BY <1>4, <1>6, <2>2 DEF AllFailed, UnsavedBut, Unsaved
<1>11. ASSUME k = "retry" PROVE UnsavedBut(b, d.intent, 0)
  <2>1. d.row.status = "failed" /\ d.row.reason = "not yet persisted"
    BY <1>2, <1>6, <1>11 DEF TrueRow, Queue!Terminal
  <2>2. Unsaved(b, d.row.id)
    BY <1>6, <2>1 DEF TrueRow, Queue!Terminal, Unsaved
  <2> QED
    BY <1>6, <2>2 DEF UnsavedBut
<1> HIDE DEF o
<1>12. LineStands(b, o, here)
  BY <1>2, <1>3, <1>4, <1>6, <1>9, <1>10, <1>11, Zenon DEF LineStands
<1> QED
  BY <1>4, <1>5, <1>8, <1>12 DEF o

\* The end of a wait keeps the invariant.
LEMMA SettleKeeps ==
    ASSUME FormInv, UNCHANGED <<action, server, intents>>, connected' \in BOOLEAN,
           NEW f \in Flights, \A g \in Flights : g # f => flight[g].pc = "free",
           NEW d, NEW stop, Ends(Books, d, stop, connected'), Settle(f, d, stop)
    PROVE  FormInv'
<1>1. ServerInv' /\ Books' = Books
  BY ServerLeft, PressesAreCounted, NoNewPress, BooksStay DEF FormInv
<1>2. form' = Line(d, stop) /\ flight' = [flight EXCEPT ![f] = NoFlight]
  BY DEF Settle, Line, Free
<1>3. /\ form' \in Form /\ LineStands(Books', form', connected')
      /\ connected' /\ d.row.status \notin Queue!Terminal => form'.offer = "Check again"
  BY <1>1, <1>2, EndedLineStands
<1>4. form'.row = d.row
  BY <1>2 DEF Line
<1>5. RowStaysInSight'
  BY <1>3, <1>4 DEF RowStaysInSight
<1>6. NoFlight \in Flight /\ NoFlight.pc = "free" /\ intents' \in 0..MaxIntents
  BY NoRowTyped DEF NoFlight, FormInv, ClientTyped
<1> QED
  BY <1>1, <1>2, <1>3, <1>5, <1>6, SlotMoves
\* A line without a button stands when the row it shows is true, and an error that says
\* nothing was done is shown of a press no row of which is under way.
LEMMA PlainLineStands ==
    ASSUME NEW b, NEW o, NEW here, o.offer = "none", o.stopped = "",
           o.kind \in {"pending", "notice", "failed", "unsure"},
           TrueRow(b, o.row), o.intent <= b.intents, o.busy => o.kind = "pending",
           o.kind = "failed" => UnsavedBut(b, o.intent, 0)
    PROVE  LineStands(b, o, here)
<1>1. o.kind = "failed" => AllFailed(b, o)
  BY DEF AllFailed, UnsavedBut, Unsaved
<1> QED
  BY <1>1 DEF LineStands

\* What is known of a wait that goes on from the top of the loop.
Laps(b, d) ==
    /\ d \in Flight /\ d.intent <= b.intents
    /\ TrueRow(b, d.row) /\ TrueRow(b, d.answer.row)
    /\ d.row.id \in Ids /\ UnsavedBut(b, d.intent, d.row.id)
    /\ d.failures < 3 /\ (SaysNoConsumer(d) => d.heard)

\* A lap of the loop keeps the invariant, whether the wait ends or goes on.
LEMMA LapKeeps ==
    ASSUME FormInv, UNCHANGED <<action, server, intents, connected>>,
           NEW f \in Flights, \A g \in Flights : g # f => flight[g].pc = "free",
           NEW d, Laps(Books, d), Lap(f, d)
    PROVE  FormInv'
<1>0. connected \in BOOLEAN /\ connected' = connected
  BY DEF FormInv, ClientTyped
<1>1. /\ d \in Flight /\ d.intent <= Books.intents
      /\ TrueRow(Books, d.row) /\ TrueRow(Books, d.answer.row)
      /\ d.row.id \in Ids /\ UnsavedBut(Books, d.intent, d.row.id)
      /\ d.failures < 3 /\ (SaysNoConsumer(d) => d.heard)
  BY DEF Laps
<1>2. CASE d.row.status \in Queue!Terminal /\ Settle(f, d, "verdict")
  <2>1. Ends(Books, d, "verdict", connected')
    BY <1>1, <1>2 DEF Ends, Stops
  <2> QED
    BY <1>0, <1>2, <2>1, SettleKeeps
<1>3. CASE ~connected /\ Settle(f, d, "detached")
  <2>1. Ends(Books, d, "detached", connected')
    BY <1>0, <1>1, <1>3 DEF Ends, Stops
  <2> QED
    BY <1>0, <1>3, <2>1, SettleKeeps
<1>4. CASE SaysNoConsumer(d) /\ Settle(f, d, "no-consumer")
  <2>1. Ends(Books, d, "no-consumer", connected')
    BY <1>1, <1>4 DEF Ends, Stops
  <2> QED
    BY <1>0, <1>4, <2>1, SettleKeeps
<1>5. CASE Settle(f, d, "timeout")
  <2>1. Ends(Books, d, "timeout", connected')
    BY <1>1 DEF Ends, Stops
  <2> QED
    BY <1>0, <1>5, <2>1, SettleKeeps
<1>6. CASE /\ ~RunOut(d)
           /\ flight' = [flight EXCEPT ![f] = [d EXCEPT !.pc = "sleeping"]]
           /\ Say(TRUE, "pending", d.intent, d.row)
  <2> DEFINE e == [d EXCEPT !.pc = "sleeping"]
  <2>1. /\ e \in Flight /\ e.pc = "sleeping" /\ e.row = d.row /\ e.intent = d.intent
        /\ e.answer = d.answer /\ e.polls = d.polls /\ e.failures = d.failures
        /\ e.judge = d.judge /\ e.heard = d.heard
    BY <1>1 DEF Flight
  <2>2. flight' = [flight EXCEPT ![f] = e]
    BY <1>6
  <2> HIDE DEF e
  <2>3. e.polls < MaxPolls
    BY <1>1, <1>6, <2>1 DEF RunOut, Flight
  <2>4. FlightStands(Books, e)
    BY <1>1, <2>1, <2>3 DEF FlightStands, Watching, Watches, SaysNoConsumer
  <2>5. d.intent \in Intents \cup {0} /\ d.row \in Row
    BY <1>1 DEF Flight
  <2>6. /\ form' \in Form /\ form'.busy /\ form'.kind = "pending" /\ form'.offer = "none"
        /\ form'.stopped = "" /\ form'.intent = d.intent /\ form'.row = d.row
    BY <1>6, <2>5 DEF Say, Form, Kinds, Offers, Stops
  <2>7. LineStands(Books, form', connected')
    BY <1>1, <2>6, PlainLineStands
  <2>8. ServerInv' /\ Books' = Books
    BY ServerLeft, PressesAreCounted, NoNewPress, BooksStay DEF FormInv
  <2>9. form'.busy /\ form'.row = e.row
    BY <2>1, <2>6
  <2>10. flight'[f] = e
    BY <2>2 DEF FormInv, ClientTyped
  <2>11. RowStaysInSight'
    BY <2>1, <2>9, <2>10 DEF RowStaysInSight
  <2>12. intents' \in 0..MaxIntents /\ connected' \in BOOLEAN
    BY <1>0 DEF FormInv, ClientTyped
  <2> QED
    BY <2>1, <2>2, <2>4, <2>6, <2>7, <2>8, <2>9, <2>11, <2>12, SlotMoves
<1> QED
  BY <1>2, <1>3, <1>4, <1>5, <1>6 DEF Lap
\* The sleep is over: what was known of the row still is.
LEMMA WakeKeeps ==
    ASSUME FormInv, NEW f \in Flights, Wake(f), UNCHANGED action
    PROVE  FormInv'
<1> DEFINE d == [flight[f] EXCEPT !.pc = "getting"]
<1>1. /\ flight[f].pc = "sleeping" /\ flight' = [flight EXCEPT ![f] = d]
      /\ UNCHANGED <<action, server, connected, intents, form>>
  BY DEF Wake
<1>2. flight[f] \in Flight /\ FlightStands(Books, flight[f]) /\ flight[f].pc # "free"
  BY <1>1, UnderWay
<1>3. /\ d \in Flight /\ d.pc = "getting" /\ d.row = flight[f].row
      /\ d.intent = flight[f].intent /\ d.answer = flight[f].answer
      /\ d.polls = flight[f].polls /\ d.failures = flight[f].failures
      /\ d.judge = flight[f].judge /\ d.heard = flight[f].heard
  BY <1>2 DEF Flight
<1> HIDE DEF d
<1>4. FlightStands(Books, d)
  BY <1>1, <1>2, <1>3 DEF FlightStands, Watching, Watches, SaysNoConsumer
<1> QED
  BY <1>1, <1>2, <1>3, <1>4, SlotAnswersOnly

\* An error of the POST ends the call; the line says that nothing was done only when no row
\* of this press is under way.
LEMMA PostErrorKeeps ==
    ASSUME FormInv, UNCHANGED <<action, server, intents>>, NEW f \in Flights,
           flight[f].pc = "posted", flight[f].answer.error # "",
           Say(FALSE, PostErrorKind(flight[f].answer.error), flight[f].intent, NoRow),
           Free(f), connected' \in BOOLEAN
    PROVE  FormInv'
<1> DEFINE d == flight[f]
<1>1. d \in Flight /\ FlightStands(Books, d) /\ \A g \in Flights : g # f => flight[g].pc = "free"
  BY UnderWay, OthersAreFree
<1>2. d.answer.error \in {"refused", "unauthorized", "no answer"} /\ d.intent \in Intents \cup {0}
  BY <1>1 DEF Flight, Answer, ApiErrors
<1>3. PICK kind \in {"failed", "unsure"} : kind = PostErrorKind(d.answer.error)
  BY DEF PostErrorKind
<1>4. /\ form' \in Form /\ ~form'.busy /\ form'.kind = kind /\ form'.offer = "none"
      /\ form'.stopped = "" /\ form'.intent = d.intent /\ form'.row = NoRow
  BY <1>2, <1>3, NoRowTyped DEF Say, Form, Kinds, Offers, Stops
<1>5. kind = "failed" => UnsavedBut(Books, d.intent, 0)
  BY <1>1, <1>2, <1>3 DEF FlightStands, PostErrorKind
<1>6. d.intent <= Books.intents /\ TrueRow(Books, NoRow)
  BY <1>1, NoRowIsTrue DEF FlightStands
<1> HIDE DEF d
<1>7. LineStands(Books, form', connected')
  BY <1>4, <1>5, <1>6, PlainLineStands
<1>10. ServerInv' /\ Books' = Books
  BY ServerLeft, PressesAreCounted, NoNewPress, BooksStay DEF FormInv
<1>11. form' \in Form /\ LineStands(Books', form', connected')
  BY <1>4, <1>7, <1>10
<1>12. form'.row.id = 0
  BY <1>4, NoRowIsNone
<1>13. RowStaysInSight'
  BY <1>12 DEF RowStaysInSight
<1>14. /\ NoFlight \in Flight /\ NoFlight.pc = "free" /\ intents' \in 0..MaxIntents
       /\ flight' = [flight EXCEPT ![f] = NoFlight]
  BY NoRowTyped DEF NoFlight, Free, FormInv, ClientTyped
<1> QED
  BY <1>1, <1>10, <1>11, <1>13, <1>14, SlotMoves

\* What a call knows after an answer.
LEMMA ReadsTyped ==
    ASSUME NEW d \in Flight, d.answer.row \in Row, d.polls + 1 \in 0..MaxPolls
    PROVE  /\ Reads(d) \in Flight /\ Reads(d).row = d.answer.row /\ Reads(d).answer = NoAnswer
           /\ Reads(d).intent = d.intent /\ Reads(d).failures = 0
           /\ Reads(d).heard = (d.heard \/ ~d.answer.row.responding)
<1>1. PICK h \in BOOLEAN : h = (d.heard \/ ~d.answer.row.responding)
  OBVIOUS
<1>2. PICK j \in BOOLEAN : j = TRUE
  OBVIOUS
<1>3. Reads(d) = [d EXCEPT !.row = d.answer.row, !.answer = NoAnswer, !.failures = 0,
                           !.judge = j, !.polls = d.polls + 1, !.heard = h]
  BY <1>1, <1>2 DEF Reads, Flight
<1>p. PICK p \in 0..MaxPolls : p = d.polls + 1
  OBVIOUS
<1>4. Reads(d) \in Flight
  <2>1. Reads(d) = [pc |-> d.pc, intent |-> d.intent, row |-> d.answer.row,
                    answer |-> NoAnswer, failures |-> 0, polls |-> p, judge |-> j,
                    heard |-> h]
    BY <1>3, <1>p DEF Flight
  <2>2. d.pc \in {"free", "posting", "inserted", "posted", "sleeping", "getting", "got"}
        /\ d.intent \in Intents \cup {0}
    BY DEF Flight
  <2> QED
    BY <2>1, <2>2, NoRowTyped DEF Flight
<1>5. /\ Reads(d).row = d.answer.row /\ Reads(d).answer = NoAnswer
      /\ Reads(d).failures = 0 /\ Reads(d).heard = h /\ Reads(d).intent = d.intent
  BY <1>3 DEF Flight
<1> QED
  BY <1>1, <1>4, <1>5

LEMMA ReceivePostKeeps ==
    ASSUME FormInv, NEW f \in Flights, ReceivePost(f), UNCHANGED action
    PROVE  FormInv'
<1> DEFINE d == flight[f]
           e == [d EXCEPT !.row = d.answer.row, !.answer = NoAnswer, !.judge = TRUE]
<1>1. d.pc = "posted" /\ UNCHANGED <<server, intents>>
  BY DEF ReceivePost
<1>2. d \in Flight /\ FlightStands(Books, d) /\ \A g \in Flights : g # f => flight[g].pc = "free"
  BY <1>1, UnderWay, OthersAreFree
<1>3. CASE d.answer.error = "" /\ Lap(f, e) /\ UNCHANGED connected
  <2>1. d.answer.row \in Row
    BY <1>2 DEF Flight, Answer
  <2>2. /\ e \in Flight /\ e.row = d.answer.row /\ e.answer = NoAnswer /\ e.intent = d.intent
        /\ e.failures = d.failures
    BY <1>2, <2>1, NoRowTyped DEF Flight
  <2>3. /\ d.answer.row.id \in Ids /\ UnsavedBut(Books, d.intent, d.answer.row.id)
        /\ d.answer.row.responding /\ d.failures = 0
        /\ TrueRow(Books, d.answer.row) /\ d.intent <= Books.intents
    BY <1>1, <1>2, <1>3 DEF FlightStands
  <2> HIDE DEF e
  <2>4. TrueRow(Books, e.answer.row)
    BY <2>2, NoAnswerIsTrue
  <2>5. Laps(Books, e)
    BY <2>2, <2>3, <2>4 DEF Laps, SaysNoConsumer
  <2> QED
    BY <1>1, <1>2, <1>3, <2>5, LapKeeps
<1>4. CASE /\ d.answer.error # ""
           /\ Say(FALSE, PostErrorKind(d.answer.error), d.intent, NoRow)
           /\ Free(f)
           /\ IF d.answer.error = "unauthorized" THEN MayEndSession ELSE UNCHANGED connected
  <2>1. connected' \in BOOLEAN
    BY <1>4 DEF MayEndSession, FormInv, ClientTyped
  <2> QED
    BY <1>1, <1>4, <2>1, PostErrorKeeps
<1> QED
  BY <1>3, <1>4 DEF ReceivePost

LEMMA ReceiveGetKeeps ==
    ASSUME FormInv, NEW f \in Flights, ReceiveGet(f), UNCHANGED action
    PROVE  FormInv'
<1> DEFINE d == flight[f]
<1>1. d.pc = "got" /\ UNCHANGED <<server, intents>>
  BY DEF ReceiveGet
<1>2. d \in Flight /\ FlightStands(Books, d) /\ \A g \in Flights : g # f => flight[g].pc = "free"
  BY <1>1, UnderWay, OthersAreFree
<1>3. /\ TrueRow(Books, d.row) /\ TrueRow(Books, d.answer.row) /\ d.intent <= Books.intents
      /\ d.row.id \in Ids /\ UnsavedBut(Books, d.intent, d.row.id)
      /\ d.polls < MaxPolls /\ d.failures < 3
      /\ SaysNoConsumer(d) => d.heard
  BY <1>1, <1>2 DEF FlightStands, Watching, Watches
<1>4. d.failures \in 0..3 /\ d.polls \in 0..MaxPolls /\ connected \in BOOLEAN
  BY <1>2 DEF Flight, FormInv, ClientTyped
<1>5. CASE d.answer.error = "" /\ Lap(f, Reads(d)) /\ UNCHANGED connected
  <2>1. d.answer.row \in Row /\ d.answer.row.id = d.row.id /\ d.answer.row.responding \in BOOLEAN
    BY <1>1, <1>2, <1>5 DEF Flight, Answer, FlightStands, Row
  <2>2. d.polls + 1 \in 0..MaxPolls
    BY <1>3, <1>4
  <2>3. /\ Reads(d) \in Flight /\ Reads(d).row = d.answer.row /\ Reads(d).answer = NoAnswer
        /\ Reads(d).intent = d.intent /\ Reads(d).failures = 0
        /\ Reads(d).heard = (d.heard \/ ~d.answer.row.responding)
    BY <1>2, <2>1, <2>2, ReadsTyped
  <2>4. TrueRow(Books, Reads(d).answer.row)
    BY <2>3, NoAnswerIsTrue
  <2>5. SaysNoConsumer(Reads(d)) => Reads(d).heard
    BY <2>3 DEF SaysNoConsumer
  <2>6. Laps(Books, Reads(d))
    BY <1>3, <2>1, <2>3, <2>4, <2>5 DEF Laps
  <2> QED
    BY <1>1, <1>2, <1>5, <2>6, LapKeeps
<1>6. CASE d.failures < 2 /\ Lap(f, Misses(d)) /\ UNCHANGED connected
  <2>1. d.polls + 1 \in 0..MaxPolls /\ d.failures + 1 \in 0..3 /\ d.failures + 1 < 3
    BY <1>3, <1>4, <1>6
  <2>2. /\ Misses(d) \in Flight /\ Misses(d).row = d.row /\ Misses(d).answer = NoAnswer
        /\ Misses(d).intent = d.intent /\ Misses(d).failures = d.failures + 1
        /\ Misses(d).judge = d.judge /\ Misses(d).heard = d.heard
    BY <1>2, <2>1, NoRowTyped DEF Misses, Flight
  <2>3. TrueRow(Books, Misses(d).answer.row)
    BY <2>2, NoAnswerIsTrue
  <2>4. SaysNoConsumer(Misses(d)) => Misses(d).heard
    BY <1>3, <2>2 DEF SaysNoConsumer
  <2>5. Laps(Books, Misses(d))
    BY <1>3, <2>1, <2>2, <2>3, <2>4 DEF Laps
  <2> QED
    BY <1>1, <1>2, <1>6, <2>5, LapKeeps
<1>7. CASE Settle(f, d, "lost-contact") /\ connected' \in BOOLEAN
  <2>1. Ends(Books, d, "lost-contact", connected')
    BY <1>2, <1>3 DEF Ends, Stops
  <2> QED
    BY <1>1, <1>2, <1>7, <2>1, SettleKeeps
<1>8. CASE Settle(f, d, "unwatchable") /\ connected' \in BOOLEAN
  <2>1. Ends(Books, d, "unwatchable", connected')
    BY <1>2, <1>3 DEF Ends, Stops
  <2> QED
    BY <1>1, <1>2, <1>8, <2>1, SettleKeeps
<1> QED
  BY <1>4, <1>5, <1>6, <1>7, <1>8 DEF ReceiveGet, MayEndSession, FormInv
-----------------------------------------------------------------------------
(***************************************************************************)
(* The operator.                                                           *)
(***************************************************************************)

\* A call for press n starts when no row of that press is under way or has been carried out.
LEMMA SubmitKeeps ==
    ASSUME FormInv, UNCHANGED <<action, server, connected>>, ~form.busy,
           intents' \in 0..MaxIntents, intents <= intents',
           NEW f \in Flights, NEW n \in Intents \cup {0}, n <= intents',
           UnsavedBut(Books, n, 0), SubmitWrite(f, n)
    PROVE  FormInv'
<1> DEFINE d == [NoFlight EXCEPT !.pc = "posting", !.intent = n]
<1>1. /\ d \in Flight /\ d.pc = "posting" /\ d.intent = n /\ d.row = NoRow
      /\ d.answer = NoAnswer /\ d.polls = 0 /\ d.failures = 0
  BY NoRowTyped DEF NoFlight, Flight
<1>2. flight' = [flight EXCEPT ![f] = d]
  BY DEF SubmitWrite
<1> HIDE DEF d
<1>3. intents \in Nat /\ intents' \in Nat
  BY DEF FormInv, ClientTyped
<1>4. ServerInv' /\ Later(Books, Books')
  BY <1>3, ServerLeft DEF FormInv
<1>5. UnsavedBut(Books', n, 0) /\ n <= Books'.intents
  BY <1>4, RowsLast DEF Books
<1>6. FlightStands(Books', d)
  BY <1>1, <1>5, NoRowIsTrue, NoAnswerIsTrue DEF FlightStands, Watching
<1>7. /\ form' \in Form /\ form'.busy /\ form'.kind = "pending" /\ form'.offer = "none"
      /\ form'.stopped = "" /\ form'.intent = n /\ form'.row = NoRow
  BY NoRowTyped DEF SubmitWrite, Say, Form, Kinds, Offers, Stops
<1>8. LineStands(Books', form', connected')
  BY <1>5, <1>7, NoRowIsTrue, PlainLineStands
<1>9. RowStaysInSight'
  BY <1>7, NoRowIsNone DEF RowStaysInSight
<1>10. \A g \in Flights : g # f => flight[g].pc = "free"
  BY OthersAreFree
<1>11. connected' \in BOOLEAN
  BY DEF FormInv, ClientTyped
<1> QED
  BY <1>1, <1>2, <1>4, <1>6, <1>7, <1>8, <1>9, <1>10, <1>11, SlotMoves

\* No row is due to a press that has not been made.
LEMMA PressKeeps ==
    ASSUME FormInv, NEW f \in Flights, Press(f), UNCHANGED action
    PROVE  FormInv'
<1>1. /\ ~form.busy /\ UNCHANGED <<server, connected>> /\ intents < MaxIntents
      /\ intents' = intents + 1 /\ SubmitWrite(f, intents + 1)
  BY DEF Press, MayStart
<1>2. intents \in Nat /\ intents + 1 \in Intents \cup {0} /\ intents' \in 0..MaxIntents
      /\ intents <= intents' /\ intents + 1 <= intents'
  BY <1>1 DEF FormInv, ClientTyped, Intents
<1>3. UnsavedBut(Books, intents + 1, 0)
  <2> SUFFICES ASSUME NEW i \in Ids, intentOf[i] = intents + 1 PROVE FALSE
    BY DEF UnsavedBut, Books
  <2>1. intentOf[i] <= intents
    BY DEF FormInv, ServerInv, ServerStands
  <2> QED
    BY <1>2, <2>1
<1> DEFINE n == intents + 1
<1>4. SubmitWrite(f, n) /\ UnsavedBut(Books, n, 0) /\ n \in Intents \cup {0} /\ n <= intents'
  BY <1>1, <1>2, <1>3
<1> HIDE DEF n
<1> QED
  BY <1>1, <1>2, <1>4, SubmitKeeps

LEMMA RetryKeeps ==
    ASSUME FormInv, NEW f \in Flights, Retry(f), UNCHANGED action
    PROVE  FormInv'
<1>1. /\ ~form.busy /\ UNCHANGED <<server, connected, intents>> /\ form.offer = "Retry"
      /\ SubmitWrite(f, form.intent)
  BY DEF Retry, MayStart
<1>2. UnsavedBut(Books, form.intent, 0)
  BY <1>1 DEF FormInv, LineStands
<1>3. form.intent <= intents /\ form.intent \in Intents \cup {0}
  BY DEF FormInv, LineStands, Books, ClientTyped, Form
<1>4. intents' \in 0..MaxIntents /\ intents <= intents' /\ form.intent <= intents'
  <2>1. intents \in 0..MaxIntents /\ intents' = intents
    BY <1>1 DEF FormInv, ClientTyped
  <2> QED
    BY <1>3, <2>1
<1> QED
  BY <1>1, <1>2, <1>3, <1>4, SubmitKeeps

LEMMA CheckAgainKeeps ==
    ASSUME FormInv, NEW f \in Flights, CheckAgain(f), UNCHANGED action
    PROVE  FormInv'
<1> DEFINE d == [NoFlight EXCEPT !.intent = form.intent, !.row = form.row]
<1>1. /\ ~form.busy /\ UNCHANGED <<server, connected, intents>>
      /\ form.offer = "Check again" /\ Lap(f, d)
  BY DEF CheckAgain, MayStart
<1>2. /\ form.intent \in Intents \cup {0} /\ form.row \in Row
      /\ form.row.id \in Ids /\ UnsavedBut(Books, form.intent, form.row.id)
      /\ TrueRow(Books, form.row) /\ form.intent <= Books.intents
  BY <1>1 DEF FormInv, LineStands, ClientTyped, Form
<1>3. /\ d \in Flight /\ d.intent = form.intent /\ d.row = form.row /\ d.answer = NoAnswer
      /\ d.failures = 0 /\ ~d.judge
  BY <1>2, NoRowTyped DEF NoFlight, Flight
<1> HIDE DEF d
<1>4. TrueRow(Books, d.answer.row)
  BY <1>3, NoAnswerIsTrue
<1>5. Laps(Books, d)
  BY <1>2, <1>3, <1>4 DEF Laps, SaysNoConsumer
<1>6. \A g \in Flights : g # f => flight[g].pc = "free"
  BY <1>1, OthersAreFree
<1> QED
  BY <1>1, <1>5, <1>6, LapKeeps

LEMMA PressInVainKeeps == FormInv /\ PressInVain => FormInv'
<1> SUFFICES ASSUME FormInv, PressInVain PROVE FormInv'
  OBVIOUS
<1>1. /\ ~form.busy /\ Say(FALSE, "notice", 0, NoRow)
      /\ UNCHANGED <<action, server, connected, intents, flight>>
  BY DEF PressInVain, MayStart
<1>2. ServerInv' /\ Books' = Books
  BY <1>1, ServerLeft, PressesAreCounted, NoNewPress, BooksStay DEF FormInv
<1>3. /\ form' \in Form /\ ~form'.busy /\ form'.kind = "notice" /\ form'.offer = "none"
      /\ form'.stopped = "" /\ form'.intent = 0 /\ form'.row = NoRow
  BY <1>1, NoRowTyped DEF Say, Form, Kinds, Offers, Stops
<1>4. 0 <= Books.intents
  BY PressesAreCounted DEF Books
<1>5. LineStands(Books, form', connected')
  BY <1>3, <1>4, NoRowIsTrue, PlainLineStands
<1>6. RowStaysInSight'
  BY <1>3, NoRowIsNone DEF RowStaysInSight
<1>7. ClientTyped'
  BY <1>1, <1>3 DEF FormInv, ClientTyped
<1>8. \A g \in Flights : flight'[g].pc = "free"
  BY <1>1 DEF FormInv, FlightInv, BusyWhileUnderWay
<1>9. FlightInv'
  BY <1>8 DEF FlightInv, OneInFlight, BusyWhileUnderWay
<1>10. LineStands(Books, form, connected)'
  BY <1>2, <1>5
<1> QED
  BY <1>2, <1>6, <1>7, <1>9, <1>10 DEF FormInv

LEMMA NavigateKeeps == FormInv /\ Navigate => FormInv'
<1> SUFFICES ASSUME FormInv, Navigate PROVE FormInv'
  OBVIOUS
<1>1. UNCHANGED <<action, server, intents, form, flight>> /\ ~connected'
      /\ connected' \in BOOLEAN
  BY DEF Navigate
<1>2. ServerInv' /\ Books' = Books
  BY <1>1, ServerLeft, PressesAreCounted, NoNewPress, BooksStay DEF FormInv
<1>3. ClientTyped'
  BY <1>1 DEF FormInv, ClientTyped
<1>4. FlightInv'
  BY <1>1, <1>2 DEF FormInv, FlightInv, OneInFlight, BusyWhileUnderWay
<1>5. LineStands(Books, form, connected)'
  BY <1>1, <1>2 DEF FormInv, LineStands
<1>6. RowStaysInSight'
  BY <1>1 DEF RowStaysInSight
<1> QED
  BY <1>2, <1>3, <1>4, <1>5, <1>6 DEF FormInv
-----------------------------------------------------------------------------
(***************************************************************************)
(* The theorems.                                                           *)
(***************************************************************************)

LEMMA NothingIsBounded == 0 <= 0 /\ 0 \in 0..MaxIntents
  OBVIOUS

LEMMA FormInvInit == Init => FormInv
<1> SUFFICES ASSUME Init PROVE FormInv
  OBVIOUS
<1>1. NoRow \in Row /\ NoFlight \in Flight /\ NoFlight.pc = "free"
  BY NoRowTyped DEF NoFlight
<1>2. ServerTyped
  BY DEF Init, Queue!Init, ServerTyped, Queue!Job, Queue!Statuses, Queue!Effects, Reasons
<1>3. ServerStands
  <2>1. \A i \in Ids : job[i].status = "absent" /\ job[i].runs = 0
    BY DEF Init, Queue!Init
  <2>2. intents = 0 /\ \A i \in Ids : intentOf[i] = 0 /\ reason[i] = ""
    BY DEF Init
  <2> QED
    BY <2>1, <2>2, NothingIsBounded, Zenon DEF ServerStands
<1>4. OneRowPerIntent
  BY DEF Init, OneRowPerIntent
<1>5. /\ form \in Form /\ ~form.busy /\ form.kind = "none" /\ form.offer = "none"
      /\ form.stopped = "" /\ form.intent = 0 /\ form.row = NoRow
  BY <1>1 DEF Init, Form, Kinds, Offers, Stops
<1>6. ClientTyped
  <2>1. action \in Actions /\ connected \in BOOLEAN
    BY DEF Init
  <2>2. intents \in 0..MaxIntents
    BY NothingIsBounded, Zenon DEF Init
  <2>3. flight \in [Flights -> Flight]
    BY <1>1 DEF Init
  <2> QED
    BY <1>5, <2>1, <2>2, <2>3 DEF ClientTyped
<1>7. FlightInv
  BY <1>1 DEF Init, FlightInv, OneInFlight, BusyWhileUnderWay
<1>8. TrueRow(Books, form.row) /\ form.intent <= Books.intents
  <2>1. Books.intents = 0
    BY DEF Init, Books
  <2>2. TrueRow(Books, form.row)
    BY <1>5, NoRowIsTrue
  <2> QED
    BY <1>5, <2>1, <2>2, NothingIsBounded, Zenon
<1>9. LineStands(Books, form, connected)
  BY <1>5, <1>8 DEF LineStands
<1>10. RowStaysInSight
  BY <1>5, NoRowIsNone DEF RowStaysInSight
<1> QED
  BY <1>2, <1>3, <1>4, <1>6, <1>7, <1>9, <1>10 DEF FormInv, ServerInv

LEMMA FormInvNext == FormInv /\ [Next]_vars => FormInv'
<1> SUFFICES ASSUME FormInv, [Next]_vars PROVE FormInv'
  OBVIOUS
<1>1. CASE \E i \in Ids : Consume(i) \/ FinishJob(i)
  BY <1>1, ConsumeKeeps, FinishKeeps
<1>2. CASE Heartbeat
  BY <1>2, HeartbeatKeeps
<1>3. ASSUME NEW f \in Flights, Network(f) PROVE FormInv'
  BY <1>3, NetworkKeeps
<1>4. ASSUME NEW f \in Flights, Client(f) PROVE FormInv'
  BY <1>4, ReceivePostKeeps, WakeKeeps, ReceiveGetKeeps DEF Client
<1>5. ASSUME NEW f \in Flights, Operator(f) PROVE FormInv'
  BY <1>5, PressKeeps, RetryKeeps, CheckAgainKeeps DEF Operator
<1>6. CASE PressInVain
  BY <1>6, PressInVainKeeps
<1>7. CASE Navigate
  BY <1>7, NavigateKeeps
<1>8. CASE UNCHANGED vars
  <2>1. UNCHANGED <<action, server, connected, intents, form, flight>>
    BY <1>8 DEF vars
  <2>2. ServerInv' /\ Later(Books, Books') /\ Silent
    BY <2>1, ServerLeft, PressesAreCounted, NoNewPress DEF FormInv, Silent
  <2> QED
    BY <2>2, ClientLeft
<1> QED
  BY <1>1, <1>2, <1>3, <1>4, <1>5, <1>6, <1>7, <1>8 DEF Next

LEMMA FormIsInv == Spec => []FormInv
<1>1. Init => FormInv
  BY FormInvInit
<1>2. FormInv /\ [Next]_vars => FormInv'
  BY FormInvNext
<1> QED
  BY <1>1, <1>2, PTL DEF Spec

\* A write is not sent again while an earlier row of the same press may still be carried out
\* or has been, whatever answers are lost, late or refused.
THEOREM SendsOnce == Spec => []OneRowPerIntent
<1>1. FormInv => OneRowPerIntent
  BY DEF FormInv, ServerInv
<1> QED
  BY <1>1, FormIsInv, PTL

\* What the outcome line tells the operator as an end is one.
THEOREM TellsTheTruth == Spec => []OutcomeIsTrue
<1>1. FormInv => OutcomeIsTrue
  <2> SUFFICES ASSUME FormInv, connected PROVE OutcomeIsTrue
    BY DEF OutcomeIsTrue
  <2>1. LineStands(Books, form, connected)
    BY DEF FormInv
  <2>2. form.kind = "done" => job[form.row.id].status = "executed"
    BY <2>1 DEF LineStands, TrueRow, Books, Queue!Terminal
  <2>3. form.kind = "refused" => job[form.row.id].runs = 0
    <3> SUFFICES ASSUME form.kind = "refused" PROVE job[form.row.id].runs = 0
      OBVIOUS
    <3>1. form.row.id \in Ids /\ reason[form.row.id] = "not online"
      BY <2>1 DEF LineStands, TrueRow, Books, Queue!Terminal
    <3> QED
      BY <3>1 DEF FormInv, ServerInv, ServerStands
  <2>4. form.kind \in {"refused", "retry", "failed"} => \A i \in Mine : job[i].status = "failed"
    BY <2>1 DEF LineStands, AllFailed, Books, Mine
  <2> QED
    BY <2>2, <2>3, <2>4 DEF OutcomeIsTrue
<1> QED
  BY <1>1, FormIsInv, PTL

\* The form is typed, has one write in flight at the most, never loses the row it is about,
\* and says that a consumer is silent only when this wait heard so.
THEOREM KeepsItsRow == Spec => []FormKeepsItsRow
<1>1. FormInv => FormKeepsItsRow
  <2> SUFFICES ASSUME FormInv PROVE FormKeepsItsRow
    OBVIOUS
  <2>1. TypeOK
    BY DEF FormInv, ServerInv, ServerTyped, ClientTyped, TypeOK
  <2>2. SilenceWasHeard
    BY DEF FormInv, LineStands, SilenceWasHeard
  <2> QED
    BY <2>1, <2>2 DEF FormInv, FlightInv, FormKeepsItsRow
<1> QED
  BY <1>1, FormIsInv, PTL
=============================================================================
