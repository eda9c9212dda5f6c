---------------------------- MODULE CommandForm ----------------------------
(***************************************************************************)
(* One form of the web client, from the click on its button to the outcome *)
(* it shows: submitWrite, checkAgain, runCommand and pollCommand.          *)
(*                                                                         *)
(* The server side is CommandQueue, which Overlay implements: a POST       *)
(* submits a job, a GET reads it, and the job moves on by itself.  Answers *)
(* are what the row read when the server read it, and may be old, lost, or *)
(* a refusal when they arrive.  The browser runs a handler up to its next  *)
(* await in one step.                                                      *)
(*                                                                         *)
(* An operator called a mistake is used nowhere.  It is the definition that*)
(* follows it with one plausible mistake in it, which a property catches.  *)
(***************************************************************************)
EXTENDS Integers, FiniteSets

CONSTANTS
    Actions,       \* the actions there is a form for
    Ids,           \* rows the queue can hold
    MaxIntents,    \* bound: times the operator presses the submit button
    MaxPolls,      \* maxPolls of pollCommand
    Flights        \* slots for calls of submitWrite and checkAgain under way

ASSUME CommandFormAssumption ==
    /\ Actions \subseteq {"give_item", "adjust_zeny", "sync_character"}
    /\ Ids \subseteq Nat \ {0}
    /\ MaxIntents \in Nat
    /\ MaxPolls \in Nat \ {0}
    /\ Flights \subseteq Nat

VARIABLES
    action,        \* the action this form sends
    job,           \* the queue, as CommandQueue has it
    reason,        \* reason[i]: error_message of row i
    intentOf,      \* history: intentOf[i], the press of the button row i is due to
    responding,    \* the consumer of this action has a fresh heartbeat
    connected,     \* form.isConnected
    intents,       \* presses of the submit button so far
    form,          \* busy, and what the outcome line shows and offers
    flight         \* flight[f]: one call of submitWrite or checkAgain

server == <<job, reason, intentOf, responding>>
vars   == <<action, server, connected, intents, form, flight>>

Queue == INSTANCE CommandQueue

Intents == 1..MaxIntents
Reasons == {"", "not online", "not applied", "not yet persisted", "other"}

\* A row as an answer carries it, and the answer.
Row == [id : Ids \cup {0}, status : Queue!Statuses, reason : Reasons, responding : BOOLEAN]
NoRow == [id |-> 0, status |-> "absent", reason |-> "", responding |-> FALSE]

\* ApiError, by what the caller can tell apart: a 401, any other 4xx, and no
\* answer or a 5xx.
ApiErrors == {"unauthorized", "refused", "no answer"}
Answer == [error : ApiErrors \cup {""}, row : Row]
NoAnswer == [error |-> "", row |-> NoRow]

Flight == [pc : {"free", "posting", "inserted", "posted", "sleeping", "getting", "got"},
           intent : Intents \cup {0}, row : Row, answer : Answer,
           failures : 0..3, polls : 0..MaxPolls, judge : BOOLEAN, heard : BOOLEAN]

NoFlight == [pc |-> "free", intent |-> 0, row |-> NoRow, answer |-> NoAnswer,
             failures |-> 0, polls |-> 0, judge |-> FALSE, heard |-> FALSE]

\* What the outcome line says.  "unsure" is an error of the POST that carries the words
\* "this may or may not have been applied", "failed" one that does not, or a failed row.
Kinds  == {"none", "notice", "pending", "done", "refused", "retry",
           "stopped", "lost-contact", "failed", "unsure"}
Offers == {"none", "Retry", "Check again"}
Stops  == {"", "verdict", "detached", "no-consumer", "timeout", "lost-contact",
           "unwatchable"}

Form == [busy : BOOLEAN, kind : Kinds, offer : Offers, stopped : Stops,
         intent : Intents \cup {0}, row : Row, heard : BOOLEAN]
------------------------------------------------------------------------------
(***************************************************************************)
(* The queue and the network.                                              *)
(***************************************************************************)
Silent == UNCHANGED <<action, connected, intents, form, flight>>

Consume(i) ==
    /\ Queue!Claim(i) \/ Queue!Run(i) \/ Queue!Confirm(i)
    /\ UNCHANGED <<reason, intentOf, responding>> /\ Silent

\* What the scripts write into error_message, by how far the row came.
ReasonsFor(j) ==
    CASE j.effect = "full"                                 -> {""}
      [] j.effect # "full" /\ j.runs = 0                   -> {"not online", "other"}
      [] j.effect # "full" /\ j.runs # 0 /\ action = "sync_character"
                                                           -> {"not yet persisted"}
      [] OTHER                                             -> {"not applied"}

FinishJob(i) ==
    /\ Queue!Finish(i)
    /\ \E r \in ReasonsFor(job[i]) : reason' = [reason EXCEPT ![i] = r]
    /\ UNCHANGED <<intentOf, responding>> /\ Silent

\* A heartbeat comes or goes stale.
Heartbeat ==
    /\ responding' = ~responding
    /\ UNCHANGED <<job, reason, intentOf>> /\ Silent

\* The row as the server reads it now.
ReadRow(i, r) == [id |-> i, status |-> job[i].status, reason |-> reason[i], responding |-> r]

Reply(f, pc, e, row) ==
    flight' = [flight EXCEPT ![f] = [@ EXCEPT !.pc = pc, !.answer = [error |-> e, row |-> row]]]

NextId(i) == \A j \in Ids : j < i => job[j].status # "absent"

\* POST /commands: refused, lost on the way, or inserted for a consumer that responds.
HandlePost(f) ==
    /\ flight[f].pc = "posting"
    /\ \/ /\ \E e \in ApiErrors : Reply(f, "posted", e, NoRow)
          /\ UNCHANGED server
       \/ \E i \in Ids :
            /\ responding /\ NextId(i) /\ Queue!Submit(i)
            /\ intentOf' = [intentOf EXCEPT ![i] = flight[f].intent]
            /\ Reply(f, "inserted", "", ReadRow(i, TRUE))
            /\ UNCHANGED <<reason, responding>>
    /\ UNCHANGED <<connected, intents, form>>

\* The 202 carries the row as it reads after the insert, and the heartbeat from before
\* it; or the answer is lost.
HandleInserted(f) ==
    /\ flight[f].pc = "inserted"
    /\ \/ Reply(f, "posted", "", ReadRow(flight[f].answer.row.id, TRUE))
       \/ Reply(f, "posted", "no answer", NoRow)
    /\ UNCHANGED <<server, connected, intents, form>>

\* GET /commands/{id}
HandleGet(f) ==
    /\ flight[f].pc = "getting"
    /\ \/ Reply(f, "got", "", ReadRow(flight[f].row.id, responding))
       \/ \E e \in ApiErrors : Reply(f, "got", e, NoRow)
    /\ UNCHANGED <<server, connected, intents, form>>
------------------------------------------------------------------------------
(***************************************************************************)
(* The outcome line.                                                       *)
(***************************************************************************)

\* What a row says of its own end.
Verdict(row) ==
    IF row.status = "executed" THEN "done"
    ELSE IF row.reason = "not online" THEN "refused"
    ELSE IF action = "sync_character" /\ row.reason = "not yet persisted" THEN "retry"
    ELSE "failed"

\* Mistake: a wait that ran out is worded, and offered again, like a refusal to save.
KindWithHastyRetry(row, stop) ==
    CASE stop \in {"unwatchable", "lost-contact"}  -> "lost-contact"
      [] stop = "no-consumer"                      -> "stopped"
      [] stop = "timeout"                          -> "retry"
      [] stop \in {"", "verdict", "detached"}      -> Verdict(row)

\* describeOutcome()
Kind(row, stop) ==
    CASE stop \in {"unwatchable", "lost-contact"}  -> "lost-contact"
      [] stop \in {"no-consumer", "timeout"}       -> "stopped"
      [] stop \in {"", "verdict", "detached"}      -> Verdict(row)

\* Mistake: only a stopped wait can be taken up again.
OfferOnStopAlone(kind) ==
    CASE kind = "retry" -> "Retry" [] kind = "stopped" -> "Check again" [] OTHER -> "none"

\* The button finish() puts beside the message.
Offer(kind) ==
    CASE kind = "retry"                       -> "Retry"
      [] kind \in {"stopped", "lost-contact"} -> "Check again"
      [] OTHER                                -> "none"

Free(f) == flight' = [flight EXCEPT ![f] = NoFlight]

\* finish() and setBusy(false), for the flight d that ends
Settle(f, d, stop) ==
    /\ form' = [busy |-> FALSE, kind |-> Kind(d.row, stop),
                offer |-> Offer(Kind(d.row, stop)), stopped |-> stop,
                intent |-> d.intent, row |-> d.row, heard |-> d.heard]
    /\ Free(f)

\* A line without a button: "Sending...", "Checking...", progress, an error or a notice.
Say(busy, kind, n, row) ==
    form' = [busy |-> busy, kind |-> kind, offer |-> "none", stopped |-> "",
             intent |-> n, row |-> row, heard |-> FALSE]
------------------------------------------------------------------------------
(***************************************************************************)
(* pollCommand: the loop, cut at its awaits.                               *)
(***************************************************************************)

\* judge && !row.overlay_responding
SaysNoConsumer(d) == d.judge /\ ~d.row.responding

\* polls >= maxPolls
RunOut(d) == d.polls >= MaxPolls

\* The top of the loop, for a flight d that comes to it, up to the next sleep.
Lap(f, d) ==
    \/ d.row.status \in Queue!Terminal /\ Settle(f, d, "verdict")
    \/ /\ d.row.status \notin Queue!Terminal
       /\ \/ ~connected /\ Settle(f, d, "detached")
          \/ connected /\ SaysNoConsumer(d) /\ Settle(f, d, "no-consumer")
          \/ connected /\ ~SaysNoConsumer(d) /\ RunOut(d) /\ Settle(f, d, "timeout")
          \/ /\ connected /\ ~SaysNoConsumer(d) /\ ~RunOut(d)
             /\ flight' = [flight EXCEPT ![f] = [d EXCEPT !.pc = "sleeping"]]
             /\ Say(TRUE, "pending", d.intent, d.row)

\* The sleep is over and the GET goes out.
Wake(f) ==
    /\ flight[f].pc = "sleeping"
    /\ flight' = [flight EXCEPT ![f] = [@ EXCEPT !.pc = "getting"]]
    /\ UNCHANGED <<server, connected, intents, form>>

\* Mistake: a lap whose GET brought an answer is not counted.
ReadsWithoutCount(d) ==
    [d EXCEPT !.row = d.answer.row, !.answer = NoAnswer, !.failures = 0, !.judge = TRUE,
              !.heard = d.heard \/ ~d.answer.row.responding]

\* The flight after an answer: from here on the row may be judged.
Reads(d) ==
    [d EXCEPT !.row = d.answer.row, !.answer = NoAnswer, !.failures = 0, !.judge = TRUE,
              !.polls = @ + 1, !.heard = d.heard \/ ~d.answer.row.responding]

\* The flight after a GET that failed for no reason the client can act on.
Misses(d) == [d EXCEPT !.answer = NoAnswer, !.failures = @ + 1, !.polls = @ + 1]

\* A 401 ends the session, and takes the form with it, if its token is still the current
\* one; most are.
MayEndSession == connected' \in {FALSE, connected}

ReceiveGet(f) ==
    LET d == flight[f]
        e == d.answer.error
    IN  /\ d.pc = "got"
        /\ \/ e = "" /\ Lap(f, Reads(d)) /\ UNCHANGED connected
           \/ e = "no answer" /\ d.failures < 2 /\ Lap(f, Misses(d)) /\ UNCHANGED connected
           \/ e = "no answer" /\ d.failures >= 2 /\ Settle(f, d, "lost-contact")
              /\ UNCHANGED connected
           \/ e = "refused" /\ Settle(f, d, "unwatchable") /\ UNCHANGED connected
           \/ e = "unauthorized" /\ Settle(f, d, "lost-contact") /\ MayEndSession
        /\ UNCHANGED <<server, intents>>
------------------------------------------------------------------------------
(***************************************************************************)
(* The operator's side.                                                    *)
(***************************************************************************)

\* if (busy) return
MayStart == ~form.busy

\* A call takes the first slot that is free.
NextFree(f) == flight[f].pc = "free" /\ \A g \in Flights : g < f => flight[g].pc # "free"

\* submitWrite(), up to the POST
SubmitWrite(f, n) ==
    /\ NextFree(f)
    /\ flight' = [flight EXCEPT ![f] = [NoFlight EXCEPT !.pc = "posting", !.intent = n]]
    /\ Say(TRUE, "pending", n, NoRow)

\* The submit button, with fields build() accepts.
Press(f) ==
    /\ connected /\ MayStart /\ intents < MaxIntents
    /\ intents' = intents + 1
    /\ SubmitWrite(f, intents + 1)
    /\ UNCHANGED <<server, connected>>

\* The submit button, with fields it does not, or a dialog that is cancelled.
PressInVain ==
    /\ connected /\ MayStart /\ action # "sync_character"
    /\ Say(FALSE, "notice", 0, NoRow)
    /\ UNCHANGED <<action, server, connected, intents, flight>>

Retry(f) ==
    /\ connected /\ MayStart /\ form.offer = "Retry"
    /\ SubmitWrite(f, form.intent)
    /\ UNCHANGED <<server, connected, intents>>

\* checkAgain(): pollCommand with checkFirst false, on the row of the last outcome.
CheckAgain(f) ==
    /\ connected /\ MayStart /\ form.offer = "Check again"
    /\ NextFree(f)
    /\ Lap(f, [NoFlight EXCEPT !.intent = form.intent, !.row = form.row])
    /\ UNCHANGED <<server, connected, intents>>

\* Mistake: an error of the POST is taken for an error of the write.
PostErrorKindForAll(e) == "failed"

\* maybeApplied, as the message shows it
PostErrorKind(e) == IF e = "no answer" THEN "unsure" ELSE "failed"

\* runCommand(), after its POST
ReceivePost(f) ==
    LET d == flight[f]
        e == d.answer.error
    IN  /\ d.pc = "posted"
        /\ \/ /\ e = ""
              /\ Lap(f, [d EXCEPT !.row = d.answer.row, !.answer = NoAnswer, !.judge = TRUE])
              /\ UNCHANGED connected
           \/ /\ e # ""
              /\ Say(FALSE, PostErrorKind(e), d.intent, NoRow)
              /\ Free(f)
              /\ IF e = "unauthorized" THEN MayEndSession ELSE UNCHANGED connected
        /\ UNCHANGED <<server, intents>>

\* The view changes and takes the form with it.
Navigate ==
    /\ connected
    /\ connected' = FALSE
    /\ UNCHANGED <<action, server, intents, form, flight>>
------------------------------------------------------------------------------
Init ==
    /\ action \in Actions
    /\ Queue!Init
    /\ reason = [i \in Ids |-> ""]
    /\ intentOf = [i \in Ids |-> 0]
    /\ responding = TRUE
    /\ connected = TRUE
    /\ intents = 0
    /\ form = [busy |-> FALSE, kind |-> "none", offer |-> "none", stopped |-> "",
               intent |-> 0, row |-> NoRow, heard |-> FALSE]
    /\ flight = [f \in Flights |-> NoFlight]

Network(f)  == UNCHANGED action /\ (HandlePost(f) \/ HandleInserted(f) \/ HandleGet(f))
Client(f)   == UNCHANGED action /\ (ReceivePost(f) \/ Wake(f) \/ ReceiveGet(f))
Operator(f) == UNCHANGED action /\ (Press(f) \/ Retry(f) \/ CheckAgain(f))

Next ==
    \/ \E i \in Ids : Consume(i) \/ FinishJob(i)
    \/ Heartbeat
    \/ \E f \in Flights : Network(f) \/ Client(f) \/ Operator(f)
    \/ PressInVain
    \/ Navigate

Spec == Init /\ [][Next]_vars

\* A request ends, in an answer or in an error; timers fire and promises are resumed.
Fairness == \A f \in Flights : WF_vars(Network(f)) /\ WF_vars(Client(f))

FairSpec == Spec /\ Fairness
------------------------------------------------------------------------------
(***************************************************************************)
(* Properties.                                                             *)
(***************************************************************************)

\* Every variable holds what the object or column behind it can hold.
TypeOK ==
    /\ action \in Actions
    /\ job \in [Ids -> Queue!Job]
    /\ reason \in [Ids -> Reasons]
    /\ intentOf \in [Ids -> Intents \cup {0}]
    /\ responding \in BOOLEAN /\ connected \in BOOLEAN
    /\ intents \in 0..MaxIntents
    /\ form \in Form
    /\ flight \in [Flights -> Flight]

\* The rule at the head of actions.js: once a POST has returned a row, or may have, its
\* write is not sent again.  Two rows are due to one press of the button only when the game
\* itself recorded the older as not yet persisted, whatever answers were lost or late.
OneRowPerIntent ==
    \A i, j \in Ids :
       i < j /\ intentOf[i] # 0 /\ intentOf[i] = intentOf[j]
         => reason[i] = "not yet persisted"

\* The rows of the write the outcome line speaks of.
Mine == {i \in Ids : intentOf[i] = form.intent /\ form.intent # 0}

\* What an operator reads as an end is one: done is executed, refused has not touched the
\* game, a retry is due to a save that was not there yet, and failed, unlike unsure, means
\* that nothing of this write is under way or still to come.
OutcomeIsTrue ==
    connected =>
       /\ form.kind = "done"    => job[form.row.id].status = "executed"
       /\ form.kind = "refused" => job[form.row.id].runs = 0
       /\ form.kind \in {"refused", "retry", "failed"}
            => \A i \in Mine : job[i].status = "failed"

\* The id of a row that has no verdict yet is never lost: until the operator presses the
\* button again, it is being watched or can be watched again.
RowStaysInSight ==
    connected /\ form.row.id # 0 /\ form.row.status \notin Queue!Terminal =>
       \/ form.offer = "Check again"
       \/ \E f \in Flights : flight[f].pc # "free" /\ flight[f].row.id = form.row.id

\* One write in flight per form, through whichever of its three buttons it started.
OneInFlight ==
    \A f, g \in Flights : flight[f].pc # "free" /\ flight[g].pc # "free" => f = g

\* "Its consumer stopped responding" is only said of an answer that came during this very
\* wait, never of the row an earlier one was stopped for.
SilenceWasHeard == form.stopped = "no-consumer" => form.heard

\* Together: the form has at most one write in flight, knows the row it is about, and
\* judges its consumer by what this wait has heard.
FormKeepsItsRow == TypeOK /\ OneInFlight /\ RowStaysInSight /\ SilenceWasHeard

\* Every wait ends, although a consumer may respond and never finish, and GETs may fail.
EveryWaitEnds == \A f \in Flights : flight[f].pc # "free" ~> flight[f].pc = "free"
=============================================================================
