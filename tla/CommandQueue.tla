---------------------------- MODULE CommandQueue ----------------------------
(***************************************************************************)
(* What the command queue promises to the administrator who posts to it.   *)
(*                                                                         *)
(* A job is submitted once, claimed once, acted on in the game at most     *)
(* once, and then finished: `executed' exactly when everything that was    *)
(* asked has been observed in the game, `failed' otherwise.  A finished    *)
(* job never changes again.  A claimed job may stay claimed for ever: the  *)
(* queue does not promise that a consumer survives.                        *)
(*                                                                         *)
(* Nothing is said here about scripts, servers, heartbeats or SQL; Overlay *)
(* is shown to implement this specification.                               *)
(***************************************************************************)
EXTENDS Naturals

CONSTANT Ids      \* the ids a job may have

VARIABLE job      \* job[i]: how far job i has come, and what it did in the game

Statuses == {"absent", "pending", "processing", "executed", "failed"}
Terminal == {"executed", "failed"}

\* Nothing observed; something, but not what was asked; exactly what was asked.
Effects == {"none", "part", "full"}

Job == [status : Statuses, runs : Nat, effect : Effects]

Init == job = [i \in Ids |-> [status |-> "absent", runs |-> 0, effect |-> "none"]]

Submit(i) ==
    /\ job[i].status = "absent"
    /\ job' = [job EXCEPT ![i].status = "pending"]

Claim(i) ==
    /\ job[i].status = "pending"
    /\ job' = [job EXCEPT ![i].status = "processing"]

\* The one time the game is touched for job i.
Run(i) ==
    /\ job[i].status = "processing"
    /\ job[i].runs = 0
    /\ \E e \in Effects :
          job' = [job EXCEPT ![i] = [status |-> "processing", runs |-> 1, effect |-> e]]

\* What was set going is later observed to have come about.
Confirm(i) ==
    /\ job[i].status = "processing"
    /\ job[i].effect = "part"
    /\ job' = [job EXCEPT ![i].effect = "full"]

Finish(i) ==
    /\ job[i].status = "processing"
    /\ \/ /\ job[i].effect = "full"
          /\ job' = [job EXCEPT ![i].status = "executed"]
       \/ /\ job[i].effect # "full"
          /\ job' = [job EXCEPT ![i].status = "failed"]

Step(i) == Submit(i) \/ Claim(i) \/ Run(i) \/ Confirm(i) \/ Finish(i)

Next == \E i \in Ids : Step(i)

Spec == Init /\ [][Next]_job
=============================================================================
