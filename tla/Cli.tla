-------------------------------- MODULE Cli ---------------------------------
(***************************************************************************)
(* roadmin (cli.py), against a server that asks Access for every request:  *)
(* one invocation from its arguments to its exit code.  The request and    *)
(* the answer may be lost, time out or be answered by a proxy; a token may *)
(* expire on the way.  What the tool tells its operator to run, the        *)
(* operator runs.                                                          *)
(***************************************************************************)
EXTENDS Access

VARIABLES
    run,        \* the invocation: its method, its token, and where it is
    reply,      \* what reached the tool: <<>>, or <<its status and body>>
    served,     \* how often the server carried out what was asked
    exit        \* the exit code; -1: none yet

cliState == <<run, reply, served, exit>>
cliVars == <<accessVars, cliState>>

Rest == [method |-> "none", token |-> 0, at |-> "rest"]
Methods == {"GET", "POST", "DISCOVER"}
Needs(method) == IF method = "POST" THEN "commands.write" ELSE "logs.read"
Bodies == {"json", "other"}
Is2xx(status) == status >= 200 /\ status < 300
-----------------------------------------------------------------------------
CliInit == AccessInit /\ run = Rest /\ reply = <<>> /\ served = 0 /\ exit = -1

Exits(code) == exit' = code /\ run' = [run EXCEPT !.at = "exited"]

\* main(): the token and the arguments are looked at before anything is sent;
\* discover needs neither.
Invoke ==
    /\ run.at \in {"rest", "exited"}
    /\ \E method \in Methods, t \in DOMAIN tokens \cup {0}, wellFormed \in BOOLEAN :
         IF method # "DISCOVER" /\ (t = 0 \/ ~wellFormed)
         THEN run' = [method |-> method, token |-> t, at |-> "exited"] /\ exit' = 2
         ELSE run' = [method |-> method, token |-> t, at |-> "sent"] /\ exit' = -1
    /\ reply' = <<>> /\ served' = 0 /\ answer' = NoAnswer
    /\ UNCHANGED <<now, group, secret, tokens, told, heldAt>>

Answer(status, body) == reply' = <<[status |-> status, body |-> body]>>

\* The server: it refuses, or it does what is asked and says so, or it fails
\* before or after it has.
Serve ==
    /\ run.at = "sent" /\ run.method # "DISCOVER"
    /\ LET gate == Gate(run.token, Needs(run.method)) IN
       IF gate # 200 THEN Answer(gate, "json") /\ UNCHANGED served
       ELSE \/ \E s \in {404, 409, 422} : Answer(s, "json") /\ UNCHANGED served
            \/ Answer(500, "other") /\ served' \in {served, served + 1}
            \/ /\ \/ run.method = "GET" /\ \E body \in Bodies : Answer(200, body)
                  \/ run.method = "POST" /\ Answer(202, "json")
               /\ served' = served + 1
    /\ run' = [run EXCEPT !.at = "answered"]
    /\ UNCHANGED <<exit, accessVars>>

\* /openapi.json, which asks for no token.
ServeDescription ==
    /\ run.at = "sent" /\ run.method = "DISCOVER"
    /\ \/ Answer(200, "json") /\ served' = served + 1
       \/ Answer(500, "other") /\ UNCHANGED served
    /\ run' = [run EXCEPT !.at = "answered"]
    /\ UNCHANGED <<exit, accessVars>>

\* A proxy answers for a server it cannot reach, or has waited for: that one may
\* still do what is asked.
ProxyAnswers ==
    /\ run.at = "sent"
    /\ \E body \in Bodies :
         \/ Answer(502, body) /\ UNCHANGED served
         \/ /\ Answer(504, body) /\ served' \in {served, served + 1}
            /\ \/ served' = served \/ run.method = "DISCOVER"
               \/ Gate(run.token, Needs(run.method)) = 200
    /\ run' = [run EXCEPT !.at = "answered"]
    /\ UNCHANGED <<exit, accessVars>>

\* An operator introduced as a mistake is never used: it is the definition
\* that follows it with one plausible slip, which a run's properties catch.

\* Mistake: a request without an answer is sent again.
NoReplyRetried == exit' = -1 /\ run' = [run EXCEPT !.at = "sent"]

\* Nothing in cli.py catches a URLError or a timeout: the interpreter exits
\* with 1.
NoReply == Exits(1)

\* The connection is refused, or the answer is lost, or takes over 30 seconds.
Unanswered ==
    /\ run.at \in {"sent", "answered"}
    /\ NoReply
    /\ reply' = <<>>
    /\ UNCHANGED <<served, accessVars>>

\* Mistake: 200 is the only success.
ExitCodeOf200(method, r) ==
    IF r.body # "json" THEN 2 ELSE IF r.status = 200 THEN 0 ELSE 1

\* _discover() and the end of main().
ExitCode(method, r) ==
    IF method = "DISCOVER" THEN IF r.status = 200 THEN 0 ELSE 1
    ELSE IF r.body # "json" THEN 2
    ELSE IF Is2xx(r.status) THEN 0 ELSE 1

Finish ==
    /\ run.at = "answered"
    /\ Exits(ExitCode(run.method, reply[1]))
    /\ UNCHANGED <<reply, served, accessVars>>

\* describe_body(): the request is only offered again if it was a GET.
Advises(method) == method = "GET"

\* The operator runs the line that was printed in place of the body.
FollowAdvice ==
    /\ run.at = "exited" /\ reply # <<>> /\ reply[1].body # "json"
    /\ run.method # "DISCOVER" /\ Advises(run.method)
    /\ Gate(run.token, Needs(run.method)) = 200 /\ served < 2
    /\ served' = served + 1
    /\ UNCHANGED <<run, reply, exit, accessVars>>

CliNext ==
    \/ Invoke \/ Serve \/ ServeDescription \/ ProxyAnswers
    \/ Unanswered \/ Finish \/ FollowAdvice

\* Time passes and others act, while a request is on its way or before the next
\* invocation: the tool itself looks at nothing of theirs once it is answered.
OthersAct ==
    /\ run.at # "answered" /\ AccessNext
    /\ IF run.at = "sent" THEN UNCHANGED cliState
       ELSE run' = Rest /\ reply' = <<>> /\ served' = 0 /\ exit' = -1

CliOrOthers == CliNext \/ OthersAct

CliSpec == CliInit /\ [][CliOrOthers]_cliVars
-----------------------------------------------------------------------------
(***************************************************************************)
(* Properties.                                                             *)
(***************************************************************************)
\* An invocation writes at most once, whatever is lost and whatever its
\* operator is told to do next.
OneWritePerInvocation == run.method = "POST" => served <= 1

\* Exit 0 is never given to a caller whose request the server did not carry
\* out, or who did not get its answer.
ZeroMeansDone ==
    exit = 0 => served > 0 /\ reply # <<>> /\ reply[1].body = "json" /\ Is2xx(reply[1].status)

\* A write that was accepted, and whose acceptance was heard, is never reported
\* as anything else.
AcceptanceIsReported ==
    run.at = "exited" /\ run.method = "POST" /\ reply # <<>> /\ reply[1].status = 202 =>
        exit = 0

\* Together: the exit status tells what became of the request.
StatusIsTrue == ZeroMeansDone /\ AcceptanceIsReported

\* cli.py's own words for exit code 1: "the server answered outside 2xx; the
\* body was printed".
OneMeansAnswered == exit = 1 => reply # <<>> /\ ~Is2xx(reply[1].status)
=============================================================================
