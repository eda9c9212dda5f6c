------------------------------ MODULE Install -------------------------------
(***************************************************************************)
(* What an install has, and what the API says of it.  ro_admin's tables    *)
(* come and go (schema.sql half run, a DROP), the two scripts beat or fall *)
(* silent, the database's clock is set back - and a request is several     *)
(* statements, each on a connection of its own (db.py):                    *)
(*   - the tier reads of overlay.py, behind GET /system/capabilities,      *)
(*     POST /commands and GET /commands/{id};                              *)
(*   - the fallbacks of _select_characters (routers/characters.py).        *)
(* One request is followed at a time: reads change nothing another reads.  *)
(* Times are ages in seconds, read off the database's clock.               *)
(***************************************************************************)
EXTENDS Integers, Sequences, FiniteSets

CONSTANTS
    StalePolls,     \* STALE_AFTER_POLLS, 10
    MinStale,       \* _MIN_STALE_SECONDS, 5
    Poll,           \* whole seconds between two polls of each tier's script
    MaxItemId, MaxAmount, MaxDelta,   \* the ranges of _SPECS
    Numbers         \* arguments a caller may send

Tiers == {"tier1", "tier2"}
Actions == {"give_item", "adjust_zeny", "sync_character"}

ASSUME ThresholdAssumption ==
    StalePolls \in Nat /\ MinStale \in Nat /\ Poll \in [Tiers -> Nat]
ASSUME RangeAssumption ==
    MaxItemId \in Nat /\ MaxAmount \in Nat /\ MaxDelta \in Nat /\ Numbers \subseteq Int

VARIABLES
    tables,     \* ro_admin's tables that exist
    beat,       \* each tier's heartbeat row: its version and its age
    synced,     \* the character has a sync on record, within FRESH_WITHIN_SECONDS
    written,    \* the queue has a write to it at or after that sync
    request,    \* the request under way, or its answer
    held,       \* facts that held at some instant of the read under way
    always      \* facts that held all through it

world == <<tables, beat, synced, written>>
vars == <<world, request, held, always>>
-----------------------------------------------------------------------------
(***************************************************************************)
(* overlay.py: the two tiers and the classification of a heartbeat.        *)
(***************************************************************************)
\* An operator introduced as a mistake is never used: it is the definition
\* that follows it with one plausible slip, which a run's properties catch.

\* Mistake: one tier is asked for every action.
LaneOfTier1(a) == "tier1"

Lane(a) == IF a = "sync_character" THEN "tier2" ELSE "tier1"

TablesOf(t) == IF t = "tier1" THEN {"commands", "overlay"} ELSE {"tier2", "sync"}
HeartbeatOf(t) == IF t = "tier1" THEN "overlay" ELSE "tier2"

NoRow == [version |-> "none", age |-> 0]

Larger(a, b) == IF a < b THEN b ELSE a

\* Mistake: a threshold in seconds, whatever the script's own interval is.
ThresholdFixed(t) == MinStale

Threshold(t) == Larger(MinStale, Poll[t] * StalePolls)

Status(reason, installed, responding, compatible) ==
    [reason |-> reason, installed |-> installed,
     responding |-> responding, compatible |-> compatible]

Usable(s) == s.responding /\ s.compatible

Classify(t, present, row) ==
    LET age == Larger(0, row.age)
        compatible == row.version = "current"
    IN IF ~present THEN Status("not_installed", FALSE, FALSE, FALSE)
       ELSE IF row = NoRow THEN Status("never_ran", TRUE, FALSE, FALSE)
       ELSE IF age > Threshold(t) THEN Status("stale", TRUE, FALSE, compatible)
       ELSE IF ~compatible THEN Status("version", TRUE, TRUE, FALSE)
       ELSE Status("responding", TRUE, TRUE, TRUE)

(***************************************************************************)
(* What a body must be: the request models of routers/commands.py, and the *)
(* registry behind validate() that backs them up.                          *)
(***************************************************************************)
Body == [action : {"give_item"}, arg : Numbers, arg2 : Numbers, confirm : {FALSE}]
        \cup [action : {"adjust_zeny"}, arg : Numbers, arg2 : {0}, confirm : BOOLEAN]
        \cup [action : {"sync_character"}, arg : {0}, arg2 : {0}, confirm : {FALSE}]

ModelAccepts(b) ==
    \/ b.action = "give_item" /\ b.arg > 0 /\ b.arg2 \in 1 .. MaxAmount
    \/ /\ b.action = "adjust_zeny"
       /\ b.arg \in -MaxDelta .. MaxDelta
       /\ b.arg # 0
       /\ b.arg < 0 => b.confirm
    \/ b.action = "sync_character"

ArgSpec(low, high, forbidden) == [low |-> low, high |-> high, forbidden |-> forbidden]

Specs(a) ==
    CASE a = "give_item" -> <<ArgSpec(1, MaxItemId, {}), ArgSpec(1, MaxAmount, {})>>
      [] a = "adjust_zeny" -> <<ArgSpec(-MaxDelta, MaxDelta, {0})>>
      [] a = "sync_character" -> <<>>

\* Mistake: the backstop is left to the request models.
ValidateNothing(b) == TRUE

Validate(b) ==
    LET args == <<b.arg, b.arg2>> IN
    \A i \in DOMAIN Specs(b.action) :
        LET s == Specs(b.action)[i] IN
        args[i] >= s.low /\ args[i] <= s.high /\ args[i] \notin s.forbidden

\* The row: an argument the action does not take is stored as 0.
QueuedRow(b) ==
    LET n == Len(Specs(b.action)) IN
    [action |-> b.action, arg |-> IF n > 0 THEN b.arg ELSE 0,
     arg2 |-> IF n > 1 THEN b.arg2 ELSE 0]
-----------------------------------------------------------------------------
(***************************************************************************)
(* The world, and what is remembered of it while a request runs.           *)
(***************************************************************************)
\* Facts, in the words of the operator and not of the classifier: a script is
\* alive unless it has been silent for the minimum and for StalePolls polls.
Alive(t, row) == row.age <= MinStale \/ row.age <= StalePolls * Poll[t]

Facts(tbl, rows, syn, wri) ==
    LET ran == {t \in Tiers : rows[t] # NoRow}
        alive == {t \in ran : Alive(t, rows[t])}
        current == {t \in ran : rows[t].version = "current"}
    IN ({"installed"} \X {t \in Tiers : TablesOf(t) \subseteq tbl})
       \cup ({"ran"} \X ran) \cup ({"alive"} \X alive) \cup ({"current"} \X current)
       \cup ({"usable"} \X (alive \cap current))
       \cup (IF syn THEN {<<"synced", "char">>} ELSE {})
       \cup (IF "commands" \notin tbl \/ ~wri THEN {<<"unwritten", "char">>} ELSE {})

Idle == [kind |-> "none", at |-> "answered"]
UnderWay == request.at # "answered"

\* What a request is reading about, and the facts of that as they are now.
About(r) == IF r.kind = "chars" THEN "char" ELSE r.tier
FactsFor(r, facts) == {f \in facts : f[2] = About(r)}

\* The world moved: a request under way may have seen either side of the step,
\* an answer is on its way.
Aside ==
    LET facts == FactsFor(request, Facts(tables', beat', synced', written')) IN
    IF UnderWay
    THEN held' = held \cup facts /\ always' = always \cap facts /\ UNCHANGED request
    ELSE held' = {} /\ always' = {} /\ request' = Idle

Init ==
    /\ tables = {} /\ beat = [t \in Tiers |-> NoRow]
    /\ synced = FALSE /\ written = FALSE
    /\ request = Idle /\ held = {} /\ always = {}

CreateTable ==
    /\ \E x \in (TablesOf("tier1") \cup TablesOf("tier2")) \ tables :
         tables' = tables \cup {x}
    /\ UNCHANGED <<beat, synced, written>>
    /\ Aside

DropTable ==
    /\ \E x \in tables :
         /\ tables' = tables \ {x}
         /\ beat' = [t \in Tiers |-> IF x = HeartbeatOf(t) THEN NoRow ELSE beat[t]]
         /\ synced' = (synced /\ x # "sync")
         /\ written' = (written /\ x # "commands")
    /\ Aside

\* A script of this or of another release polls; Tier 2's with its hook.
Beat ==
    /\ \E t \in Tiers, v \in {"current", "other"} :
         /\ HeartbeatOf(t) \in tables
         /\ beat' = [beat EXCEPT ![t] = [version |-> v, age |-> 0]]
    /\ UNCHANGED <<tables, synced, written>>
    /\ Aside

\* Bound: one second past the threshold is as good as older.
MaxAge(t) == Larger(MinStale, Poll[t] * StalePolls) + 1

Older(t, row, by) ==
    IF row = NoRow \/ row.age + by \notin -1 .. MaxAge(t) THEN row
    ELSE [row EXCEPT !.age = @ + by]

\* Time passes, or the database's clock is set back by a second.
Tick ==
    /\ \E by \in {1, -1} : beat' = [t \in Tiers |-> Older(t, beat[t], by)]
    /\ UNCHANGED <<tables, synced, written>>
    /\ Aside

\* The character's evidence: a sync is recorded, grows old, or a write is claimed.
Evidence ==
    /\ \/ "sync" \in tables /\ synced' = TRUE /\ written' = FALSE
       \/ synced /\ synced' = FALSE /\ UNCHANGED written
       \/ "commands" \in tables /\ written' = TRUE /\ UNCHANGED synced
    /\ UNCHANGED <<tables, beat>>
    /\ Aside
-----------------------------------------------------------------------------
(***************************************************************************)
(* The handlers, a statement at a time.                                    *)
(***************************************************************************)
\* A request, or its next part: from here on it is about something else.
Turn(r) ==
    /\ request' = r
    /\ held' = FactsFor(r, Facts(tables, beat, synced, written)) /\ always' = held'
    /\ UNCHANGED world

Begin(r) == ~UnderWay /\ Turn(r)
Continue(r) == request' = r /\ UNCHANGED <<world, held, always>>

Unknown == Status("unread", FALSE, FALSE, FALSE)
Request(kind, at, tier) ==
    [kind |-> kind, at |-> at, tier |-> tier, status |-> 0,
     got |-> [t \in Tiers |-> Unknown], body |-> <<>>]
Answered(r, status) == [r EXCEPT !.at = "answered", !.status = status]

\* GET /system/capabilities reads both tiers, Tier 1 first.
Capabilities == Begin(Request("caps", "tables", "tier1"))

\* POST /commands: the body is checked before the handler runs, and then the
\* tier that the action needs is asked for.
PostCommand ==
    \E b \in Body :
        LET r == Request("post", "tables", Lane(b.action)) IN
        Begin(IF ModelAccepts(b) THEN [r EXCEPT !.body = <<b>>] ELSE Answered(r, 422))

\* GET /commands/{id}: the row, and then the tier of the row's own action.  There may be
\* no such row; without its table the statement is an error nobody catches.
GetCommand ==
    \/ /\ "commands" \in tables
       /\ \E a \in Actions :
            Begin([Request("get", "tables", Lane(a)) EXCEPT
                     !.body = <<[action |-> a]>>])
    \/ Begin(Answered(Request("get", "tables", "tier1"),
                      IF "commands" \in tables THEN 404 ELSE 500))

\* What each handler does with the status of a tier it has read.
Take(status) ==
    LET r == [request EXCEPT !.got[request.tier] = status] IN
    CASE r.kind = "caps" /\ r.tier = "tier1" ->
            Turn([r EXCEPT !.tier = "tier2", !.at = "tables"])
      [] r.kind = "post" /\ Usable(status) -> Continue([r EXCEPT !.at = "insert"])
      [] r.kind = "post" /\ ~Usable(status) -> Continue(Answered(r, 409))
      [] OTHER -> Continue(Answered(r, 200))

\* _read_tier, first statement: information_schema.
ReadTables ==
    /\ request.at = "tables"
    /\ IF TablesOf(request.tier) \subseteq tables
       THEN Continue([request EXCEPT !.at = "row"])
       ELSE Take(Classify(request.tier, FALSE, NoRow))

\* Second statement.  A table dropped since is an error nobody catches.
ReadRow ==
    /\ request.at = "row"
    /\ IF HeartbeatOf(request.tier) \in tables
       THEN Take(Classify(request.tier, TRUE, beat[request.tier]))
       ELSE Continue(Answered(request, 500))

Insert ==
    /\ request.at = "insert"
    /\ Continue(IF ~Validate(request.body[1]) THEN Answered(request, 422)
                ELSE IF "commands" \notin tables THEN Answered(request, 500)
                ELSE Answered(request, 202))

\* Mistake: every missing table is taken for the sync table.
NamesSyncAlways(table) == TRUE

\* _missing_table_names(exc, SYNC_TABLE): which table the 1146 names.
NamesSync(table) == table = "sync"

\* The answer of a character read: the evidence it read, and whether it calls
\* the row of a connected character stale.
Characters(evidence, known) ==
    [kind |-> "chars", at |-> "answered", status |-> 200, evidence |-> evidence,
     stale |-> ~(evidence /\ ~known)]

\* _select_characters, with the join and the subquery.  Where both tables are
\* missing, the error names either.
SelectAll ==
    LET missing == {"sync", "commands"} \ tables IN
    IF missing = {} THEN Begin(Characters(synced, written))
    ELSE \E table \in missing :
            Begin(Request("chars", IF NamesSync(table) THEN "plain" ELSE "sync_only",
                          "tier2"))

SelectSyncOnly ==
    /\ request.at = "sync_only"
    /\ Continue(IF "sync" \in tables THEN Characters(synced, FALSE)
                ELSE [request EXCEPT !.at = "plain"])

SelectPlain ==
    /\ request.at = "plain"
    /\ Continue(Characters(FALSE, FALSE))

Next ==
    \/ CreateTable \/ DropTable \/ Beat \/ Tick \/ Evidence
    \/ Capabilities \/ PostCommand \/ GetCommand \/ ReadTables \/ ReadRow \/ Insert
    \/ SelectAll \/ SelectSyncOnly \/ SelectPlain

Spec == Init /\ [][Next]_vars
-----------------------------------------------------------------------------
(***************************************************************************)
(* Properties.                                                             *)
(***************************************************************************)
Statuses == [reason : {"unread", "not_installed", "never_ran", "stale", "version", "responding"},
             installed : BOOLEAN, responding : BOOLEAN, compatible : BOOLEAN]

TypeOK ==
    /\ tables \subseteq TablesOf("tier1") \cup TablesOf("tier2")
    /\ \A t \in Tiers : beat[t] # NoRow =>
         beat[t].version \in {"current", "other"} /\ beat[t].age \in -1 .. MaxAge(t)
    /\ \A t \in Tiers : HeartbeatOf(t) \notin tables => beat[t] = NoRow
    /\ synced \in BOOLEAN /\ ("sync" \notin tables => ~synced)
    /\ written \in BOOLEAN /\ ("commands" \notin tables => ~written)
    /\ request.at \in {"answered", "tables", "row", "insert", "sync_only", "plain"}
    /\ request.kind \in {"caps", "post", "get"} => request.got \in [Tiers -> Statuses]
    /\ request.at = "insert" => request.got[request.tier].reason = "responding"
    /\ always \subseteq held

\* What is said of a tier was so at some instant of the read of that tier, and
\* the fix that is named was needed at some instant: a script that has missed
\* fewer than STALE_AFTER_POLLS of its own polls is never called dead.
SaidTruly(s, t) ==
    /\ s.responding => <<"alive", t>> \in held
    /\ Usable(s) => <<"usable", t>> \in held /\ <<"installed", t>> \in held
    /\ s.reason = "not_installed" => <<"installed", t>> \notin always
    /\ s.reason = "never_ran" => <<"ran", t>> \notin always
    /\ s.reason = "stale" => <<"alive", t>> \notin always
    /\ s.reason = "version" => <<"current", t>> \notin always

TierReportsAreTrue ==
    [][request.at \in {"tables", "row"} =>
         \A t \in Tiers : request'.got[t] # request.got[t] =>
            SaidTruly(request'.got[t], t)]_vars

Consumer(a) == CASE a \in {"give_item", "adjust_zeny"} -> "tier1"
                 [] a = "sync_character" -> "tier2"

\* POST refuses a command only if the script that consumes it was missing at
\* some instant, and accepts it only if that script was there; GET answers for
\* that script too.  So POST and the capabilities agree unless something
\* changed in between.
GuardAsksTheConsumer ==
    request.at = "answered" /\ request.kind \in {"post", "get"} /\ request.body # <<>> =>
        LET t == Consumer(request.body[1].action) IN
        /\ request.status = 202 => <<"usable", t>> \in held
        /\ request.status = 409 =>
             <<"usable", t>> \notin always \/ <<"installed", t>> \notin always
        /\ request.status = 200 => request.got[t].reason # "unread"

\* Whatever the caller sends, a row that is queued is one the script can carry
\* out: its arguments are in range, none is left over, and a debit was confirmed.
QueuedIsInRange ==
    TypeOK /\ (request.kind = "post" /\ request.status = 202 =>
        LET b == request.body[1]  r == QueuedRow(b) IN
        CASE r.action = "give_item" -> r.arg \in 1 .. MaxItemId /\ r.arg2 \in 1 .. MaxAmount
          [] r.action = "adjust_zeny" ->
                /\ r.arg \in (-MaxDelta .. -1) \cup (1 .. MaxDelta) /\ r.arg2 = 0
                /\ r.arg < 0 => b.confirm
          [] r.action = "sync_character" -> r.arg = 0 /\ r.arg2 = 0)

\* The fallbacks lose no evidence: a sync that was on record all through the
\* request is in the answer, whatever became of the command queue.
EvidenceIsKept ==
    request.at = "answered" /\ request.kind = "chars" /\ request.status = 200
        /\ <<"synced", "char">> \in always => request.evidence

\* They invent none: a row called fresh had its sync on record, and no write on
\* record after it, at instants of the request.
FreshIsSupported ==
    request.at = "answered" /\ request.kind = "chars" /\ request.status = 200
        /\ ~request.stale =>
        <<"synced", "char">> \in held /\ <<"unwritten", "char">> \in held

\* No table that ro_admin adds is load-bearing for a character read: tables may
\* come and go between its statements and it still comes to an answer, which
\* has all the evidence there was and no other.
FallbackIsHonest ==
    [][/\ request.at \in {"sync_only", "plain"} /\ request' # request =>
            /\ request'.kind = "chars" /\ (request'.at = "answered" => request'.status = 200)
            /\ request.at = "plain" => request'.at = "answered"
       /\ EvidenceIsKept' /\ FreshIsSupported']_vars
=============================================================================
