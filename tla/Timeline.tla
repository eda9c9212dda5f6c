------------------------------ MODULE Timeline ------------------------------
(***************************************************************************)
(* GET /logs/timeline (routers/logs.py): the history of one character,     *)
(* merged from the game's three logs and the command queue.  Each source   *)
(* is read by a statement of its own and cut to `limit' before the merge,  *)
(* while the game and the overlay go on writing.                           *)
(***************************************************************************)
EXTENDS Integers, Sequences, FiniteSets, SequencesExt

CONSTANTS
    Items, ItemDb,      \* items rows may name, and those item_db knows
    Limits,             \* limits a caller may ask for
    MaxDate, MaxRows    \* bounds: the database's clock; rows in all

NoItem == "no item"

ASSUME ItemAssumption == ItemDb \subseteq Items /\ NoItem \notin Items
ASSUME LimitAssumption == Limits \subseteq Nat \ {0}
ASSUME DateAssumption == MaxDate \in Nat

VARIABLES
    today,      \* NOW() of the database, which is not set back here
    log,        \* the game's three logs, oldest row first
    queue,      \* ro_admin_commands: this character's rows, oldest first
    installed,  \* ro_admin_commands exists
    read,       \* the request under way, or the page it came to
    instants    \* the values of `installed' since the request began

timelineWorld == <<today, log, queue, installed>>
timelineVars == <<timelineWorld, read, instants>>

Logs == {"atcommandlog", "zenylog", "picklog"}
Sources == Logs \cup {"queue"}
Waiting == read.at \notin {"idle", "answered"}
-----------------------------------------------------------------------------
(***************************************************************************)
(* The world: rows of the game, and rows of the overlay with their effects.*)
(***************************************************************************)
TimelineInit ==
    /\ today = 0 /\ log = [s \in Logs |-> <<>>] /\ queue = <<>>
    /\ installed \in BOOLEAN
    /\ read = [at |-> "idle"] /\ instants = {}

Rows == Len(queue) + Len(log["atcommandlog"]) + Len(log["zenylog"]) + Len(log["picklog"])

\* The world moved: an answer is on its way, a request under way goes on.
Idle == [at |-> "idle"]
Aside ==
    /\ read' = IF Waiting THEN read ELSE Idle
    /\ instants' = IF Waiting THEN instants \cup {installed'} ELSE {}

Written(s, item, cause) ==
    /\ log' = [log EXCEPT ![s] = Append(@, [date |-> today, item |-> item, cause |-> cause])]
    /\ UNCHANGED <<today, queue, installed>>
    /\ Aside

ClockTicks ==
    /\ today < MaxDate /\ today' = today + 1
    /\ UNCHANGED <<log, queue, installed>> /\ Aside

GameLogs ==
    /\ Rows < MaxRows
    /\ \/ \E s \in {"atcommandlog", "zenylog"} : Written(s, NoItem, 0)
       \/ \E i \in Items : Written("picklog", i, 0)

QueueRow ==
    /\ installed /\ Rows < MaxRows
    /\ \E a \in {"give_item", "sync_character"} :
       \E i \in IF a = "give_item" THEN Items ELSE {NoItem} :
         queue' = Append(queue, [date |-> today, action |-> a, item |-> i,
                                 status |-> "pending"])
    /\ UNCHANGED <<today, log, installed>> /\ Aside

\* The overlay takes a row, the game carries it out and logs it, and the
\* overlay gives its verdict.
Moves(q, from, to) ==
    /\ queue[q].status = from
    /\ queue' = [queue EXCEPT ![q].status = to]
    /\ UNCHANGED <<today, log, installed>> /\ Aside

ClaimRow == \E q \in DOMAIN queue : Moves(q, "pending", "processing")
\* Either verdict; nothing here tells them apart.
FinishRow == \E q \in DOMAIN queue : Moves(q, "processing", "finished")

GiveItem ==
    /\ \E q \in DOMAIN queue :
         /\ queue[q].status = "processing" /\ queue[q].action = "give_item"
         /\ \A e \in Range(log["picklog"]) : e.cause # q
         /\ Written("picklog", queue[q].item, q)

\* schema.sql is run, or an unused queue is dropped.
InstallQueue ==
    /\ queue = <<>>
    /\ installed' = ~installed
    /\ UNCHANGED <<today, log, queue>> /\ Aside
-----------------------------------------------------------------------------
(***************************************************************************)
(* The request.                                                            *)
(***************************************************************************)
\* An operator introduced as a mistake is never used: it is the definition
\* that follows it with one plausible slip, which a run's properties catch.

\* Mistake: the queue is read first.
OrderQueueFirst == <<"queue", "atcommandlog", "zenylog", "picklog">>

\* The statements, in the order in which they are sent.
Order == <<"atcommandlog", "zenylog", "picklog", "queue">>

Kind(s) == CASE s = "atcommandlog" -> "command" [] s = "zenylog" -> "zeny"
             [] s = "picklog" -> "item"         [] s = "queue" -> "queued"

Table(s) == IF s = "queue" THEN queue ELSE log[s]

Entry(s, n) ==
    [kind |-> Kind(s), n |-> n, date |-> Table(s)[n].date, item |-> Table(s)[n].item,
     status |-> IF s = "queue" THEN queue[n].status ELSE "none", named |-> FALSE]

\* The rows that a statement may return: the newest `limit', by id where the
\* table has one.  atcommandlog has none: rows of one date come in any order.
Newest(s, limit) ==
    LET all == DOMAIN Table(s)
        size == IF Cardinality(all) < limit THEN Cardinality(all) ELSE limit
    IN {K \in SUBSET all :
          /\ Cardinality(K) = size
          /\ \A i \in K, j \in all \ K :
               IF s = "atcommandlog" THEN Table(s)[i].date >= Table(s)[j].date ELSE i > j}

\* The element of S that i - 1 others come before.
Nth(S, i, Before(_, _)) == CHOOSE x \in S : Cardinality({y \in S : Before(y, x)}) = i - 1

Fetched(s, K) == [i \in 1 .. Cardinality(K) |-> Entry(s, Nth(K, i, >))]

AskTimeline ==
    /\ ~Waiting
    /\ \E limit \in Limits :
         read' = [at |-> "read", next |-> 1, limit |-> limit, sources |-> {},
                  got |-> [s \in Sources |-> <<>>], seen |-> [s \in Sources |-> 0],
                  page |-> <<>>]
    /\ instants' = {installed}
    /\ UNCHANGED timelineWorld

Onward(r) == [r EXCEPT !.next = @ + 1, !.at = IF r.next = Len(Order) THEN "names" ELSE "read"]

\* errno 1146 on the queue: it is left out of `sources'.
Unread(r) == r

ReadSource ==
    /\ read.at = "read"
    /\ LET s == Order[read.next] IN
       IF s = "queue" /\ ~installed THEN read' = Onward(Unread(read))
       ELSE \E K \in Newest(s, read.limit) :
              read' = Onward([read EXCEPT !.sources = @ \cup {s},
                                          !.got[s] = Fetched(s, K),
                                          !.seen[s] = Len(Table(s))])
    /\ UNCHANGED <<timelineWorld, instants>>

ItemsOf(entries) == {e.item : e \in Range(entries)} \ {NoItem}

\* One lookup for the rows of picklog and the give_item rows of the queue.
Asked(got) == ItemsOf(got["picklog"]) \cup ItemsOf(got["queue"])

LookupNames(ids) == ids \cap ItemDb

Named(entries, names) == [i \in DOMAIN entries |->
                            [entries[i] EXCEPT !.named = entries[i].item \in names]]

\* list.sort is stable, with reverse=True as well.
Sorted(entries) ==
    LET Before(i, j) == \/ entries[i].date > entries[j].date
                        \/ entries[i].date = entries[j].date /\ i < j
    IN [i \in DOMAIN entries |-> entries[Nth(DOMAIN entries, i, Before)]]

Cut(entries, limit) == SubSeq(entries, 1, IF Len(entries) < limit THEN Len(entries) ELSE limit)

\* Mistake: the page is cut before it is sorted.
MergedCutFirst(entries, limit) == Sorted(Cut(entries, limit))

Merged(entries, limit) == Cut(Sorted(entries), limit)

AnswerTimeline ==
    /\ read.at = "names"
    /\ LET got == read.got
           all == got["atcommandlog"] \o got["zenylog"] \o got["picklog"] \o got["queue"]
           names == LookupNames(Asked(got))
       IN read' = [read EXCEPT !.at = "answered", !.got = [s \in Sources |-> <<>>],
                               !.page = Merged(Named(all, names), read.limit)]
    /\ UNCHANGED <<timelineWorld, instants>>

TimelineNext ==
    \/ ClockTicks \/ GameLogs \/ QueueRow \/ ClaimRow \/ FinishRow \/ GiveItem
    \/ InstallQueue \/ AskTimeline \/ ReadSource \/ AnswerTimeline

TimelineSpec == TimelineInit /\ [][TimelineNext]_timelineVars
-----------------------------------------------------------------------------
(***************************************************************************)
(* Properties.                                                             *)
(***************************************************************************)
TimelineTypeOK ==
    /\ today \in 0 .. MaxDate /\ installed \in BOOLEAN /\ instants \subseteq BOOLEAN
    /\ \A s \in Logs : \A i \in DOMAIN log[s] :
         log[s][i].date \in 0 .. today /\ log[s][i].cause \in 0 .. Len(queue)
    /\ queue # <<>> => installed
    /\ \A q \in DOMAIN queue :
         queue[q].status \in {"pending", "processing", "finished"}
    /\ read.at \in {"idle", "read", "names", "answered"}
    /\ read.at # "idle" => Len(read.page) <= read.limit /\ read.sources \subseteq Sources

Page == IF read.at = "answered" THEN read.page ELSE <<>>
OnPage(s, n) == \E e \in Range(Page) : e.kind = Kind(s) /\ e.n = n
IsFullFrom(date) == Len(Page) = read.limit /\ \A e \in Range(Page) : e.date >= date

\* The page is newest first, and what it leaves out of a source is not newer
\* than anything on it: cutting each source before the merge loses nothing.
NewestFirst ==
    read.at = "answered" =>
        /\ \A i, j \in DOMAIN Page : i < j => Page[i].date >= Page[j].date
        /\ \A s \in read.sources : \A n \in 1 .. read.seen[s] :
             ~OnPage(s, n) => IsFullFrom(Table(s)[n].date)

\* An item on the page that came from a queued command has that command on the
\* page too, unless the page was full before it, and it does not say that the
\* command is still to be carried out.
EffectHasItsCause ==
    \A e \in Range(Page) :
        e.kind = "item" =>
            LET q == log["picklog"][e.n].cause IN
            q # 0 => \/ IsFullFrom(queue[q].date)
                     \/ \E c \in Range(Page) :
                          c.kind = "queued" /\ c.n = q /\ c.status # "pending"

\* `sources' names the tables that were read and no other: the queue is left
\* out only if it was missing at some instant, and named only if it was there.
SourcesAreThoseRead ==
    read.at = "answered" =>
        /\ Logs \subseteq read.sources
        /\ ("queue" \in read.sources) \in instants

\* No entry carries the bare id of an item whose name the database knows.
NamesAreResolved == \A e \in Range(Page) : e.item \in ItemDb => e.named

\* Together: the page is the newest of what was read, by its name, and says
\* where it was read.
PageIsOfItsSources ==
    TimelineTypeOK /\ NewestFirst /\ SourcesAreThoseRead /\ NamesAreResolved
=============================================================================
