------------------------------ MODULE Listings ------------------------------
(***************************************************************************)
(* The paged lists of the API, and a caller that walks one to its end:     *)
(*   /logs/commands, /logs/zeny, /logs/items   newest first; no count;     *)
(*   /characters, /accounts                    by id, or by the name that  *)
(*                       is searched for, with a flag that more follow;    *)
(*   /items                                    by id, with a total.        *)
(* Every page is a statement of its own with a LIMIT and an OFFSET, and    *)
(* rows come and go between two of them.                                   *)
(***************************************************************************)
EXTENDS Integers, Sequences, FiniteSets, SequencesExt

CONSTANTS
    PageSizes,          \* limits a caller may ask for
    Names,              \* what a row may be called: a set of numbers
    MaxListed, MaxDeletes   \* bounds: rows ever listed; rows deleted

ASSUME SizeAssumption == PageSizes \subseteq Nat \ {0} /\ Names \subseteq Nat

VARIABLES
    list,       \* the list that is walked
    rows,       \* its rows: an id, and what it is ordered by
    last,       \* the last id that was given
    deletes,    \* rows deleted since the walk began
    walk        \* the walk under way

listingVars == <<list, rows, last, deletes, walk>>

NoWalk == [at |-> "idle"]
Walking == walk.at \in {"count", "page"}

\* Each list: what it is ordered by, and how a caller learns that it is over.
\* atcommandlog has no key, and is ordered by the date, which rows share; a
\* search orders by the text that is searched for, which `char' holds
\* once, and `login' perhaps twice.
CommandLogs == [by |-> "date", newestFirst |-> TRUE, over |-> "short page"]

ZenyLogs == [by |-> "id", newestFirst |-> TRUE, over |-> "short page"]

ItemLogs == [by |-> "id", newestFirst |-> TRUE, over |-> "short page"]

ListCharacters(prefix) ==
    [by |-> IF prefix THEN "name" ELSE "id", newestFirst |-> FALSE, over |-> "flag"]

ListAccounts(prefix) ==
    [by |-> IF prefix THEN "userid" ELSE "id", newestFirst |-> FALSE, over |-> "flag"]

SearchItems == [by |-> "id", newestFirst |-> FALSE, over |-> "total"]

Lists == {CommandLogs, ZenyLogs, ItemLogs, SearchItems}
            \cup {ListCharacters(p) : p \in BOOLEAN} \cup {ListAccounts(p) : p \in BOOLEAN}

Key(id, name) == IF list.by = "id" THEN id ELSE name

\* What ORDER BY allows: rows that tie come in any order, and in another one
\* the next time.
Before(a, b) == IF list.newestFirst THEN a.key >= b.key ELSE a.key <= b.key
Results == {s \in SetToSeqs(rows) : \A i, j \in DOMAIN s : i < j => Before(s[i], s[j])}

\* An operator introduced as a mistake is never used: it is the definition
\* that follows it with one plausible slip, which a run's properties catch.

\* Mistake: no row beyond the page is asked for.
FetchExactly(limit) == limit

\* LIMIT: one row more than the page where a flag says if more follow.
Fetch(limit) == IF list.over = "flag" THEN limit + 1 ELSE limit

Slice(s, offset, n) == SubSeq(s, offset + 1, IF offset + n < Len(s) THEN offset + n ELSE Len(s))
-----------------------------------------------------------------------------
ListingInit ==
    /\ list \in Lists /\ rows = {} /\ last = 0 /\ deletes = 0 /\ walk = NoWalk

\* A name that a row may be given: of a log, the date, which does not go back.
MayBeNamed(name) ==
    CASE list.newestFirst -> \A r \in rows : r.name <= name
      [] list.by = "name" -> \A r \in rows : r.name # name
      [] OTHER -> TRUE

\* Rows are added while a walk goes on, except to item_db, which is only loaded.
AddRow ==
    /\ last < MaxListed /\ ~(list.over = "total" /\ Walking)
    /\ \E name \in Names :
         /\ MayBeNamed(name)
         /\ rows' = rows \cup {[id |-> last + 1, name |-> name, key |-> Key(last + 1, name)]}
    /\ last' = last + 1
    /\ walk' = IF Walking THEN walk ELSE NoWalk
    /\ UNCHANGED <<list, deletes>>

\* A character is deleted, an account is closed.
DeleteRow ==
    /\ list.over = "flag" /\ Walking /\ deletes < MaxDeletes
    /\ \E r \in rows : rows' = rows \ {r}
    /\ deletes' = deletes + 1
    /\ UNCHANGED <<list, last, walk>>

BeginWalk ==
    /\ ~Walking
    /\ \E limit \in PageSizes :
         walk' = [at |-> IF list.over = "total" THEN "count" ELSE "page", limit |-> limit,
                  offset |-> 0, total |-> 0, first |-> rows, met |-> {}]
    /\ deletes' = 0
    /\ UNCHANGED <<list, rows, last>>

\* search_items: the total of the matches, before the page.
CountItems ==
    /\ walk.at = "count"
    /\ walk' = [walk EXCEPT !.at = "page", !.total = Cardinality(rows)]
    /\ UNCHANGED <<list, rows, last, deletes>>

\* One page; the caller goes on until it is told, or can tell, that it is done.
ReadListing ==
    /\ walk.at = "page"
    /\ \E s \in Results :
         LET fetched == Slice(s, walk.offset, Fetch(walk.limit))
             items == Slice(fetched, 0, walk.limit)
             done == CASE list.over = "flag" -> ~(Len(fetched) > walk.limit)
                       [] list.over = "total" -> walk.offset + Len(items) >= walk.total
                       [] OTHER -> Len(items) < walk.limit
         IN walk' = [walk EXCEPT !.met = @ \cup Range(items),
                                 !.offset = @ + walk.limit,
                                 !.at = IF done THEN "done"
                                        ELSE IF list.over = "total" THEN "count" ELSE "page"]
    /\ UNCHANGED <<list, rows, last, deletes>>

ListingNext == AddRow \/ DeleteRow \/ BeginWalk \/ CountItems \/ ReadListing

ListingSpec == ListingInit /\ [][ListingNext]_listingVars
-----------------------------------------------------------------------------
(***************************************************************************)
(* Properties.                                                             *)
(***************************************************************************)
\* A walk meets every row that was there when it began and still is, but for
\* one row at most for every deletion on the way.  Rows that are added on the
\* way hide none.  (Where rows tie, the lists promise no stable order: the logs
\* of GM commands by second, and the accounts by userid.)
WalkMissesNothing ==
    walk.at = "done" /\ list.by \notin {"date", "userid"} =>
        Cardinality((walk.first \cap rows) \ walk.met) <= deletes
=============================================================================
