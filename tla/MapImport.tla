----------------------------- MODULE MapImport ------------------------------
(***************************************************************************)
(* importers/import_maps.py writing ro_admin_maps in one transaction while *)
(* routers/maps.py and the maps part of /system/capabilities read it, each *)
(* statement on a connection of its own (db.py).                           *)
(*                                                                         *)
(* MySQL is modelled as the code uses it: a statement sees what is         *)
(* committed, a connection that is lost is rolled back, DDL waits for the  *)
(* transaction that holds the table, and a name that differs from another  *)
(* only in case is the same key.                                           *)
(***************************************************************************)
EXTENDS MapCache

CONSTANTS
    DbPath,     \* "re" or "pre-re": the mode the operator named
    Shapes,     \* for each file, the main headers it may have: [size, stated, count]
    Collate,    \* a name's place in the collation of ro_admin_maps.name
    NoTable,
    Before,     \* what the database starts with: no table, or an earlier import
    Windows,    \* [offset, limit] of a listing
    MaxRuns     \* bound: runs of the importer

SourceNames == {"import", "re", "pre-re", "base"}

\* What a table holds after an import: rows that MySQL accepted, made of maps
\* that parsed.
AnImport(t) ==
    /\ IsFiniteSet(t)
    /\ t \subseteq [source : SourceNames,
                    record : [name : DOMAIN Collate, width : Nat, height : Nat,
                              cells : Grids, walkable : Nat]]
    /\ \A m \in t : /\ Len(m.record.cells) = m.record.width * m.record.height
                    /\ m.record.walkable = WalkableCells(m.record.cells)
    /\ \A m, o \in t : Collate[m.record.name] = Collate[o.record.name] => m = o

ASSUME DbPathAssumption == DbPath \in {"re", "pre-re"}
ASSUME ShapeAssumption == Shapes \in [1 .. 3 -> SUBSET [size : Nat, stated : Nat, count : Nat]]
ASSUME CollateAssumption ==
    /\ Collate \in [DOMAIN Collate -> Nat]
    /\ \A e \in Entries : e.name \in DOMAIN Collate
ASSUME BeforeAssumption == \A t \in Before : t = NoTable \/ AnImport(t)
ASSUME WindowAssumption == \A w \in Windows : w.offset \in Nat /\ w.limit \in Nat \ {0}
ASSUME MaxRunsAssumption == MaxRuns \in Nat

VARIABLES
    pc,         \* where the importer is
    dry,        \* --dry-run
    file,       \* the cache being read: 1, 2, 3
    walk,       \* the walk over that file
    layers,     \* the files parsed
    exit,       \* how the last run ended
    todo,       \* maps not inserted yet
    view,       \* the table as the importer's transaction sees it
    runs,
    table,      \* the table as everybody else sees it
    request,    \* a reader between two of its statements, or its answer
    seen        \* the tables that were there since the request began

importer == <<pc, dry, file, walk, layers, exit, todo, view, runs>>
vars == <<importer, table, request, seen>>
others == <<runs, table, request, seen>>

Sources == <<"import", DbPath, "base">>
Answer(kind, status) == [at |-> "answered", kind |-> kind, status |-> status]
NoRequest == Answer("none", 0)

Init ==
    /\ pc = "idle" /\ dry = FALSE /\ file = 1 /\ walk = NoWalk /\ layers = <<>>
    /\ exit = "none" /\ todo = {} /\ view = NoTable /\ runs = 0
    /\ table \in Before /\ request = NoRequest /\ seen = {}

(***************************************************************************)
(* The operator.                                                           *)
(***************************************************************************)
\* Everybody sees t from now on.
Publish(t) == table' = t /\ seen' = seen \cup {t}

CreateTable ==
    /\ table = NoTable
    /\ Publish({})
    /\ UNCHANGED <<importer, request>>

\* DROP TABLE waits for the transaction that has used the table.
DropTable ==
    /\ table # NoTable
    /\ pc # "insert"
    /\ Publish(NoTable)
    /\ UNCHANGED <<importer, request>>

(***************************************************************************)
(* The importer, up to its transaction.                                    *)
(***************************************************************************)
\* The process ends, and its memory with it.
End(how) ==
    /\ pc' = "idle" /\ exit' = how
    /\ dry' = FALSE /\ file' = 1 /\ walk' = NoWalk /\ layers' = <<>>
    /\ todo' = {} /\ view' = NoTable

Start ==
    /\ pc = "idle"
    /\ runs < MaxRuns
    /\ runs' = runs + 1
    /\ \/ /\ pc' = "files" /\ exit' = "running" /\ dry' \in BOOLEAN
          /\ UNCHANGED <<file, walk, layers, todo, view>>
       \/ End("one")                              \* not a directory
    /\ UNCHANGED <<table, request, seen>>

\* read_layers(): a missing file is skipped.
SkipFile ==
    /\ pc = "files"
    /\ file \in DOMAIN Sources
    /\ file' = file + 1
    /\ UNCHANGED <<pc, dry, walk, layers, exit, todo, view, others>>

OpenFile ==
    /\ pc = "files"
    /\ file \in DOMAIN Sources
    /\ \E s \in Shapes[file] : walk' = Opened(s.size, s.stated, s.count)
    /\ pc' = "walk"
    /\ UNCHANGED <<dry, file, layers, exit, todo, view, others>>

Walk ==
    /\ pc = "walk"
    /\ walk.state = "open"
    /\ Len(walk.maps) < walk.count
    /\ \E e \in Entries, grid \in Grids \cup {Corrupt} :
         /\ EmptySlice(walk, e) => grid = Corrupt
         /\ walk' = ReadMap(walk, e, grid)
    /\ UNCHANGED <<pc, dry, file, layers, exit, todo, view, others>>

\* A file that does not parse ends the run, with nothing written.
CloseFile ==
    /\ pc = "walk"
    /\ walk.state = "open" => Len(walk.maps) = walk.count
    /\ LET w == IF walk.state = "open" THEN Finished(walk) ELSE walk IN
         IF w.state = "parsed"
         THEN /\ layers' = Append(layers, [path |-> Sources[file], maps |-> w.maps])
              /\ pc' = "files" /\ file' = file + 1 /\ walk' = w
              /\ UNCHANGED <<dry, exit, todo, view>>
         ELSE End("one")
    /\ UNCHANGED others

\* No file at all is an error; a dry run stops here.
LayerFiles ==
    /\ pc = "files"
    /\ file \notin DOMAIN Sources
    /\ IF layers = <<>> THEN End("one")
       ELSE IF dry THEN End("zero")
       ELSE /\ todo' = Layer(layers) /\ pc' = "delete"
            /\ UNCHANGED <<dry, file, walk, layers, exit, view>>
    /\ UNCHANGED others

(***************************************************************************)
(* The transaction.                                                        *)
(***************************************************************************)
\* Mistake: autocommit=True.
VisibleAtOnce(v) == v

\* autocommit=False: what the others see after a statement of the importer
\* that leaves its own view at v.
Visible(v) == table

\* Mistake: the exception is not raised again.
RollbackInSilence == End("zero") /\ UNCHANGED <<table, seen>>

\* Any statement may fail: no connection, no table, a lost connection.
Rollback == End("raised") /\ UNCHANGED <<table, seen>>

Delete ==
    /\ pc = "delete"
    /\ \/ /\ table # NoTable
          /\ view' = {} /\ pc' = "insert"
          /\ Publish(Visible({}))
          /\ UNCHANGED <<dry, file, walk, layers, exit, todo>>
       \/ Rollback
    /\ UNCHANGED <<runs, request>>

\* UNSIGNED columns and the primary key refuse what the caches may hold.
Accepted(m) ==
    /\ m.record.width >= 0 /\ m.record.height >= 0
    /\ \A v \in view : Collate[v.record.name] # Collate[m.record.name]

Insert ==
    /\ pc = "insert"
    /\ \/ \E m \in todo :
            /\ Accepted(m)
            /\ view' = view \cup {m} /\ todo' = todo \ {m}
            /\ Publish(Visible(view \cup {m}))
            /\ UNCHANGED <<pc, dry, file, walk, layers, exit>>
       \/ todo # {} /\ Rollback
    /\ UNCHANGED <<runs, request>>

\* The answer to COMMIT may be lost after the server has committed.
Commit ==
    /\ pc = "insert"
    /\ todo = {}
    /\ \/ Publish(view) /\ \E how \in {"zero", "raised"} : End(how)
       \/ Rollback
    /\ UNCHANGED <<runs, request>>

\* The importer is killed; the server rolls back what it had begun.
Crash ==
    /\ pc # "idle"
    /\ End("killed")
    /\ UNCHANGED others

(***************************************************************************)
(* The readers.                                                            *)
(***************************************************************************)
Rank(t, m) ==
    Cardinality({o \in t : Collate[o.record.name] < Collate[m.record.name]})

\* ORDER BY name LIMIT limit OFFSET offset
Page(t, w) == {m \in t : Rank(t, m) \in w.offset .. (w.offset + w.limit - 1)}

\* _query(): an absent table is 503.
Reply(kind, good) ==
    request' = IF table = NoTable THEN Answer(kind, 503) ELSE good

\* list_maps: the total, and then the page, in two statements.
CountList ==
    /\ request.at = "answered"
    /\ \E w \in Windows :
         Reply("list", [at |-> "page", window |-> w, total |-> Cardinality(table)])
    /\ seen' = {table}
    /\ UNCHANGED <<importer, table>>

ReadPage ==
    /\ request.at = "page"
    /\ Reply("list", [at |-> "answered", kind |-> "list", status |-> 200,
                      window |-> request.window, total |-> request.total,
                      items |-> Page(table, request.window)])
    /\ UNCHANGED <<importer, table, seen>>

\* capabilities: the tables that exist, and then the rows of this one.
ReadPresent ==
    /\ request.at = "answered"
    /\ request' = IF table = NoTable
                  THEN [at |-> "answered", kind |-> "caps", status |-> 200,
                        imported |-> FALSE, count |-> 0]
                  ELSE [at |-> "count"]
    /\ seen' = {table}
    /\ UNCHANGED <<importer, table>>

\* Mistake: a table that exists is taken for an import.
ImportedIfPresent(n) == TRUE

\* _maps(): not through _query, so a table dropped in between is a 500.
Imported(n) == n # 0

CountMaps ==
    /\ request.at = "count"
    /\ request' = IF table = NoTable THEN Answer("caps", 500)
                  ELSE [at |-> "answered", kind |-> "caps", status |-> 200,
                        imported |-> Imported(Cardinality(table)),
                        count |-> Cardinality(table)]
    /\ UNCHANGED <<importer, table, seen>>

Shootable == {0, 2, 3, 4, 5, 6}
Water == {3}
NotWalkable == {1, 5}     \* BLOCKED_GAT of the service, its own copy

\* get_cell of a stored row; x and y count from 0.
CellAt(m, x, y) ==
    LET gat == m.cells[y * m.width + x + 1] IN
    [gat |-> gat, walkable |-> gat \notin NotWalkable,
     shootable |-> gat \in Shootable, water |-> gat \in Water]

Outside(m, x, y) == x >= m.width \/ y >= m.height

\* get_cell of the row that was found.
CellReply(m, x, y) ==
    IF Len(m.cells) # m.width * m.height THEN Answer("cell", 500)
    ELSE IF Outside(m, x, y) THEN Answer("cell", 422)
    ELSE [at |-> "answered", kind |-> "cell", status |-> 200, cell |-> CellAt(m, x, y)]

\* get_map, get_cells and get_cell: one statement.
ReadMapRow ==
    /\ request.at = "answered"
    /\ \E e \in Entries, x \in 0 .. 1, y \in 0 .. 1 :
         LET found == {m \in table : Collate[m.record.name] = Collate[e.name]} IN
         IF table # NoTable /\ found = {} THEN request' = Answer("cell", 404)
         ELSE Reply("cell", CellReply((CHOOSE f \in found : TRUE).record, x, y))
    /\ seen' = {table}
    /\ UNCHANGED <<importer, table>>

Next ==
    \/ CreateTable \/ DropTable
    \/ Start \/ SkipFile \/ OpenFile \/ Walk \/ CloseFile \/ LayerFiles
    \/ Delete \/ Insert \/ Commit \/ Crash
    \/ CountList \/ ReadPage \/ ReadPresent \/ CountMaps \/ ReadMapRow

Spec == Init /\ [][Next]_vars

(***************************************************************************)
(* Properties.                                                             *)
(***************************************************************************)
TypeOK ==
    /\ pc \in {"idle", "files", "walk", "delete", "insert"}
    /\ dry \in BOOLEAN
    /\ file \in 1 .. 4
    /\ walk.state \in {"none", "open", "bad", "parsed"}
    /\ walk.state = "open" => walk.offset <= walk.size
    /\ layers \in Seq([path : SourceNames, maps : Seq([name : DOMAIN Collate, width : Int,
                       height : Int, cells : Grids, walkable : Nat])])
    /\ exit \in {"none", "running", "zero", "one", "raised", "killed"}
    /\ runs \in 0 .. MaxRuns
    /\ table # NoTable => \A m \in table : m.source \in SourceNames
    /\ request.at \in {"answered", "page", "count"}

\* A cache that parses was read whole: every byte after the main header belongs
\* to exactly one map.  Only a length below zero, which the walk follows
\* backwards, escapes the checks of parse_map_cache.
EveryByteOnce ==
    walk.state = "parsed" =>
        \/ \A b \in MainHeaderSize .. walk.size - 1 :
             Cardinality({k \in DOMAIN walk.spans :
                             b >= walk.spans[k].from /\ b < walk.spans[k].to}) = 1
        \/ \E k \in DOMAIN walk.spans :
             walk.spans[k].to < walk.spans[k].from + MapInfoSize

\* Each name of the caches is imported once, from the first file that has it
\* and from its first place in that file, as the map server resolves it.
FirstLayerWins ==
    pc = "delete" =>
        LET At == UNION {{k} \X DOMAIN layers[k].maps : k \in DOMAIN layers}
            Found(p) == layers[p[1]].maps[p[2]]
            Precedes(p, q) == p[1] < q[1] \/ (p[1] = q[1] /\ p[2] < q[2])
        IN /\ \A p \in At :
                \/ [source |-> layers[p[1]].path, record |-> Found(p)] \in todo
                \/ \E q \in At : Precedes(q, p) /\ Found(q).name = Found(p).name
           /\ Cardinality(todo) = Cardinality({Found(p).name : p \in At})

\* The density stored by the importer is what the service says of the cells,
\* each with its own copy of the rule, and every cell of a map can be asked for.
DensityMatchesCells ==
    table # NoTable =>
        \A m \in table :
            LET r == m.record IN
            r.walkable = Cardinality({c \in (0 .. r.width - 1) \X (0 .. r.height - 1) :
                                        CellAt(r, c[1], c[2]).walkable})

\* Together: every map that is stored is one of the files', read at its place.
MapsAreOfTheFiles == TypeOK /\ EveryByteOnce /\ FirstLayerWins /\ DensityMatchesCells

\* The total and the page of a listing are two statements.  They disagree only
\* if an import, or DDL, came in between; and both come from tables that were
\* there while the request ran.
PageMatchesTotal ==
    request.at = "answered" /\ request.kind = "list" /\ request.status = 200 =>
        /\ \E t \in seen \ {NoTable} : request.total = Cardinality(t)
        /\ \E t \in seen \ {NoTable} : request.items \subseteq t
        /\ Cardinality(seen) = 1 =>
             LET left == request.total - request.window.offset IN
             Cardinality(request.items) =
                 IF left <= 0 THEN 0
                 ELSE IF left < request.window.limit THEN left ELSE request.window.limit

\* What the capabilities say of the maps was so at some instant of the request;
\* a half-written table is never counted, nor an empty one called imported.
CapabilityWasTrue ==
    request.at = "answered" /\ request.kind = "caps" /\ request.status = 200 =>
        IF request.imported
        THEN \E t \in seen \ {NoTable, {}} : request.count = Cardinality(t)
        ELSE request.count = 0 /\ seen \cap {NoTable, {}} # {}

\* Together: what a request of two statements says was so while it ran.
AnswersWereTrue == PageMatchesTotal /\ CapabilityWasTrue

\* The table goes from one whole import to the next (MapTable).
Whole == INSTANCE MapTable WITH
    table <- table, NoTable <- NoTable, Before <- Before,
    import <- IF pc \in {"delete", "insert"} THEN <<Layer(layers)>> ELSE <<>>

ImplementsTable == Whole!Spec

\* Exit status 0 says that the table holds the maps of the files that were
\* read, or that nothing was to be written; another status leaves the old maps,
\* or the new ones when only the answer to COMMIT was lost.
ExitIsTrue ==
    [][exit' # exit /\ pc' = "idle" =>
         /\ exit' = "zero" => IF dry THEN table' = table ELSE table' = Layer(layers)
         /\ table' # table => pc = "insert" /\ todo = {}]_vars
=============================================================================
