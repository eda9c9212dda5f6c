------------------------------ MODULE MapCache ------------------------------
(***************************************************************************)
(* importers/mapcache.py: the walk over one db/map_cache.dat and the       *)
(* layering of several.                                                    *)
(*                                                                         *)
(* A file is its size, the size and the number of maps its main header     *)
(* states, and what the walk finds where it looks: an entry of 20 bytes    *)
(* (a name, two signed dimensions, a signed length) and cells that zlib    *)
(* turns into a grid or refuses.  What stands at an offset is open, so a   *)
(* read at a wrong offset finds any entry at all.                          *)
(***************************************************************************)
EXTENDS Integers, Sequences, FiniteSets, SequencesExt

CONSTANTS
    Entries,    \* map_cache_map_info: [name, width, height, length]
    Grids,      \* decompressed cells: sequences of gat types
    Corrupt     \* cells that zlib refuses

ASSUME EntryAssumption ==
    \A e \in Entries : e.width \in Int /\ e.height \in Int /\ e.length \in Int

ASSUME GridAssumption == Grids \subseteq Seq(0 .. 6) /\ Corrupt \notin Grids

\* An operator introduced as a mistake is never used: it is the definition
\* that follows it with one plausible slip, which a run's properties catch.

MainHeaderSize == 8
MapInfoSize == 20

\* Gat types that nothing walks on; the importer counts what is left.
BlockedGat == {1, 5}

WalkableCells(grid) == Cardinality({i \in DOMAIN grid : grid[i] \notin BlockedGat})

MapRecord(e, grid) ==
    [name |-> e.name, width |-> e.width, height |-> e.height,
     cells |-> grid, walkable |-> WalkableCells(grid)]

NoWalk == [state |-> "none"]
BadWalk == [state |-> "bad"]

\* The main header: a file too short for one, or of another size than it says,
\* is refused.  spans is where each map was read: [from, to).
Opened(size, stated, count) ==
    IF size < MainHeaderSize \/ stated # size
    THEN BadWalk
    ELSE [state |-> "open", size |-> size, count |-> count,
          offset |-> MainHeaderSize, spans |-> <<>>, maps |-> <<>>]

\* Where bound i of a slice falls in a file of n bytes: from the end when it
\* is negative.  decompress() refuses an empty slice.
Bound(i, n) == IF i < 0 THEN (IF n + i < 0 THEN 0 ELSE n + i)
               ELSE IF i > n THEN n ELSE i

EmptySlice(w, e) ==
    LET start == w.offset + MapInfoSize IN
    Bound(start, w.size) >= Bound(start + e.length, w.size)

\* unpack_from() counts a negative offset from the end and needs 20 bytes.
HeaderFits(w) ==
    /\ w.offset + MapInfoSize <= w.size
    /\ w.offset < 0 => w.offset <= -MapInfoSize /\ w.size + w.offset >= 0

CellsFit(w, e) == w.offset + MapInfoSize + e.length <= w.size

\* One turn of the loop of parse_map_cache.
ReadMap(w, e, grid) ==
    IF /\ HeaderFits(w)
       /\ CellsFit(w, e)
       /\ grid # Corrupt
       /\ Len(grid) = e.width * e.height
    THEN LET next == w.offset + MapInfoSize + e.length IN
         [w EXCEPT !.offset = next,
                   !.spans = Append(@, [from |-> w.offset, to |-> next]),
                   !.maps = Append(@, MapRecord(e, grid))]
    ELSE BadWalk

\* The check after the loop: trailing bytes are refused.
Finished(w) == IF w.offset # w.size THEN BadWalk ELSE [w EXCEPT !.state = "parsed"]

Tagged(s) == [i \in DOMAIN s.maps |-> [source |-> s.path, record |-> s.maps[i]]]
AllMaps(sources) == FlattenSeq([i \in DOMAIN sources |-> Tagged(sources[i])])

\* Mistake: assignment in place of setdefault, so that the last one wins.
SetDefaultByAssignment(chosen, m) ==
    {c \in chosen : c.record.name # m.record.name} \cup {m}

SetDefault(chosen, m) ==
    IF \E c \in chosen : c.record.name = m.record.name THEN chosen ELSE chosen \cup {m}

\* layer(): every record in order, so that the first file that has a name
\* wins, and the first record of that name within it.
Layer(sources) == FoldLeft(SetDefault, {}, AllMaps(sources))
=============================================================================
