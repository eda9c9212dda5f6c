-------------------------- MODULE MapImportProofs ---------------------------
(***************************************************************************)
(* That readers of ro_admin_maps see whole imports of maps that were read  *)
(* at their places, that the exit status tells which, and that what a      *)
(* request says of them was so while it ran: for any caches, names,        *)
(* collation and number of runs.                                           *)
(***************************************************************************)
EXTENDS MapImport, Ranking

\* Where the transaction stands: what it still has to insert and what it has
\* inserted are, together, the maps of the files.
TransactionStands ==
    /\ pc \in {"delete", "insert"} => dry = FALSE
    /\ pc = "delete" => todo = Layer(layers)
    /\ pc = "insert" => table # NoTable /\ view \cup todo = Layer(layers)

LEMMA InitStands == Init => TransactionStands
  BY DEF Init, TransactionStands

\* A run that ends leaves nothing of its transaction.
LEMMA EndsStand == ASSUME NEW how, End(how) PROVE TransactionStands'
  BY DEF End, TransactionStands

LEMMA NextStands == TransactionStands /\ [Next]_vars => TransactionStands'
<1> SUFFICES ASSUME TransactionStands, [Next]_vars PROVE TransactionStands'
  OBVIOUS
<1> USE DEF TransactionStands, importer, others, Publish
<1>1. CASE CreateTable
  BY <1>1 DEF CreateTable
<1>2. CASE DropTable
  BY <1>2 DEF DropTable
<1>3. CASE Start
  BY <1>3, EndsStand DEF Start
<1>4. CASE SkipFile \/ OpenFile \/ Walk
  BY <1>4 DEF SkipFile, OpenFile, Walk
<1>5. CASE CloseFile
  BY <1>5, EndsStand DEF CloseFile
<1>6. CASE LayerFiles
  <2>1. CASE \E how \in {"one", "zero"} : End(how)
    BY <2>1, EndsStand
  <2>2. CASE ~dry /\ todo' = Layer(layers) /\ pc' = "delete" /\ UNCHANGED <<dry, layers>>
    <3>1. Layer(layers)' = Layer(layers)
      BY <2>2
    <3> QED
      BY <2>2, <3>1
  <2> QED
    BY <1>6, <2>1, <2>2 DEF LayerFiles
<1>7. CASE Delete
  BY <1>7, EndsStand DEF Delete, Rollback, Visible
<1>8. CASE Insert
  <2>1. CASE \E m \in todo :
               /\ view' = view \cup {m} /\ todo' = todo \ {m}
               /\ table' = table /\ UNCHANGED <<pc, dry, layers>>
    <3>1. view' \cup todo' = view \cup todo
      BY <2>1
    <3> QED
      BY <1>8, <2>1, <3>1 DEF Insert
  <2>2. CASE Rollback
    BY <2>2, EndsStand DEF Rollback
  <2> QED
    BY <1>8, <2>1, <2>2 DEF Insert, Visible
<1>9. CASE Commit
  BY <1>9, EndsStand DEF Commit, Rollback
<1>10. CASE Crash
  BY <1>10, EndsStand DEF Crash
<1>11. CASE CountList \/ ReadPage \/ ReadPresent \/ CountMaps \/ ReadMapRow
  BY <1>11 DEF CountList, ReadPage, ReadPresent, CountMaps, ReadMapRow
<1>12. CASE UNCHANGED vars
  BY <1>12 DEF vars
<1> QED
  BY <1>1, <1>2, <1>3, <1>4, <1>5, <1>6, <1>7, <1>8, <1>9, <1>10, <1>11, <1>12 DEF Next

-----------------------------------------------------------------------------
(***************************************************************************)
(* The abstract table.                                                     *)
(***************************************************************************)
importing == IF pc \in {"delete", "insert"} THEN <<Layer(layers)>> ELSE <<>>

LEMMA NextRefines ==
  TransactionStands /\ [Next]_vars => [Whole!Next]_<<table, importing>>
<1> SUFFICES ASSUME TransactionStands, [Next]_vars, ~UNCHANGED <<table, importing>>
             PROVE  Whole!Next
  OBVIOUS
<1> USE DEF importer, others, Publish, importing
<1>1. CASE CreateTable
  <2>1. Whole!Create
    BY <1>1 DEF CreateTable, Whole!Create
  <2> QED
    BY <2>1 DEF Whole!Next
<1>2. CASE DropTable
  <2>1. Whole!Drop
    BY <1>2 DEF DropTable, Whole!Drop
  <2> QED
    BY <2>1 DEF Whole!Next
<1>3. CASE Start
  BY <1>3 DEF Start, End
<1>4. CASE SkipFile \/ OpenFile \/ Walk
  BY <1>4 DEF SkipFile, OpenFile, Walk
<1>5. CASE CloseFile
  BY <1>5 DEF CloseFile, End
<1>6. CASE LayerFiles
  <2>1. CASE pc' = "delete"
    <3>1. importing = <<>> /\ Len(importing') = 1 /\ table' = table
      BY <1>6, <2>1 DEF LayerFiles
    <3> QED
      BY <3>1 DEF Whole!Next, Whole!Begin
  <2>2. CASE pc' # "delete"
    BY <1>6, <2>2 DEF LayerFiles, End
  <2> QED
    BY <2>1, <2>2
<1>7. CASE Delete
  <2>1. CASE pc' = "insert"
    BY <1>7, <2>1 DEF Delete, Visible, Rollback, End
  <2>2. CASE pc' # "insert"
    <3>1. Len(importing) = 1 /\ importing' = <<>> /\ table' = table
      BY <1>7, <2>2 DEF Delete, Rollback, End
    <3> QED
      BY <3>1 DEF Whole!Next, Whole!GiveUp
  <2> QED
    BY <2>1, <2>2
<1>8. CASE Insert
  <2>1. CASE pc' = "insert"
    BY <1>8, <2>1 DEF Insert, Visible, Rollback, End
  <2>2. CASE pc' # "insert"
    <3>1. Len(importing) = 1 /\ importing' = <<>> /\ table' = table
      BY <1>8, <2>2 DEF Insert, Rollback, End
    <3> QED
      BY <3>1 DEF Whole!Next, Whole!GiveUp
  <2> QED
    BY <2>1, <2>2
<1>9. CASE Commit
  <2>1. /\ importing = <<Layer(layers)>> /\ importing' = <<>>
        /\ table # NoTable /\ view = Layer(layers)
    BY <1>9 DEF Commit, Rollback, End, TransactionStands
  <2>2. CASE table' = view
    BY <2>1, <2>2 DEF Whole!Next, Whole!Commit
  <2>3. CASE table' = table
    BY <2>1, <2>3 DEF Whole!Next, Whole!GiveUp
  <2> QED
    BY <1>9, <2>2, <2>3 DEF Commit, Rollback
<1>10. CASE Crash
  <2>1. importing' = <<>> /\ table' = table
    BY <1>10 DEF Crash, End
  <2>2. CASE importing = <<>>
    BY <2>1, <2>2
  <2>3. CASE importing # <<>>
    BY <2>1, <2>3 DEF Whole!Next, Whole!GiveUp
  <2> QED
    BY <2>2, <2>3
<1>11. CASE CountList \/ ReadPage \/ ReadPresent \/ CountMaps \/ ReadMapRow
  BY <1>11 DEF CountList, ReadPage, ReadPresent, CountMaps, ReadMapRow
<1>12. CASE UNCHANGED vars
  BY <1>12 DEF vars
<1> QED
  BY <1>1, <1>2, <1>3, <1>4, <1>5, <1>6, <1>7, <1>8, <1>9, <1>10, <1>11, <1>12 DEF Next

LEMMA Standing == Spec => []TransactionStands
  BY InitStands, NextStands, PTL DEF Spec

\* The importer implements the table that passes from one whole import to the
\* next in one step: no reader sees a part of one, and an import that fails or
\* is killed at any statement leaves what was there (import_maps.py, autocommit
\* off).
THEOREM ImportIsAtomic == Spec => ImplementsTable
<1>1. Init => Whole!Init
  BY DEF Init, Whole!Init
<1>2. TransactionStands /\ [Next]_vars => Whole!Next \/ UNCHANGED <<table, importing>>
  BY NextRefines
<1>3. TransactionStands /\ [Next]_vars =>
        [Whole!Next]_<<table, IF pc \in {"delete", "insert"} THEN <<Layer(layers)>> ELSE <<>>>>
  BY <1>2 DEF importing
<1> QED
  BY <1>1, <1>3, Standing, PTL DEF Spec, ImplementsTable, Whole!Spec

-----------------------------------------------------------------------------
(***************************************************************************)
(* The exit status.                                                        *)
(***************************************************************************)
\* Exit status 0 says that the table holds the maps of the files, or that
\* nothing was to be written; only a COMMIT changes what the others see, and it
\* does so before any status is given (main).
THEOREM ExitTellsTheTable == Spec => ExitIsTrue
<1> DEFINE Told ==
      exit' # exit /\ pc' = "idle" =>
         /\ exit' = "zero" => IF dry THEN table' = table ELSE table' = Layer(layers)
         /\ table' # table => pc = "insert" /\ todo = {}
<1>1. TransactionStands /\ Next => Told
  <2> SUFFICES ASSUME TransactionStands, Next, exit' # exit, pc' = "idle" PROVE Told
    OBVIOUS
  <2> USE DEF importer, others, Publish, End
  <2>1. CASE CreateTable \/ DropTable
    BY <2>1 DEF CreateTable, DropTable
  <2>2. CASE Start \/ SkipFile \/ OpenFile \/ Walk \/ CloseFile
    BY <2>2 DEF Start, SkipFile, OpenFile, Walk, CloseFile
  <2>3. CASE LayerFiles
    BY <2>3 DEF LayerFiles
  <2>4. CASE Delete \/ Insert
    BY <2>4 DEF Delete, Insert, Rollback, Visible
  <2>5. CASE Commit
    <3>1. view = Layer(layers) /\ dry = FALSE /\ pc = "insert" /\ todo = {}
      BY <2>5 DEF Commit, TransactionStands
    <3>2. exit' = "zero" => table' = view
      BY <2>5 DEF Commit, Rollback
    <3> QED
      BY <3>1, <3>2
  <2>6. CASE Crash
    BY <2>6 DEF Crash
  <2>7. CASE CountList \/ ReadPage \/ ReadPresent \/ CountMaps \/ ReadMapRow
    BY <2>7 DEF CountList, ReadPage, ReadPresent, CountMaps, ReadMapRow
  <2> QED
    BY <2>1, <2>2, <2>3, <2>4, <2>5, <2>6, <2>7 DEF Next
<1>2. TransactionStands /\ [Next]_vars => [Told]_vars
  BY <1>1
<1> QED
  BY <1>2, Standing, PTL DEF Spec, ExitIsTrue

-----------------------------------------------------------------------------
(***************************************************************************)
(* The capabilities.                                                       *)
(***************************************************************************)
\* Every table is finite: one that was there, an empty one, or one filled row
\* by row.
TablesAreFinite ==
    /\ table = NoTable \/ IsFiniteSet(table)
    /\ pc = "insert" => IsFiniteSet(view)

\* A request of two statements has seen the table as it is.
RequestSees == request.at \in {"count", "page"} => table \in seen

CapsInv == TablesAreFinite /\ RequestSees /\ CapabilityWasTrue

LEMMA CapsInit == Init => CapsInv
<1> SUFFICES ASSUME Init PROVE CapsInv
  OBVIOUS
<1>1. request = [at |-> "answered", kind |-> "none", status |-> 0]
  BY DEF Init, NoRequest, Answer
<1>2. TablesAreFinite
  BY BeforeAssumption DEF Init, TablesAreFinite, AnImport
<1> QED
  BY <1>1, <1>2 DEF CapsInv, RequestSees, CapabilityWasTrue

\* Steps that are not a request's: what it has seen only grows.
LEMMA WorldKeepsCaps ==
  ASSUME CapsInv, UNCHANGED request, TablesAreFinite',
         \/ table' = table /\ seen' = seen
         \/ seen' = seen \cup {table'}
  PROVE  CapsInv'
<1>1. RequestSees'
  BY DEF CapsInv, RequestSees
<1>2. CapabilityWasTrue'
  BY DEF CapsInv, CapabilityWasTrue
<1> QED
  BY <1>1, <1>2 DEF CapsInv

LEMMA CountMapsKeeps == CapsInv /\ CountMaps => CapsInv'
<1> SUFFICES ASSUME CapsInv, CountMaps PROVE CapsInv'
  OBVIOUS
<1>1. table \in seen /\ UNCHANGED <<table, seen, pc, view>>
  BY DEF CountMaps, CapsInv, RequestSees, importer
<1>2. CASE table = NoTable
  <2>1. request' = [at |-> "answered", kind |-> "caps", status |-> 500]
    BY <1>2 DEF CountMaps, Answer
  <2> QED
    BY <1>1, <2>1 DEF CapsInv, TablesAreFinite, RequestSees, CapabilityWasTrue
<1>3. CASE table # NoTable
  <2> DEFINE n == Cardinality(table)
  <2>1. request' = [at |-> "answered", kind |-> "caps", status |-> 200,
                    imported |-> Imported(n), count |-> n]
    BY <1>3 DEF CountMaps
  <2>2. request'.at = "answered" /\ request'.imported = (n # 0) /\ request'.count = n
    BY <2>1 DEF Imported
  <2>3. n = 0 <=> table = {}
    BY <1>3, FS_EmptySet DEF CapsInv, TablesAreFinite
  <2>4. CapabilityWasTrue'
    BY <1>1, <1>3, <2>2, <2>3 DEF CapabilityWasTrue
  <2> QED
    BY <1>1, <2>2, <2>4 DEF CapsInv, TablesAreFinite, RequestSees
<1> QED
  BY <1>2, <1>3

LEMMA ReadPresentKeeps == CapsInv /\ ReadPresent => CapsInv'
<1> SUFFICES ASSUME CapsInv, ReadPresent PROVE CapsInv'
  OBVIOUS
<1>1. seen' = {table} /\ UNCHANGED <<table, pc, view>>
  BY DEF ReadPresent, importer
<1>2. TablesAreFinite'
  BY <1>1 DEF CapsInv, TablesAreFinite
<1>3. CASE table = NoTable
  <2>1. request'.at = "answered" /\ request'.imported = FALSE /\ request'.count = 0
    BY <1>3 DEF ReadPresent
  <2> QED
    BY <1>1, <1>2, <1>3, <2>1 DEF CapsInv, RequestSees, CapabilityWasTrue
<1>4. CASE table # NoTable
  <2>1. request'.at = "count"
    BY <1>4 DEF ReadPresent
  <2> QED
    BY <1>1, <1>2, <2>1 DEF CapsInv, RequestSees, CapabilityWasTrue
<1> QED
  BY <1>3, <1>4

\* The other requests answer nothing about capabilities.
LEMMA OtherReadsKeep == CapsInv /\ (CountList \/ ReadPage \/ ReadMapRow) => CapsInv'
<1> SUFFICES ASSUME CapsInv, CountList \/ ReadPage \/ ReadMapRow PROVE CapsInv'
  OBVIOUS
<1>1. UNCHANGED <<table, pc, view>> /\ (seen' = seen \/ seen' = {table})
  BY DEF CountList, ReadPage, ReadMapRow, importer
<1>2. TablesAreFinite'
  BY <1>1 DEF CapsInv, TablesAreFinite
<1>3. \/ request'.at = "page" /\ seen' = {table}
      \/ request'.at = "answered" /\ request'.kind \in {"list", "cell"}
  <2>1. CASE CountList
    BY <2>1 DEF CountList, Reply, Answer
  <2>2. CASE ReadPage
    BY <2>2 DEF ReadPage, Reply, Answer
  <2>3. CASE ReadMapRow
    <3>1. \A m, x, y : CellReply(m, x, y).at = "answered" /\ CellReply(m, x, y).kind = "cell"
      BY DEF CellReply, Answer
    <3>2. request' \in {Answer("cell", 404), Answer("cell", 503)}
             \/ \E m, x, y : request' = CellReply(m, x, y)
      BY <2>3 DEF ReadMapRow, Reply
    <3> QED
      BY <3>1, <3>2 DEF Answer
  <2> QED
    BY <2>1, <2>2, <2>3
<1> QED
  BY <1>1, <1>2, <1>3 DEF CapsInv, RequestSees, CapabilityWasTrue

LEMMA CapsNext == CapsInv /\ [Next]_vars => CapsInv'
<1> SUFFICES ASSUME CapsInv, [Next]_vars PROVE CapsInv'
  OBVIOUS
<1> USE DEF importer, others, Publish, End, TablesAreFinite
<1> TablesAreFinite
  BY DEF CapsInv
<1>1. CASE CreateTable
  BY <1>1, WorldKeepsCaps, FS_EmptySet DEF CreateTable
<1>2. CASE DropTable
  BY <1>2, WorldKeepsCaps DEF DropTable
<1>3. CASE Start \/ SkipFile \/ OpenFile \/ Walk \/ CloseFile \/ LayerFiles \/ Crash
  BY <1>3, WorldKeepsCaps DEF Start, SkipFile, OpenFile, Walk, CloseFile, LayerFiles, Crash
<1>4. CASE Delete
  BY <1>4, WorldKeepsCaps, FS_EmptySet DEF Delete, Rollback, Visible
<1>5. CASE Insert
  <2>1. CASE pc' = "insert"
    <3>1. PICK m : view' = view \cup {m} /\ table' = table /\ request' = request
                   /\ seen' = seen \cup {table'}
      BY <1>5, <2>1 DEF Insert, Visible, Rollback
    <3>2. IsFiniteSet(view')
      BY <1>5, <3>1, FS_AddElement DEF Insert
    <3> QED
      BY <3>1, <3>2, WorldKeepsCaps
  <2>2. CASE pc' # "insert"
    BY <1>5, <2>2, WorldKeepsCaps DEF Insert, Rollback
  <2> QED
    BY <2>1, <2>2
<1>6. CASE Commit
  BY <1>6, WorldKeepsCaps DEF Commit, Rollback
<1>7. CASE CountMaps
  BY <1>7, CountMapsKeeps
<1>8. CASE ReadPresent
  BY <1>8, ReadPresentKeeps
<1>9. CASE CountList \/ ReadPage \/ ReadMapRow
  BY <1>9, OtherReadsKeep
<1>10. CASE UNCHANGED vars
  BY <1>10, WorldKeepsCaps DEF vars
<1> QED
  BY <1>1, <1>2, <1>3, <1>4, <1>5, <1>6, <1>7, <1>8, <1>9, <1>10 DEF Next

\* What /system/capabilities says of the maps was so at some instant of the
\* request: the count is of a table that was there, and "not imported" is never
\* said of a table that stayed filled (_maps).
THEOREM CapabilitiesWereTrue == Spec => []CapabilityWasTrue
<1>1. CapsInv => CapabilityWasTrue
  BY DEF CapsInv
<1> QED
  BY CapsInit, CapsNext, <1>1, PTL DEF Spec

-----------------------------------------------------------------------------
(***************************************************************************)
(* layer() is a fold over places, and a fold a recursive function: that    *)
(* there is one is induction over the places.                              *)
(***************************************************************************)
\* The largest element of a set of places.
LEMMA MaxOfPlaces ==
  ASSUME NEW n \in Nat, NEW T \in SUBSET (1 .. n), T # {}
  PROVE  Max(T) \in T /\ \A y \in T : Max(T) >= y
<1> DEFINE U == {n - x : x \in T}
<1>1. U \subseteq Nat /\ U # {}
  <2>1. \A x \in T : n - x \in Nat
    OBVIOUS
  <2> QED
    BY <2>1
<1>2. PICK u \in U : \A y \in U : <<y, u>> \notin OpToRel(<, Nat)
  BY <1>1, WFMin, NatLessThanWellFounded
<1>3. \A y \in U : ~(y < u)
  BY <1>1, <1>2 DEF OpToRel
<1>4. PICK x \in T : u = n - x
  OBVIOUS
<1>5. ASSUME NEW y \in T PROVE x >= y
  <2>1. n - y \in U /\ ~(n - y < n - x)
    BY <1>3, <1>4
  <2>2. x \in Int /\ y \in Int
    BY <1>4
  <2> HIDE DEF U
  <2> QED
    BY <2>1, <2>2
<1> QED
  BY <1>5 DEF Max

\* One turn of the fold over the places T of s.
Turn(h, s, T) == IF T = {} THEN {} ELSE SetDefault(h[T \ {Max(T)}], s[Max(T)])

LEMMA FoldExists ==
  ASSUME NEW s, NEW n \in Nat
  PROVE  \E h : h = [T \in SUBSET (1 .. n) |-> Turn(h, s, T)]
<1> DEFINE Small(k) == {T \in SUBSET (1 .. n) : Cardinality(T) <= k}
           P == {k \in Nat : \E h : h = [T \in Small(k) |-> Turn(h, s, T)]}
<1>1. ASSUME NEW T \in SUBSET (1 .. n)
      PROVE  IsFiniteSet(T) /\ Cardinality(T) \in Nat /\ Cardinality(T) <= n
  <2>1. IsFiniteSet(1 .. n) /\ Cardinality(1 .. n) = n
    BY CountTo
  <2>2. IsFiniteSet(T) /\ Cardinality(T) <= n
    BY <2>1, FS_Subset
  <2> QED
    BY <2>2, FS_CardinalityType
<1>2. 0 \in P
  <2> DEFINE h == [T \in Small(0) |-> {}]
  <2>1. \A T \in Small(0) : T = {}
    BY <1>1, FS_EmptySet
  <2>2. h = [T \in Small(0) |-> Turn(h, s, T)]
    BY <2>1 DEF Turn
  <2> QED
    BY <2>2
<1>3. ASSUME NEW k \in Nat, k \in P PROVE k + 1 \in P
  <2>1. PICK h : h = [T \in Small(k) |-> Turn(h, s, T)]
    BY <1>3
  <2> DEFINE g == [T \in Small(k + 1) |-> Turn(h, s, T)]
  <2>2. ASSUME NEW T \in Small(k + 1) PROVE g[T] = Turn(g, s, T)
    <3>1. CASE T = {}
      BY <3>1 DEF Turn
    <3>2. CASE T # {}
      <4> DEFINE U == T \ {Max(T)}
      <4>1. Max(T) \in T
        BY <3>2, MaxOfPlaces
      <4>2. Cardinality(U) = Cardinality(T) - 1
        BY <1>1, <4>1, FS_RemoveElement
      <4>3. U \in Small(k) /\ U \in Small(k + 1)
        <5>1. U \in SUBSET (1 .. n) /\ Cardinality(T) \in Nat /\ Cardinality(T) <= k + 1
          BY <1>1
        <5>2. Cardinality(U) <= k /\ Cardinality(U) <= k + 1
          BY <4>2, <5>1
        <5> QED
          BY <5>1, <5>2
      <4>4. g[U] = Turn(h, s, U) /\ h[U] = Turn(h, s, U)
        BY <2>1, <4>3
      <4> QED
        BY <3>2, <4>4 DEF Turn
    <3> QED
      BY <3>1, <3>2
  <2>3. g = [T \in Small(k + 1) |-> Turn(g, s, T)]
    BY <2>2
  <2>4. \E f : f = [T \in Small(k + 1) |-> Turn(f, s, T)]
    BY <2>3
  <2> QED
    BY <2>4
<1>4. n \in P
  <2> HIDE DEF P
  <2>1. Nat \subseteq P
    BY <1>2, <1>3, NatSetInduction
  <2> QED
    BY <2>1
<1>5. Small(n) = SUBSET (1 .. n)
  BY <1>1
<1> QED
  BY <1>4, <1>5

\* What layer() has chosen after the first k records of s.
Chosen(c, s, k) ==
    /\ IsFiniteSet(c)
    /\ \A m \in c : \E i \in 1 .. k : m = s[i]
    /\ \A i \in 1 .. k : \/ s[i] \in c
                         \/ \E j \in 1 .. k : j < i /\ s[j].record.name = s[i].record.name
    /\ \A i \in 1 .. k : \E m \in c : m.record.name = s[i].record.name
    /\ \A m, o \in c : m.record.name = o.record.name => m = o

LEMMA ChosenAfter ==
  ASSUME NEW s, NEW k \in Nat, NEW c, Chosen(c, s, k)
  PROVE  Chosen(SetDefault(c, s[k + 1]), s, k + 1)
<1> DEFINE m == s[k + 1]
<1>1. CASE \E o \in c : o.record.name = m.record.name
  <2>1. PICK o \in c : o.record.name = m.record.name
    BY <1>1
  <2>2. SetDefault(c, m) = c
    BY <1>1 DEF SetDefault
  <2>3. PICK j \in 1 .. k : o = s[j]
    BY DEF Chosen
  <2>4. Chosen(c, s, k + 1)
    BY <2>1, <2>3 DEF Chosen
  <2> QED
    BY <2>2, <2>4
<1>2. CASE ~\E o \in c : o.record.name = m.record.name
  <2>1. SetDefault(c, m) = c \cup {m}
    BY <1>2 DEF SetDefault
  <2>2. IsFiniteSet(c \cup {m})
    BY FS_AddElement DEF Chosen
  <2>3. Chosen(c \cup {m}, s, k + 1)
    BY <1>2, <2>2 DEF Chosen
  <2> QED
    BY <2>1, <2>3
<1> QED
  BY <1>1, <1>2

LEMMA FoldChooses ==
  ASSUME NEW s, NEW n \in Nat, DOMAIN s = 1 .. n
  PROVE  Chosen(FoldLeft(SetDefault, {}, s), s, n)
<1> DEFINE h == CHOOSE g : g = [T \in SUBSET (1 .. n) |->
                  IF T = {} THEN {} ELSE SetDefault(g[T \ {Max(T)}], s[Max(T)])]
           P == {k \in Nat : k <= n => Chosen(h[1 .. k], s, k)}
<1>1. FoldLeft(SetDefault, {}, s) = h[1 .. n]
  BY DEF FoldLeft, MapThenFoldSet
<1>2. h = [T \in SUBSET (1 .. n) |-> Turn(h, s, T)]
  BY FoldExists DEF Turn
<1> HIDE DEF h
<1>3. 0 \in P
  <2>1. 1 .. 0 = {} /\ {} \in SUBSET (1 .. n)
    OBVIOUS
  <2>2. h[1 .. 0] = {}
    BY <1>2, <2>1 DEF Turn
  <2>3. Chosen({}, s, 0)
    BY FS_EmptySet DEF Chosen
  <2> QED
    BY <2>2, <2>3
<1>4. ASSUME NEW k \in Nat, k \in P PROVE k + 1 \in P
  <2> SUFFICES ASSUME k + 1 <= n PROVE Chosen(h[1 .. (k + 1)], s, k + 1)
    OBVIOUS
  <2> DEFINE T == 1 .. (k + 1)
  <2>1. T \in SUBSET (1 .. n) /\ k + 1 \in T /\ T \ {k + 1} = 1 .. k
    OBVIOUS
  <2>2. Max(T) \in T /\ \A y \in T : Max(T) >= y
    BY <2>1, MaxOfPlaces
  <2>3. Max(T) = k + 1
    BY <2>1, <2>2
  <2>4. h[T] = Turn(h, s, T)
    BY <1>2, <2>1
  <2>5. h[T] = SetDefault(h[1 .. k], s[k + 1])
    BY <2>1, <2>3, <2>4 DEF Turn
  <2>6. Chosen(h[1 .. k], s, k)
    BY <1>4
  <2> QED
    BY <2>5, <2>6, ChosenAfter
<1>5. n \in P
  <2> HIDE DEF P
  <2>1. Nat \subseteq P
    BY <1>3, <1>4, NatSetInduction
  <2> QED
    BY <2>1
<1> QED
  BY <1>1, <1>5

-----------------------------------------------------------------------------
(***************************************************************************)
(* The rows of several files, in their order.                              *)
(***************************************************************************)
\* What parse_map_cache makes of an entry whose cells are as many as it says.
MapRecords ==
    {r \in [name : DOMAIN Collate, width : Int, height : Int, cells : Grids, walkable : Nat] :
        Len(r.cells) = r.width * r.height /\ r.walkable = WalkableCells(r.cells)}
Layers == Seq([path : SourceNames, maps : Seq(MapRecords)])
Rows == [source : SourceNames, record : MapRecords]

Places(L) == UNION {{k} \X DOMAIN L[k].maps : k \in DOMAIN L}
RowAt(L, p) == [source |-> L[p[1]].path, record |-> L[p[1]].maps[p[2]]]
Earlier(p, q) == p[1] < q[1] \/ (p[1] = q[1] /\ p[2] < q[2])

\* f lists the rows of the first k files, file by file, each in its order.
Lists(f, L, k) ==
    /\ f \in Seq(Rows)
    /\ \A i \in DOMAIN f : \E p \in Places(L) : p[1] <= k /\ f[i] = RowAt(L, p)
    /\ \A p \in Places(L) : p[1] <= k =>
         \E i \in DOMAIN f :
            /\ f[i] = RowAt(L, p)
            /\ \A j \in DOMAIN f :
                 j < i => \E q \in Places(L) : Earlier(q, p) /\ f[j] = RowAt(L, q)

LEMMA LayerIs ==
  ASSUME NEW L \in Layers
  PROVE  /\ DOMAIN L = 1 .. Len(L) /\ Len(L) \in Nat
         /\ \A k \in 1 .. Len(L) : L[k] \in [path : SourceNames, maps : Seq(MapRecords)]
<1>1. PICK S : S = [path : SourceNames, maps : Seq(MapRecords)]
  OBVIOUS
<1>2. L \in Seq(S)
  BY <1>1 DEF Layers
<1>3. DOMAIN L = 1 .. Len(L) /\ Len(L) \in Nat /\ \A k \in 1 .. Len(L) : L[k] \in S
  BY <1>2
<1> QED
  BY <1>1, <1>3

LEMMA PlaceIs ==
  ASSUME NEW L \in Layers, NEW p \in Places(L)
  PROVE  /\ p[1] \in 1 .. Len(L) /\ p[2] \in 1 .. Len(L[p[1]].maps)
         /\ p[1] \in Nat /\ p[2] \in Nat
         /\ RowAt(L, p) \in Rows
<1>1. PICK k \in DOMAIN L : p \in {k} \X DOMAIN L[k].maps
  BY DEF Places
<1>2. L[k] \in [path : SourceNames, maps : Seq(MapRecords)] /\ DOMAIN L = 1 .. Len(L)
  BY LayerIs
<1>3. p[1] = k /\ p[2] \in DOMAIN L[k].maps
  BY <1>1
<1>4. DOMAIN L[k].maps = 1 .. Len(L[k].maps) /\ L[k].maps[p[2]] \in MapRecords
  BY <1>2, <1>3
<1>5. L[k].path \in SourceNames
  BY <1>2
<1> QED
  BY <1>2, <1>3, <1>4, <1>5 DEF RowAt, Rows

LEMMA PlaceIsIn ==
  ASSUME NEW L \in Layers, NEW k \in 1 .. Len(L), NEW j \in 1 .. Len(L[k].maps)
  PROVE  <<k, j>> \in Places(L)
<1>1. L[k] \in [path : SourceNames, maps : Seq(MapRecords)] /\ DOMAIN L = 1 .. Len(L)
  BY LayerIs
<1>2. DOMAIN L[k].maps = 1 .. Len(L[k].maps)
  BY <1>1
<1> QED
  BY <1>1, <1>2 DEF Places

LEMMA TaggedIs ==
  ASSUME NEW L \in Layers, NEW k \in 1 .. Len(L)
  PROVE  /\ Tagged(L[k]) \in Seq(Rows) /\ Len(Tagged(L[k])) = Len(L[k].maps)
         /\ \A j \in 1 .. Len(L[k].maps) : Tagged(L[k])[j] = RowAt(L, <<k, j>>)
<1>1. L[k] \in [path : SourceNames, maps : Seq(MapRecords)]
  BY LayerIs
<1>2. DOMAIN L[k].maps = 1 .. Len(L[k].maps) /\ Len(L[k].maps) \in Nat
  BY <1>1
<1>3. \A j \in 1 .. Len(L[k].maps) : RowAt(L, <<k, j>>) \in Rows
  BY PlaceIsIn, PlaceIs
<1>4. Tagged(L[k]) = [j \in 1 .. Len(L[k].maps) |-> RowAt(L, <<k, j>>)]
  BY <1>2 DEF Tagged, RowAt
<1> QED
  BY <1>2, <1>3, <1>4

LEMMA ListsNext ==
  ASSUME NEW L \in Layers, NEW k \in Nat, k + 1 \in 1 .. Len(L), NEW f, Lists(f, L, k)
  PROVE  Lists(f \o Tagged(L[k + 1]), L, k + 1)
<1> DEFINE t == Tagged(L[k + 1])
<1>1. PICK g : g = f \o t
  OBVIOUS
<1>2. f \in Seq(Rows) /\ t \in Seq(Rows) /\ Len(f) \in Nat /\ Len(t) \in Nat
  BY TaggedIs DEF Lists
<1> HIDE DEF t
<1>3. /\ g \in Seq(Rows) /\ Len(g) = Len(f) + Len(t) /\ DOMAIN g = 1 .. Len(g)
      /\ DOMAIN f = 1 .. Len(f)
      /\ \A i \in 1 .. Len(f) : g[i] = f[i]
      /\ \A j \in 1 .. Len(t) : g[Len(f) + j] = t[j]
  BY <1>1, <1>2
<1>4. /\ Len(t) = Len(L[k + 1].maps)
      /\ \A j \in 1 .. Len(t) : t[j] = RowAt(L, <<k + 1, j>>) /\ <<k + 1, j>> \in Places(L)
  BY TaggedIs, PlaceIsIn DEF t
<1>5. ASSUME NEW i \in DOMAIN g
      PROVE  \E p \in Places(L) : p[1] <= k + 1 /\ g[i] = RowAt(L, p)
  <2>1. CASE i <= Len(f)
    <3>1. PICK p \in Places(L) : p[1] <= k /\ f[i] = RowAt(L, p)
      BY <1>3, <2>1 DEF Lists
    <3>2. p[1] \in Nat
      BY PlaceIs
    <3> QED
      BY <1>2, <1>3, <2>1, <3>1, <3>2
  <2>2. CASE ~(i <= Len(f))
    <3>1. i - Len(f) \in 1 .. Len(t) /\ i = Len(f) + (i - Len(f))
      BY <1>2, <1>3, <2>2
    <3>2. g[i] = RowAt(L, <<k + 1, i - Len(f)>>) /\ <<k + 1, i - Len(f)>> \in Places(L)
      BY <1>3, <1>4, <3>1
    <3> QED
      BY <3>2
  <2> QED
    BY <2>1, <2>2
<1>6. ASSUME NEW p \in Places(L), p[1] <= k + 1
      PROVE  \E i \in DOMAIN g :
               /\ g[i] = RowAt(L, p)
               /\ \A j \in DOMAIN g :
                    j < i => \E q \in Places(L) : Earlier(q, p) /\ g[j] = RowAt(L, q)
  <2>1. p[1] \in Nat /\ p[2] \in 1 .. Len(L[p[1]].maps)
    BY PlaceIs
  <2>2. CASE p[1] <= k
    <3>1. PICK i \in DOMAIN f :
             /\ f[i] = RowAt(L, p)
             /\ \A j \in DOMAIN f :
                  j < i => \E q \in Places(L) : Earlier(q, p) /\ f[j] = RowAt(L, q)
      BY <2>2 DEF Lists
    <3>2. i \in DOMAIN g /\ g[i] = f[i]
      BY <1>2, <1>3
    <3>3. \A j \in DOMAIN g : j < i => j \in DOMAIN f /\ g[j] = f[j]
      BY <1>2, <1>3
    <3> QED
      BY <3>1, <3>2, <3>3
  <2>3. CASE ~(p[1] <= k)
    <3>1. p[1] = k + 1 /\ p[2] \in 1 .. Len(t) /\ p[2] \in Nat
      <4>1. p[1] = k + 1
        BY <1>6, <2>1, <2>3
      <4>2. p[2] \in 1 .. Len(t)
        BY <1>4, <2>1, <4>1
      <4> QED
        BY <1>2, <4>1, <4>2
    <3> DEFINE i == Len(f) + p[2]
    <3>2. i \in DOMAIN g /\ g[i] = t[p[2]]
      BY <1>2, <1>3, <3>1
    <3>3. RowAt(L, <<k + 1, p[2]>>) = RowAt(L, p)
      BY <3>1 DEF RowAt
    <3>4. ASSUME NEW j \in DOMAIN g, j < i
          PROVE  \E q \in Places(L) : Earlier(q, p) /\ g[j] = RowAt(L, q)
      <4>1. CASE j <= Len(f)
        <5>1. PICK q \in Places(L) : q[1] <= k /\ f[j] = RowAt(L, q)
          BY <1>3, <4>1 DEF Lists
        <5>2. q[1] \in Nat
          BY PlaceIs
        <5>3. Earlier(q, p)
          BY <3>1, <5>1, <5>2 DEF Earlier
        <5>4. g[j] = f[j]
          BY <1>2, <1>3, <4>1
        <5> QED
          BY <5>1, <5>3, <5>4
      <4>2. CASE ~(j <= Len(f))
        <5> DEFINE q == <<k + 1, j - Len(f)>>
        <5>1. j - Len(f) \in 1 .. Len(t) /\ j = Len(f) + (j - Len(f)) /\ j - Len(f) < p[2]
          BY <1>2, <1>3, <3>1, <3>4, <4>2
        <5>2. g[j] = RowAt(L, q) /\ q \in Places(L)
          BY <1>3, <1>4, <5>1
        <5>3. Earlier(q, p)
          BY <3>1, <5>1 DEF Earlier
        <5> QED
          BY <5>2, <5>3
      <4> QED
        BY <4>1, <4>2
    <3> QED
      BY <1>4, <3>1, <3>2, <3>3, <3>4
  <2> QED
    BY <2>2, <2>3
<1>7. Lists(g, L, k + 1)
  BY <1>3, <1>5, <1>6 DEF Lists
<1> QED
  BY <1>1, <1>7 DEF t

FlatTurn(g, T, i) == IF i = 1 THEN T[i] ELSE g[i - 1] \o T[i]

LEMMA FlatExists ==
  ASSUME NEW T, NEW n \in Nat
  PROVE  \E g : g = [i \in 1 .. n |-> FlatTurn(g, T, i)]
<1> DEFINE P == {k \in Nat : \E g : g = [i \in 1 .. k |-> FlatTurn(g, T, i)]}
<1>1. 0 \in P
  <2> DEFINE g == [i \in 1 .. 0 |-> {}]
  <2>1. g = [i \in 1 .. 0 |-> FlatTurn(g, T, i)]
    OBVIOUS
  <2>2. \E f : f = [i \in 1 .. 0 |-> FlatTurn(f, T, i)]
    BY <2>1
  <2> QED
    BY <2>2
<1>2. ASSUME NEW k \in Nat, k \in P PROVE k + 1 \in P
  <2>1. PICK h : h = [i \in 1 .. k |-> FlatTurn(h, T, i)]
    BY <1>2
  <2> DEFINE g == [i \in 1 .. k + 1 |-> FlatTurn(h, T, i)]
  <2>2. ASSUME NEW i \in 1 .. k + 1 PROVE g[i] = FlatTurn(g, T, i)
    <3>1. CASE i = 1
      BY <3>1 DEF FlatTurn
    <3>2. CASE i # 1
      <4>1. i - 1 \in 1 .. k /\ i - 1 \in 1 .. k + 1
        BY <3>2
      <4>2. h[i - 1] = FlatTurn(h, T, i - 1) /\ g[i - 1] = FlatTurn(h, T, i - 1)
        BY <2>1, <4>1
      <4> QED
        BY <3>2, <4>2 DEF FlatTurn
    <3> QED
      BY <3>1, <3>2
  <2>3. g = [i \in 1 .. k + 1 |-> FlatTurn(g, T, i)]
    BY <2>2
  <2>4. \E f : f = [i \in 1 .. k + 1 |-> FlatTurn(f, T, i)]
    BY <2>3
  <2> QED
    BY <2>4
<1> HIDE DEF P
<1>3. n \in P
  BY <1>1, <1>2, NatSetInduction
<1> QED
  BY <1>3 DEF P

LEMMA AllMapsLists ==
  ASSUME NEW L \in Layers
  PROVE  Lists(AllMaps(L), L, Len(L))
<1> DEFINE T == [i \in DOMAIN L |-> Tagged(L[i])]
           n == Len(L)
           g == CHOOSE h : h = [i \in 1 .. n |-> IF i = 1 THEN T[i] ELSE h[i - 1] \o T[i]]
           P == {k \in Nat : k \in 1 .. n => Lists(g[k], L, k)}
<1>1. n \in Nat /\ DOMAIN L = 1 .. n
  BY DEF Layers
<1>2. T \in Seq(Seq(Rows)) /\ Len(T) = n
  <2>1. \A i \in 1 .. n : Tagged(L[i]) \in Seq(Rows)
    BY TaggedIs
  <2> QED
    BY <1>1, <2>1
<1>3. CASE n = 0
  <2>1. AllMaps(L) = T /\ T = <<>>
    BY <1>2, <1>3 DEF AllMaps, FlattenSeq
  <2>2. Places(L) = {}
    BY <1>1, <1>3 DEF Places
  <2> QED
    BY <2>1, <2>2 DEF Lists
<1>4. CASE n # 0
  <2>1. AllMaps(L) = g[n]
    BY <1>2, <1>4 DEF AllMaps, FlattenSeq
  <2>2. g = [i \in 1 .. n |-> FlatTurn(g, T, i)]
    BY <1>1, FlatExists DEF FlatTurn
  <2> HIDE DEF g
  <2>3. 0 \in P
    OBVIOUS
  <2>4. ASSUME NEW k \in Nat, k \in P PROVE k + 1 \in P
    <3> SUFFICES ASSUME k + 1 \in 1 .. n PROVE Lists(g[k + 1], L, k + 1)
      OBVIOUS
    <3>1. T[k + 1] = Tagged(L[k + 1])
      BY <1>1
    <3>2. g[k + 1] = FlatTurn(g, T, k + 1)
      BY <2>2
    <3>3. CASE k = 0
      <4>1. g[k + 1] = Tagged(L[k + 1])
        BY <3>1, <3>2, <3>3 DEF FlatTurn
      <4>2. Lists(<<>>, L, 0)
        BY PlaceIs DEF Lists
      <4>3. Lists(<<>> \o Tagged(L[k + 1]), L, k + 1)
        BY <3>3, <4>2, ListsNext
      <4>4. <<>> \o Tagged(L[k + 1]) = Tagged(L[k + 1])
        BY TaggedIs
      <4> QED
        BY <4>1, <4>3, <4>4
    <3>4. CASE k # 0
      <4>1. g[k + 1] = g[k] \o Tagged(L[k + 1])
        <5>1. k + 1 # 1 /\ (k + 1) - 1 = k
          BY <3>4
        <5>2. FlatTurn(g, T, k + 1) = g[k] \o T[k + 1]
          BY <5>1 DEF FlatTurn
        <5> QED
          BY <3>1, <3>2, <5>2
      <4>2. Lists(g[k], L, k)
        BY <2>4, <3>4
      <4> QED
        BY <4>1, <4>2, ListsNext
    <3> QED
      BY <3>3, <3>4
  <2>5. n \in P
    <3> HIDE DEF P
    <3> QED
      BY <1>1, <2>3, <2>4, NatSetInduction
  <2> QED
    BY <1>1, <1>4, <2>1, <2>5
<1> QED
  BY <1>3, <1>4

-----------------------------------------------------------------------------
(***************************************************************************)
(* What layer() makes of the files.                                        *)
(***************************************************************************)
LEMMA LayerChooses ==
  ASSUME NEW L \in Layers
  PROVE  /\ IsFiniteSet(Layer(L))
         /\ \A m \in Layer(L) : \E p \in Places(L) : m = RowAt(L, p)
         /\ \A p \in Places(L) :
              \/ RowAt(L, p) \in Layer(L)
              \/ \E q \in Places(L) :
                    /\ Earlier(q, p)
                    /\ RowAt(L, q).record.name = RowAt(L, p).record.name
         /\ \A p \in Places(L) :
              \E m \in Layer(L) : m.record.name = RowAt(L, p).record.name
         /\ \A m, o \in Layer(L) : m.record.name = o.record.name => m = o
<1>1. PICK s : s = AllMaps(L)
  OBVIOUS
<1>2. Lists(s, L, Len(L))
  BY <1>1, AllMapsLists
<1>3. Len(s) \in Nat /\ DOMAIN s = 1 .. Len(s)
  BY <1>2 DEF Lists
<1>4. PICK c : c = Layer(L)
  OBVIOUS
<1>5. Chosen(c, s, Len(s))
  BY <1>1, <1>3, <1>4, FoldChooses DEF Layer
<1>6. \A p \in Places(L) : p[1] <= Len(L)
  BY PlaceIs, LayerIs
<1>7. \A m \in c : \E p \in Places(L) : m = RowAt(L, p)
  BY <1>2, <1>3, <1>5 DEF Lists, Chosen
<1>8. ASSUME NEW p \in Places(L)
      PROVE  /\ \/ RowAt(L, p) \in c
                \/ \E q \in Places(L) :
                      /\ Earlier(q, p)
                      /\ RowAt(L, q).record.name = RowAt(L, p).record.name
             /\ \E m \in c : m.record.name = RowAt(L, p).record.name
  <2>1. PICK i \in DOMAIN s :
           /\ s[i] = RowAt(L, p)
           /\ \A j \in DOMAIN s :
                j < i => \E q \in Places(L) : Earlier(q, p) /\ s[j] = RowAt(L, q)
    BY <1>2, <1>6 DEF Lists
  <2>2. \/ s[i] \in c
        \/ \E j \in 1 .. Len(s) : j < i /\ s[j].record.name = s[i].record.name
    BY <1>3, <1>5 DEF Chosen
  <2>3. \E m \in c : m.record.name = s[i].record.name
    BY <1>3, <1>5 DEF Chosen
  <2> QED
    BY <1>3, <2>1, <2>2, <2>3
<1> QED
  BY <1>4, <1>5, <1>7, <1>8 DEF Chosen

LEMMA LayerCounts ==
  ASSUME NEW L \in Layers
  PROVE  Cardinality(Layer(L)) = Cardinality({RowAt(L, p).record.name : p \in Places(L)})
<1>1. PICK c : c = Layer(L)
  OBVIOUS
<1> DEFINE names == {RowAt(L, p).record.name : p \in Places(L)}
           f == [m \in c |-> m.record.name]
<1>2. /\ IsFiniteSet(c)
      /\ \A m \in c : \E p \in Places(L) : m = RowAt(L, p)
      /\ \A p \in Places(L) : \E m \in c : m.record.name = RowAt(L, p).record.name
      /\ \A m, o \in c : m.record.name = o.record.name => m = o
  BY <1>1, LayerChooses
<1>3. f \in Bijection(c, names)
  <2>1. f \in [c -> names]
    BY <1>2
  <2>2. \A m, o \in c : f[m] = f[o] => m = o
    BY <1>2
  <2>3. \A x \in names : \E m \in c : f[m] = x
    BY <1>2
  <2> QED
    BY <2>1, <2>2, <2>3 DEF Bijection, Injection, Surjection, IsInjective
<1>4. ExistsBijection(c, names)
  BY <1>3 DEF ExistsBijection
<1> QED
  BY <1>1, <1>2, <1>4, FS_Bijection

-----------------------------------------------------------------------------
(***************************************************************************)
(* The walk over one file.                                                 *)
(***************************************************************************)
Spans == [from : Int, to : Int]
OpenWalks == [state : {"open", "parsed"}, size : Nat, count : Nat, offset : Int,
              spans : Seq(Spans), maps : Seq(MapRecords)]

\* Either some length led backwards, or the spans cover what was read, once.
SpansTile(w) ==
    (\A k \in DOMAIN w.spans : w.spans[k].to >= w.spans[k].from + MapInfoSize) =>
        /\ MainHeaderSize <= w.offset
        /\ \A k \in DOMAIN w.spans : MainHeaderSize <= w.spans[k].from /\ w.spans[k].to <= w.offset
        /\ \A b \in MainHeaderSize .. w.offset - 1 :
             \E k \in DOMAIN w.spans :
                /\ b >= w.spans[k].from /\ b < w.spans[k].to
                /\ \A j \in DOMAIN w.spans :
                     b >= w.spans[j].from /\ b < w.spans[j].to => j = k

GoodWalk(w) ==
    \/ w.state \in {"none", "bad"}
    \/ /\ w \in OpenWalks
       /\ w.offset <= w.size
       /\ w.state = "parsed" => w.offset = w.size
       /\ SpansTile(w)

LEMMA WalkableIsNat ==
  ASSUME NEW grid \in Grids PROVE WalkableCells(grid) \in Nat
<1>1. grid \in Seq(0 .. 6)
  BY GridAssumption
<1>2. DOMAIN grid = 1 .. Len(grid) /\ Len(grid) \in Nat
  BY <1>1
<1>3. IsFiniteSet(DOMAIN grid)
  BY <1>2, CountTo
<1>4. IsFiniteSet({i \in DOMAIN grid : grid[i] \notin BlockedGat})
  BY <1>3, FS_Subset
<1> QED
  BY <1>4, FS_CardinalityType DEF WalkableCells

LEMMA RecordIsWhole ==
  ASSUME NEW e \in Entries, NEW grid \in Grids, Len(grid) = e.width * e.height
  PROVE  MapRecord(e, grid) \in MapRecords
<1>1. WalkableCells(grid) \in Nat
  BY WalkableIsNat
<1>2. e.width \in Int /\ e.height \in Int /\ e.name \in DOMAIN Collate
  BY EntryAssumption, CollateAssumption
<1> QED
  BY <1>1, <1>2 DEF MapRecord, MapRecords

LEMMA OpenedIsGood ==
  ASSUME NEW size \in Nat, NEW stated \in Nat, NEW count \in Nat
  PROVE  GoodWalk(Opened(size, stated, count))
<1>1. CASE size < MainHeaderSize \/ stated # size
  BY <1>1 DEF Opened, GoodWalk, BadWalk
<1>2. CASE ~(size < MainHeaderSize \/ stated # size)
  <2>1. PICK w : w = Opened(size, stated, count)
    OBVIOUS
  <2>2. w = [state |-> "open", size |-> size, count |-> count,
             offset |-> MainHeaderSize, spans |-> <<>>, maps |-> <<>>]
    BY <1>2, <2>1 DEF Opened
  <2>3. w \in OpenWalks /\ w.offset <= w.size /\ w.state = "open"
    BY <1>2, <2>2 DEF OpenWalks, MainHeaderSize
  <2>4. SpansTile(w)
    BY <2>2 DEF SpansTile, MainHeaderSize
  <2> QED
    BY <2>1, <2>3, <2>4 DEF GoodWalk
<1> QED
  BY <1>1, <1>2

LEMMA ReadIsGood ==
  ASSUME NEW w, GoodWalk(w), w.state = "open", NEW e \in Entries,
         NEW grid \in Grids \cup {Corrupt}
  PROVE  GoodWalk(ReadMap(w, e, grid))
<1> DEFINE Fits == /\ HeaderFits(w) /\ CellsFit(w, e) /\ grid # Corrupt
                   /\ Len(grid) = e.width * e.height
<1>1. CASE ~Fits
  BY <1>1 DEF ReadMap, GoodWalk, BadWalk
<1>2. CASE Fits
  <2>1. PICK v : v = ReadMap(w, e, grid)
    OBVIOUS
  <2>2. PICK next : next = w.offset + MapInfoSize + e.length
    OBVIOUS
  <2>3. PICK span : span = [from |-> w.offset, to |-> next]
    OBVIOUS
  <2>4. PICK m : m = MapRecord(e, grid)
    OBVIOUS
  <2>5. v = [w EXCEPT !.offset = next, !.spans = Append(@, span), !.maps = Append(@, m)]
    BY <1>2, <2>1, <2>2, <2>3, <2>4 DEF ReadMap
  <2>6. w \in OpenWalks /\ w.offset \in Int /\ w.size \in Nat /\ e.length \in Int
    BY EntryAssumption DEF GoodWalk, OpenWalks
  <2>7. next \in Int /\ next <= w.size
    BY <1>2, <2>2, <2>6 DEF CellsFit, MapInfoSize
  <2>8. m \in MapRecords
    BY <1>2, <2>4, RecordIsWhole
  <2>9. span \in Spans
    BY <2>3, <2>6, <2>7 DEF Spans
  <2>10. /\ v \in OpenWalks /\ v.offset = next /\ v.size = w.size /\ v.state = "open"
         /\ v.spans = Append(w.spans, span)
    <3>1. /\ v.offset = next /\ v.size = w.size /\ v.state = "open" /\ v.count = w.count
          /\ v.spans = Append(w.spans, span) /\ v.maps = Append(w.maps, m)
      BY <2>5, <2>6 DEF OpenWalks
    <3>2. v.spans \in Seq(Spans)
      BY <2>6, <2>9, <3>1 DEF OpenWalks
    <3>3. v.maps \in Seq(MapRecords)
      BY <2>6, <2>8, <3>1 DEF OpenWalks
    <3>4. v = [state |-> v.state, size |-> v.size, count |-> v.count, offset |-> v.offset,
               spans |-> v.spans, maps |-> v.maps]
      BY <2>5, <2>6 DEF OpenWalks
    <3>5. v.size \in Nat /\ v.count \in Nat
      BY <2>6, <3>1 DEF OpenWalks
    <3>6. v \in OpenWalks
      BY <3>1, <3>2, <3>3, <3>4, <3>5, <2>7 DEF OpenWalks
    <3> QED
      BY <3>1, <3>6
  <2>11. w.spans \in Seq(Spans)
    BY <2>6 DEF OpenWalks
  <2>12. SpansTile(v)
    <3> DEFINE n == Len(w.spans)
    <3> SUFFICES ASSUME \A k \in DOMAIN v.spans : v.spans[k].to >= v.spans[k].from + MapInfoSize
                 PROVE  /\ MainHeaderSize <= next
                        /\ \A k \in DOMAIN v.spans : MainHeaderSize <= v.spans[k].from
                                                   /\ v.spans[k].to <= next
                        /\ \A b \in MainHeaderSize .. next - 1 :
                             \E k \in DOMAIN v.spans :
                                /\ b >= v.spans[k].from /\ b < v.spans[k].to
                                /\ \A j \in DOMAIN v.spans :
                                     b >= v.spans[j].from /\ b < v.spans[j].to => j = k
      BY <2>10 DEF SpansTile
    <3>1. /\ n \in Nat /\ DOMAIN w.spans = 1 .. n /\ DOMAIN v.spans = 1 .. (n + 1)
          /\ v.spans[n + 1] = span
          /\ \A k \in 1 .. n : v.spans[k] = w.spans[k] /\ w.spans[k] \in Spans
      BY <2>10, <2>11, <2>9
    <3>2. next >= w.offset + MapInfoSize
      BY <3>1, <2>3
    <3>3. /\ MainHeaderSize <= w.offset
          /\ \A k \in 1 .. n : MainHeaderSize <= w.spans[k].from /\ w.spans[k].to <= w.offset
          /\ \A b \in MainHeaderSize .. w.offset - 1 :
               \E k \in 1 .. n :
                  /\ b >= w.spans[k].from /\ b < w.spans[k].to
                  /\ \A j \in 1 .. n :
                       b >= w.spans[j].from /\ b < w.spans[j].to => j = k
      <4>1. \A k \in 1 .. n : w.spans[k].to >= w.spans[k].from + MapInfoSize
        BY <3>1
      <4>2. SpansTile(w)
        BY <2>10, <2>6 DEF GoodWalk
      <4> QED
        BY <4>1, <4>2, <3>1 DEF SpansTile
    <3>4. MainHeaderSize <= next
      BY <2>6, <2>7, <3>2, <3>3 DEF MapInfoSize, MainHeaderSize
    <3>5. ASSUME NEW k \in DOMAIN v.spans
          PROVE  MainHeaderSize <= v.spans[k].from /\ v.spans[k].to <= next
      <4>1. CASE k \in 1 .. n
        <5>1. v.spans[k].to <= w.offset /\ v.spans[k].to \in Int
          BY <4>1, <3>1, <3>3 DEF Spans
        <5>2. MainHeaderSize <= v.spans[k].from
          BY <4>1, <3>1, <3>3
        <5>3. PICK to : to = v.spans[k].to
          OBVIOUS
        <5>4. to <= next
          BY <5>1, <5>3, <2>6, <2>7, <3>2 DEF MapInfoSize
        <5> QED
          BY <5>2, <5>3, <5>4
      <4>2. CASE k = n + 1
        <5>1. v.spans[k].from = w.offset /\ v.spans[k].to = next
          BY <4>2, <2>3, <3>1
        <5> QED
          BY <5>1, <2>7, <3>3
      <4> QED
        BY <3>1, <4>1, <4>2
    <3>6. ASSUME NEW b \in MainHeaderSize .. next - 1
          PROVE  \E k \in DOMAIN v.spans :
                    /\ b >= v.spans[k].from /\ b < v.spans[k].to
                    /\ \A j \in DOMAIN v.spans :
                         b >= v.spans[j].from /\ b < v.spans[j].to => j = k
      <4>1. b \in Int /\ b >= MainHeaderSize /\ b < next
        BY <2>7 DEF MainHeaderSize
      <4>2. CASE b < w.offset
        <5>1. b \in MainHeaderSize .. w.offset - 1
          BY <4>1, <4>2, <2>6 DEF MainHeaderSize
        <5>2. PICK k \in 1 .. n :
                 /\ b >= w.spans[k].from /\ b < w.spans[k].to
                 /\ \A j \in 1 .. n : b >= w.spans[j].from /\ b < w.spans[j].to => j = k
          BY <3>3, <5>1
        <5>3. ~(b >= v.spans[n + 1].from)
          BY <4>1, <4>2, <2>3, <2>6, <3>1
        <5>4. k \in DOMAIN v.spans /\ v.spans[k] = w.spans[k]
          BY <3>1
        <5>5. ASSUME NEW j \in DOMAIN v.spans, b >= v.spans[j].from, b < v.spans[j].to
              PROVE  j = k
          <6>1. j # n + 1
            BY <5>3, <5>5
          <6>2. j \in 1 .. n
            BY <3>1, <6>1
          <6> QED
            BY <3>1, <5>2, <5>5, <6>2
        <5> QED
          BY <5>2, <5>4, <5>5
      <4>3. CASE ~(b < w.offset)
        <5>1. b >= v.spans[n + 1].from /\ b < v.spans[n + 1].to
          BY <4>1, <4>3, <2>3, <2>6, <3>1
        <5>2. \A j \in 1 .. n : ~(b < v.spans[j].to)
          <6> SUFFICES ASSUME NEW j \in 1 .. n PROVE ~(b < v.spans[j].to)
            OBVIOUS
          <6>1. v.spans[j].to = w.spans[j].to /\ w.spans[j].to <= w.offset
            BY <3>1, <3>3
          <6>2. w.spans[j].to \in Int
            BY <3>1 DEF Spans
          <6> QED
            BY <4>1, <4>3, <2>6, <6>1, <6>2
        <5> QED
          BY <3>1, <5>1, <5>2
      <4> QED
        BY <4>2, <4>3
    <3> QED
      BY <3>4, <3>5, <3>6
  <2> QED
    BY <2>1, <2>7, <2>10, <2>12 DEF GoodWalk
<1> QED
  BY <1>1, <1>2

LEMMA FinishedIsGood ==
  ASSUME NEW w, GoodWalk(w), w.state = "open"
  PROVE  /\ GoodWalk(Finished(w))
         /\ Finished(w).state = "parsed" => Finished(w).maps \in Seq(MapRecords)
<1>1. CASE w.offset # w.size
  BY <1>1 DEF Finished, GoodWalk, BadWalk
<1>2. CASE w.offset = w.size
  <2>1. PICK v : v = Finished(w)
    OBVIOUS
  <2>2. v = [w EXCEPT !.state = "parsed"]
    BY <1>2, <2>1 DEF Finished
  <2>3. w \in OpenWalks /\ SpansTile(w)
    BY DEF GoodWalk
  <2>4. /\ v \in OpenWalks /\ v.state = "parsed" /\ v.offset = v.size
        /\ v.spans = w.spans /\ v.offset = w.offset
    BY <1>2, <2>2, <2>3 DEF OpenWalks
  <2>5. SpansTile(v)
    BY <2>3, <2>4 DEF SpansTile
  <2>6. v.offset <= v.size /\ v.maps \in Seq(MapRecords)
    BY <2>4 DEF OpenWalks
  <2> QED
    BY <2>1, <2>4, <2>5, <2>6 DEF GoodWalk
<1> QED
  BY <1>1, <1>2

LEMMA GoodIsReadOnce ==
  ASSUME GoodWalk(walk) PROVE EveryByteOnce
<1> SUFFICES ASSUME walk.state = "parsed",
                    \A k \in DOMAIN walk.spans :
                       ~(walk.spans[k].to < walk.spans[k].from + MapInfoSize),
                    NEW b \in MainHeaderSize .. walk.size - 1
             PROVE  Cardinality({k \in DOMAIN walk.spans :
                                   b >= walk.spans[k].from /\ b < walk.spans[k].to}) = 1
  BY DEF EveryByteOnce
<1>1. walk \in OpenWalks /\ walk.offset = walk.size /\ SpansTile(walk)
  BY DEF GoodWalk
<1>2. \A k \in DOMAIN walk.spans : walk.spans[k] \in Spans
  <2>1. walk.spans \in Seq(Spans)
    BY <1>1 DEF OpenWalks
  <2> QED
    BY <2>1
<1>3. \A k \in DOMAIN walk.spans : walk.spans[k].to >= walk.spans[k].from + MapInfoSize
  BY <1>2 DEF Spans, MapInfoSize
<1>4. PICK k \in DOMAIN walk.spans :
         /\ b >= walk.spans[k].from /\ b < walk.spans[k].to
         /\ \A j \in DOMAIN walk.spans :
              b >= walk.spans[j].from /\ b < walk.spans[j].to => j = k
  BY <1>1, <1>3 DEF SpansTile
<1>5. {j \in DOMAIN walk.spans : b >= walk.spans[j].from /\ b < walk.spans[j].to} = {k}
  BY <1>4
<1> QED
  BY <1>5, FS_Singleton

-----------------------------------------------------------------------------
(***************************************************************************)
(* The files, the walk over each, and what is layered from them.           *)
(***************************************************************************)
Exits == {"none", "running", "zero", "one", "raised", "killed"}

FilesInv ==
    /\ pc \in {"idle", "files", "walk", "delete", "insert"}
    /\ dry \in BOOLEAN
    /\ file \in 1 .. 4
    /\ pc = "walk" => file \in 1 .. 3
    /\ GoodWalk(walk)
    /\ layers \in Layers
    /\ exit \in Exits
    /\ runs \in 0 .. MaxRuns

LEMMA NoFiles == GoodWalk(NoWalk) /\ <<>> \in Layers
  BY DEF GoodWalk, NoWalk, Layers

LEMMA FilesInit == Init => FilesInv
<1> SUFFICES ASSUME Init PROVE FilesInv
  OBVIOUS
<1>1. GoodWalk(walk) /\ layers \in Layers
  BY NoFiles DEF Init
<1>2. runs \in 0 .. MaxRuns
  BY MaxRunsAssumption DEF Init
<1>3. pc = "idle" /\ file \in 1 .. 4 /\ exit \in Exits
  BY DEF Init, Exits
<1>4. dry \in BOOLEAN
  BY Zenon DEF Init
<1> QED
  BY <1>1, <1>2, <1>3, <1>4 DEF FilesInv

\* The steps that leave the files alone, and the end of a process.
LEMMA FilesStay ==
  ASSUME FilesInv, pc' \in {"idle", "files", "delete", "insert"},
         UNCHANGED <<dry, file, walk, layers, exit, runs>>
  PROVE  FilesInv'
<1>1. GoodWalk(walk)'
  BY DEF FilesInv
<1> QED
  BY <1>1 DEF FilesInv

LEMMA FilesEnd ==
  ASSUME FilesInv, NEW how \in Exits, End(how), runs' \in 0 .. MaxRuns
  PROVE  FilesInv'
<1>1. GoodWalk(walk)' /\ (layers \in Layers)'
  BY NoFiles DEF End
<1>2. pc' = "idle" /\ dry' \in BOOLEAN /\ file' = 1 /\ exit' \in Exits
  BY DEF End
<1> QED
  BY <1>1, <1>2 DEF FilesInv

LEMMA StartKeepsFiles == FilesInv /\ Start => FilesInv'
<1> SUFFICES ASSUME FilesInv, Start PROVE FilesInv'
  OBVIOUS
<1>1. runs' \in 0 .. MaxRuns
  BY MaxRunsAssumption DEF FilesInv, Start
<1>2. CASE End("one")
  BY <1>1, <1>2, FilesEnd DEF Exits
<1>3. CASE /\ pc' = "files" /\ exit' = "running" /\ dry' \in BOOLEAN
           /\ UNCHANGED <<file, walk, layers, todo, view>>
  <2>1. GoodWalk(walk)'
    BY <1>3 DEF FilesInv
  <2> QED
    BY <1>1, <1>3, <2>1 DEF FilesInv, Exits
<1> QED
  BY <1>2, <1>3 DEF Start

LEMMA SourcesAre == DOMAIN Sources = 1 .. 3 /\ \A k \in 1 .. 3 : Sources[k] \in SourceNames
<1>1. Sources = <<"import", DbPath, "base">> /\ DbPath \in SourceNames
  BY DbPathAssumption DEF Sources, SourceNames
<1>2. DOMAIN Sources = 1 .. 3 /\ Sources[1] = "import" /\ Sources[2] = DbPath /\ Sources[3] = "base"
  BY <1>1
<1>3. Sources[1] \in SourceNames /\ Sources[2] \in SourceNames /\ Sources[3] \in SourceNames
  BY <1>1, <1>2 DEF SourceNames
<1> QED
  BY <1>2, <1>3

LEMMA FilesAreReadKeeps == FilesInv /\ (SkipFile \/ OpenFile \/ Walk) => FilesInv'
<1> SUFFICES ASSUME FilesInv, SkipFile \/ OpenFile \/ Walk PROVE FilesInv'
  OBVIOUS
<1>1. CASE SkipFile
  <2>1. file \in 1 .. 3 /\ file' = file + 1
    BY <1>1, SourcesAre DEF SkipFile
  <2>2. GoodWalk(walk)'
    BY <1>1 DEF FilesInv, SkipFile
  <2> QED
    BY <1>1, <2>1, <2>2 DEF FilesInv, SkipFile, others
<1>2. CASE OpenFile
  <2>1. file \in 1 .. 3
    BY <1>2, SourcesAre DEF OpenFile
  <2>2. PICK h \in Shapes[file] : walk' = Opened(h.size, h.stated, h.count)
    BY <1>2 DEF OpenFile
  <2>3. h \in [size : Nat, stated : Nat, count : Nat]
    BY <2>1, ShapeAssumption
  <2>4. GoodWalk(walk')
    BY <2>2, <2>3, OpenedIsGood
  <2> QED
    BY <1>2, <2>1, <2>4 DEF FilesInv, OpenFile, others
<1>3. CASE Walk
  <2>1. PICK e \in Entries, grid \in Grids \cup {Corrupt} : walk' = ReadMap(walk, e, grid)
    BY <1>3 DEF Walk
  <2>2. GoodWalk(walk) /\ walk.state = "open"
    BY <1>3 DEF FilesInv, Walk
  <2>3. GoodWalk(walk')
    BY <2>1, <2>2, ReadIsGood
  <2> QED
    BY <1>3, <2>3 DEF FilesInv, Walk, others
<1> QED
  BY <1>1, <1>2, <1>3

LEMMA CloseFileKeepsFiles == FilesInv /\ CloseFile => FilesInv'
<1> SUFFICES ASSUME FilesInv, CloseFile PROVE FilesInv'
  OBVIOUS
<1>1. PICK w : w = IF walk.state = "open" THEN Finished(walk) ELSE walk
  OBVIOUS
<1>2. runs' = runs
  BY DEF CloseFile, others
<1>3. GoodWalk(walk)
  BY DEF FilesInv
<1>4. GoodWalk(w) /\ (w.state = "parsed" => w.maps \in Seq(MapRecords))
  <2>1. CASE walk.state = "open"
    BY <1>1, <1>3, <2>1, FinishedIsGood
  <2>2. CASE walk.state # "open"
    <3>1. w = walk
      BY <1>1, <2>2
    <3>2. walk.state = "parsed" => walk.maps \in Seq(MapRecords)
      BY <1>3 DEF GoodWalk, OpenWalks
    <3> QED
      BY <1>3, <3>1, <3>2
  <2> QED
    BY <2>1, <2>2
<1>5. CASE w.state = "parsed"
  <2>1. PICK one : one = [path |-> Sources[file], maps |-> w.maps]
    OBVIOUS
  <2>2. /\ layers' = Append(layers, one)
        /\ pc' = "files" /\ file' = file + 1 /\ walk' = w
        /\ UNCHANGED <<dry, exit>>
    BY <1>1, <1>5, <2>1 DEF CloseFile
  <2>3. file \in 1 .. 3
    BY DEF FilesInv, CloseFile
  <2>4. one \in [path : SourceNames, maps : Seq(MapRecords)]
    BY <1>4, <1>5, <2>1, <2>3, SourcesAre
  <2>5. layers' \in Layers
    BY <2>2, <2>4 DEF FilesInv, Layers
  <2>6. GoodWalk(walk')
    BY <1>4, <2>2
  <2>7. file' \in 1 .. 4 /\ pc' = "files" /\ UNCHANGED <<dry, exit, runs>>
    BY <1>2, <2>2, <2>3
  <2> QED
    BY <2>5, <2>6, <2>7 DEF FilesInv
<1>6. CASE w.state # "parsed"
  <2>1. End("one")
    BY <1>1, <1>6 DEF CloseFile
  <2>2. runs' \in 0 .. MaxRuns
    BY <1>2 DEF FilesInv
  <2> QED
    BY <2>1, <2>2, FilesEnd DEF Exits
<1> QED
  BY <1>5, <1>6

LEMMA FilesNext == FilesInv /\ [Next]_vars => FilesInv'
<1> SUFFICES ASSUME FilesInv, [Next]_vars PROVE FilesInv'
  OBVIOUS
<1>1. CASE \E how \in Exits : End(how) /\ runs' = runs
  <2>1. PICK how \in Exits : End(how) /\ runs' = runs
    BY <1>1
  <2>2. runs' \in 0 .. MaxRuns
    BY <2>1 DEF FilesInv
  <2> QED
    BY <2>1, <2>2, FilesEnd
<1>2. CASE /\ UNCHANGED <<dry, file, walk, layers, exit, runs>>
           /\ pc' \in {"idle", "files", "delete", "insert"}
  BY <1>2, FilesStay
<1>3. CASE UNCHANGED importer
  <2>1. GoodWalk(walk)'
    BY <1>3 DEF importer, FilesInv
  <2> QED
    BY <1>3, <2>1 DEF importer, FilesInv
<1>4. CASE CreateTable \/ DropTable
  BY <1>3, <1>4 DEF CreateTable, DropTable
<1>5. CASE Start
  BY <1>5, StartKeepsFiles
<1>6. CASE SkipFile \/ OpenFile \/ Walk
  BY <1>6, FilesAreReadKeeps
<1>7. CASE CloseFile
  BY <1>7, CloseFileKeepsFiles
<1>8. CASE LayerFiles
  BY <1>1, <1>2, <1>8 DEF LayerFiles, others, Exits
<1>9. CASE Delete
  BY <1>1, <1>2, <1>9 DEF Delete, Rollback, Exits
<1>10. CASE Insert
  BY <1>1, <1>2, <1>10 DEF Insert, Rollback, Exits
<1>11. CASE Commit
  BY <1>1, <1>11 DEF Commit, Rollback, Exits
<1>12. CASE Crash
  BY <1>1, <1>12 DEF Crash, others, Exits
<1>13. CASE CountList \/ ReadPage \/ ReadPresent \/ CountMaps \/ ReadMapRow
  BY <1>3, <1>13 DEF CountList, ReadPage, ReadPresent, CountMaps, ReadMapRow
<1>14. CASE UNCHANGED vars
  BY <1>3, <1>14 DEF vars
<1> QED
  BY <1>4, <1>5, <1>6, <1>7, <1>8, <1>9, <1>10, <1>11, <1>12, <1>13, <1>14 DEF Next

LEMMA FirstWins == FilesInv /\ TransactionStands => FirstLayerWins
<1> SUFFICES ASSUME layers \in Layers, todo = Layer(layers) PROVE FirstLayerWins
  BY DEF FilesInv, TransactionStands, FirstLayerWins
<1>1. \A p \in Places(layers) :
         \/ [source |-> layers[p[1]].path, record |-> layers[p[1]].maps[p[2]]] \in todo
         \/ \E q \in Places(layers) :
               /\ p[1] > q[1] \/ (p[1] = q[1] /\ p[2] > q[2])
               /\ layers[q[1]].maps[q[2]].name = layers[p[1]].maps[p[2]].name
  <2> SUFFICES ASSUME NEW p \in Places(layers), RowAt(layers, p) \notin todo
               PROVE  \E q \in Places(layers) :
                         /\ Earlier(q, p)
                         /\ RowAt(layers, q).record.name = RowAt(layers, p).record.name
    BY PlaceIs DEF RowAt, Earlier
  <2> QED
    BY LayerChooses
<1>2. Cardinality(todo) = Cardinality({layers[p[1]].maps[p[2]].name : p \in Places(layers)})
  <2>1. \A p \in Places(layers) : RowAt(layers, p).record.name = layers[p[1]].maps[p[2]].name
    BY DEF RowAt
  <2>2. {RowAt(layers, p).record.name : p \in Places(layers)}
          = {layers[p[1]].maps[p[2]].name : p \in Places(layers)}
    BY <2>1
  <2> QED
    BY <2>2, LayerCounts
<1>3. \A p, q \in Places(layers) : p[1] \in Nat /\ p[2] \in Nat /\ q[1] \in Nat /\ q[2] \in Nat
  BY PlaceIs
<1> QED
  BY <1>1, <1>2, <1>3 DEF FirstLayerWins, Places

-----------------------------------------------------------------------------
(***************************************************************************)
(* The tables: what is there, what the transaction has filled so far, and  *)
(* what a request has seen are whole imports, or no table.                 *)
(***************************************************************************)
TablesInv ==
    /\ table = NoTable \/ AnImport(table)
    /\ pc = "insert" => AnImport(view)
    /\ IsFiniteSet(seen)
    /\ \A t \in seen : t = NoTable \/ AnImport(t)

LEMMA EmptyIsAnImport == AnImport({})
  BY FS_EmptySet DEF AnImport

LEMMA InsertedIsAnImport ==
  ASSUME FilesInv, TransactionStands, TablesInv, pc = "insert", NEW m \in todo, Accepted(m)
  PROVE  AnImport(view \cup {m})
<1>1. m \in Layer(layers) /\ layers \in Layers
  BY DEF TransactionStands, FilesInv
<1>2. PICK p \in Places(layers) : m = RowAt(layers, p)
  BY <1>1, LayerChooses
<1>3. m \in Rows
  BY <1>1, <1>2, PlaceIs
<1>4. /\ m.source \in SourceNames /\ m.record \in MapRecords
      /\ m = [source |-> m.source, record |-> m.record]
  BY <1>3 DEF Rows
<1>5. PICK r : r = m.record
  OBVIOUS
<1>6. /\ r \in [name : DOMAIN Collate, width : Int, height : Int, cells : Grids, walkable : Nat]
      /\ Len(r.cells) = r.width * r.height /\ r.walkable = WalkableCells(r.cells)
  BY <1>4, <1>5 DEF MapRecords
<1>7. r.width \in Nat /\ r.height \in Nat
  BY <1>5, <1>6 DEF Accepted
<1>8. r \in [name : DOMAIN Collate, width : Nat, height : Nat, cells : Grids, walkable : Nat]
  BY <1>6, <1>7
<1>9. IsFiniteSet(view \cup {m})
  BY FS_AddElement DEF TablesInv, AnImport
<1>10. AnImport(view)
  BY DEF TablesInv
<1>11. view \cup {m} \subseteq [source : SourceNames,
                              record : [name : DOMAIN Collate, width : Nat, height : Nat,
                                        cells : Grids, walkable : Nat]]
  BY <1>4, <1>5, <1>8, <1>10 DEF AnImport
<1>12. \A o \in view \cup {m} : /\ Len(o.record.cells) = o.record.width * o.record.height
                               /\ o.record.walkable = WalkableCells(o.record.cells)
  BY <1>5, <1>6, <1>10 DEF AnImport
<1>13. \A n, o \in view \cup {m} : Collate[n.record.name] = Collate[o.record.name] => n = o
  BY <1>10 DEF AnImport, Accepted
<1> QED
  BY <1>9, <1>11, <1>12, <1>13 DEF AnImport

LEMMA TablesInit == Init => TablesInv
  BY BeforeAssumption, FS_EmptySet DEF Init, TablesInv

LEMMA TablesNext ==
  FilesInv /\ TransactionStands /\ TablesInv /\ [Next]_vars => TablesInv'
<1> SUFFICES ASSUME FilesInv, TransactionStands, TablesInv, [Next]_vars PROVE TablesInv'
  OBVIOUS
<1>1. ASSUME NEW t, t = NoTable \/ AnImport(t)
      PROVE  IsFiniteSet(seen \cup {t}) /\ \A o \in seen \cup {t} : o = NoTable \/ AnImport(o)
  <2>1. IsFiniteSet(seen \cup {t})
    BY FS_AddElement DEF TablesInv
  <2> QED
    BY <1>1, <2>1 DEF TablesInv
<1>2. ASSUME NEW t, t = NoTable \/ AnImport(t), Publish(t), pc' # "insert" \/ UNCHANGED <<pc, view>>
      PROVE  TablesInv'
  <2>1. IsFiniteSet(seen') /\ \A o \in seen' : o = NoTable \/ AnImport(o)
    BY <1>1, <1>2 DEF Publish
  <2>2. table' = NoTable \/ AnImport(table')
    BY <1>2 DEF Publish
  <2>3. pc' = "insert" => AnImport(view')
    BY <1>2 DEF TablesInv
  <2> QED
    BY <2>1, <2>2, <2>3 DEF TablesInv
<1>3. CASE UNCHANGED <<table, seen>> /\ (pc' # "insert" \/ UNCHANGED <<pc, view>>)
  BY <1>3 DEF TablesInv
<1>4. CASE UNCHANGED <<table, pc, view>> /\ seen' = {table}
  <2>1. IsFiniteSet(seen') /\ \A o \in seen' : o = NoTable \/ AnImport(o)
    BY <1>4, FS_Singleton DEF TablesInv
  <2>2. (table' = NoTable \/ AnImport(table')) /\ (pc' = "insert" => AnImport(view'))
    BY <1>4 DEF TablesInv
  <2> QED
    BY <2>1, <2>2 DEF TablesInv
<1>5. CASE CreateTable
  BY <1>2, <1>5, EmptyIsAnImport DEF CreateTable, importer
<1>6. CASE DropTable
  BY <1>2, <1>6 DEF DropTable, importer
<1>7. CASE Start \/ SkipFile \/ OpenFile \/ Walk \/ CloseFile \/ LayerFiles \/ Crash
  <2>1. UNCHANGED <<table, seen>>
    BY <1>7 DEF Start, SkipFile, OpenFile, Walk, CloseFile, LayerFiles, Crash, others
  <2>2. pc' # "insert"
    BY <1>7 DEF Start, SkipFile, OpenFile, Walk, CloseFile, LayerFiles, Crash, End
  <2> QED
    BY <1>3, <2>1, <2>2
<1>8. CASE Delete
  <2>1. CASE Rollback
    BY <1>3, <2>1 DEF Rollback, End
  <2>2. CASE view' = {} /\ pc' = "insert" /\ Publish(Visible({}))
    <3>1. table' = table /\ seen' = seen \cup {table}
      BY <2>2 DEF Publish, Visible
    <3>2. table = NoTable \/ AnImport(table)
      BY DEF TablesInv
    <3>3. IsFiniteSet(seen') /\ \A o \in seen' : o = NoTable \/ AnImport(o)
      BY <1>1, <3>1, <3>2
    <3>4. (table' = NoTable \/ AnImport(table')) /\ AnImport(view')
      BY <2>2, <3>1, <3>2, EmptyIsAnImport
    <3> QED
      BY <3>3, <3>4 DEF TablesInv
  <2> QED
    BY <1>8, <2>1, <2>2 DEF Delete
<1>9. CASE Insert
  <2>1. CASE Rollback
    BY <1>3, <2>1 DEF Rollback, End
  <2>2. CASE \E m \in todo : /\ Accepted(m) /\ view' = view \cup {m}
                            /\ Publish(Visible(view \cup {m})) /\ UNCHANGED pc
    <3>1. PICK m \in todo : Accepted(m) /\ view' = view \cup {m}
                            /\ Publish(Visible(view \cup {m})) /\ UNCHANGED pc
      BY <2>2
    <3>2. table' = table /\ seen' = seen \cup {table}
      BY <3>1 DEF Publish, Visible
    <3>3. table = NoTable \/ AnImport(table)
      BY DEF TablesInv
    <3>4. IsFiniteSet(seen') /\ \A o \in seen' : o = NoTable \/ AnImport(o)
      BY <1>1, <3>2, <3>3
    <3>5. AnImport(view')
      BY <1>9, <3>1, InsertedIsAnImport DEF Insert
    <3> QED
      BY <3>2, <3>3, <3>4, <3>5 DEF TablesInv
  <2> QED
    BY <1>9, <2>1, <2>2 DEF Insert
<1>10. CASE Commit
  <2>1. pc = "insert" /\ pc' # "insert"
    BY <1>10 DEF Commit, Rollback, End
  <2>2. CASE Publish(view)
    <3>1. AnImport(view)
      BY <2>1 DEF TablesInv
    <3> QED
      BY <1>2, <2>1, <2>2, <3>1
  <2>3. CASE Rollback
    BY <1>3, <2>1, <2>3 DEF Rollback
  <2> QED
    BY <1>10, <2>2, <2>3 DEF Commit
<1>11. CASE CountList \/ ReadPresent \/ ReadMapRow
  BY <1>4, <1>11 DEF CountList, ReadPresent, ReadMapRow, importer
<1>12. CASE ReadPage \/ CountMaps
  BY <1>3, <1>12 DEF ReadPage, CountMaps, importer
<1>13. CASE UNCHANGED vars
  BY <1>3, <1>13 DEF vars, importer
<1> QED
  BY <1>5, <1>6, <1>7, <1>8, <1>9, <1>10, <1>11, <1>12, <1>13 DEF Next

-----------------------------------------------------------------------------
(***************************************************************************)
(* What is stored of a map agrees with what is said of its cells.          *)
(***************************************************************************)
LEMMA CellPlace ==
  ASSUME NEW w \in Nat, NEW h \in Nat, NEW x \in 0 .. w - 1, NEW y \in 0 .. h - 1
  PROVE  y * w + x + 1 \in 1 .. w * h
<1>1. y * w \in Nat /\ w * h \in Nat /\ (h - 1) * w = w * h - w
  OBVIOUS
<1>2. y * w <= (h - 1) * w
  OBVIOUS
<1> QED
  BY <1>1, <1>2

LEMMA CellPlacesDiffer ==
  ASSUME NEW w \in Nat, NEW h \in Nat, NEW x \in 0 .. w - 1, NEW y \in 0 .. h - 1,
         NEW u \in 0 .. w - 1, NEW v \in 0 .. h - 1, y < v
  PROVE  y * w + x + 1 # v * w + u + 1
<1>1. y * w \in Nat /\ v * w \in Nat /\ (y + 1) * w = y * w + w
  OBVIOUS
<1>2. (y + 1) * w <= v * w
  OBVIOUS
<1> QED
  BY <1>1, <1>2

\* The importer counts the cells nothing blocks; the service tells of each cell
\* whether it can be walked on: the same cells, each by its own rule.
LEMMA DensityIsOfCells ==
  ASSUME NEW r, r.width \in Nat, r.height \in Nat, r.cells \in Grids,
         Len(r.cells) = r.width * r.height
  PROVE  WalkableCells(r.cells) =
           Cardinality({c \in (0 .. r.width - 1) \X (0 .. r.height - 1) :
                          CellAt(r, c[1], c[2]).walkable})
<1>1. PICK w \in Nat : w = r.width
  OBVIOUS
<1>2. PICK h \in Nat : h = r.height
  OBVIOUS
<1>3. PICK g \in Seq(0 .. 6) : g = r.cells
  BY GridAssumption
<1>4. Len(g) = w * h /\ DOMAIN g = 1 .. Len(g) /\ Len(g) \in Nat
  BY <1>1, <1>2, <1>3
<1> DEFINE Cells == (0 .. w - 1) \X (0 .. h - 1)
           at == [c \in Cells |-> c[2] * w + c[1] + 1]
           A == {c \in Cells : g[at[c]] \notin {1, 5}}
           B == {i \in DOMAIN g : g[i] \notin {1, 5}}
           to == [c \in A |-> at[c]]
<1>5. \A c \in Cells : at[c] \in DOMAIN g
  <2> SUFFICES ASSUME NEW x \in 0 .. w - 1, NEW y \in 0 .. h - 1
               PROVE  y * w + x + 1 \in 1 .. w * h
    BY <1>4
  <2> QED
    BY CellPlace
<1>6. \A c, d \in Cells : at[c] = at[d] => c = d
  <2>1. ASSUME NEW x \in 0 .. w - 1, NEW y \in 0 .. h - 1,
               NEW u \in 0 .. w - 1, NEW v \in 0 .. h - 1,
               y * w + x + 1 = v * w + u + 1
        PROVE  x = u /\ y = v
    <3>1. ~(y < v)
      BY <2>1, CellPlacesDiffer
    <3>2. ~(v < y)
      BY <2>1, CellPlacesDiffer
    <3>3. y = v
      BY <3>1, <3>2
    <3>4. PICK k \in Int : k = y * w
      OBVIOUS
    <3>5. k + x + 1 = k + u + 1
      BY <2>1, <3>3, <3>4
    <3> QED
      BY <3>3, <3>5
  <2> SUFFICES ASSUME NEW c \in Cells, NEW d \in Cells, at[c] = at[d] PROVE c = d
    OBVIOUS
  <2>2. c[2] * w + c[1] + 1 = d[2] * w + d[1] + 1
    OBVIOUS
  <2>3. /\ c[1] \in 0 .. w - 1 /\ c[2] \in 0 .. h - 1 /\ d[1] \in 0 .. w - 1 /\ d[2] \in 0 .. h - 1
        /\ c = <<c[1], c[2]>> /\ d = <<d[1], d[2]>>
    OBVIOUS
  <2> HIDE DEF at, Cells
  <2>4. PICK x \in 0 .. w - 1, y \in 0 .. h - 1, u \in 0 .. w - 1, v \in 0 .. h - 1 :
           x = c[1] /\ y = c[2] /\ u = d[1] /\ v = d[2]
    BY <2>3
  <2>5. y * w + x + 1 = v * w + u + 1
    BY <2>2, <2>4, Zenon
  <2>6. x = u /\ y = v
    BY <2>1, <2>5, Zenon
  <2> QED
    BY <2>3, <2>4, <2>6
<1>7. IsFiniteSet(DOMAIN g) /\ Cardinality(DOMAIN g) = w * h
  BY <1>4, CountTo
<1>8. IsFiniteSet(Cells) /\ Cardinality(Cells) = w * h
  <2>1. PICK X : X = 0 .. w - 1
    OBVIOUS
  <2>2. PICK Y : Y = 0 .. h - 1
    OBVIOUS
  <2>3. IsFiniteSet(X) /\ Cardinality(X) = w /\ IsFiniteSet(Y) /\ Cardinality(Y) = h
    BY <2>1, <2>2, CountBelow
  <2>4. IsFiniteSet(X \X Y) /\ Cardinality(X \X Y) = Cardinality(X) * Cardinality(Y)
    BY <2>3, FS_Product
  <2> QED
    BY <2>1, <2>2, <2>3, <2>4
<1> HIDE DEF Cells
<1>9. at \in Injection(Cells, DOMAIN g)
  BY <1>5, <1>6 DEF Injection, IsInjective
<1>10. at \in Surjection(Cells, DOMAIN g)
  BY <1>7, <1>8, <1>9, FS_Injection
<1> HIDE DEF at
<1>11. to \in Bijection(A, B)
  <2>1. to \in [A -> B]
    BY <1>9 DEF Injection
  <2>2. \A c, d \in A : to[c] = to[d] => c = d
    BY <1>9 DEF Injection, IsInjective
  <2>3. \A i \in B : \E c \in A : to[c] = i
    BY <1>10 DEF Surjection
  <2> QED
    BY <2>1, <2>2, <2>3 DEF Bijection, Injection, Surjection, IsInjective
<1>12. IsFiniteSet(A)
  BY <1>8, FS_Subset
<1>13. Cardinality(B) = Cardinality(A)
  BY <1>11, <1>12, FS_Bijection DEF ExistsBijection
<1>14. WalkableCells(r.cells) = Cardinality(B)
  BY <1>3 DEF WalkableCells, BlockedGat
<1>15. A = {c \in (0 .. r.width - 1) \X (0 .. r.height - 1) : CellAt(r, c[1], c[2]).walkable}
  <2>1. Cells = (0 .. r.width - 1) \X (0 .. r.height - 1)
    BY <1>1, <1>2 DEF Cells
  <2>2. ASSUME NEW c \in Cells
        PROVE  CellAt(r, c[1], c[2]).walkable <=> g[at[c]] \notin {1, 5}
    <3>1. at[c] = c[2] * r.width + c[1] + 1
      BY <1>1 DEF at
    <3>2. CellAt(r, c[1], c[2]).walkable = (r.cells[c[2] * r.width + c[1] + 1] \notin {1, 5})
      BY Zenon DEF CellAt, NotWalkable
    <3> QED
      BY <1>3, <3>1, <3>2
  <2> QED
    BY <2>1, <2>2
<1> QED
  BY <1>13, <1>14, <1>15

LEMMA DensityStands == TablesInv => DensityMatchesCells
<1> SUFFICES ASSUME TablesInv, table # NoTable, NEW m \in table
             PROVE  m.record.walkable =
                      Cardinality({c \in (0 .. m.record.width - 1) \X (0 .. m.record.height - 1) :
                                     CellAt(m.record, c[1], c[2]).walkable})
  BY DEF DensityMatchesCells
<1>1. AnImport(table)
  BY DEF TablesInv
<1>2. m.record \in [name : DOMAIN Collate, width : Nat, height : Nat, cells : Grids, walkable : Nat]
  BY <1>1 DEF AnImport
<1>3. PICK r : r = m.record
  OBVIOUS
<1>4. /\ r.width \in Nat /\ r.height \in Nat /\ r.cells \in Grids
      /\ Len(r.cells) = r.width * r.height /\ r.walkable = WalkableCells(r.cells)
  BY <1>1, <1>2, <1>3 DEF AnImport
<1>5. r.walkable = Cardinality({c \in (0 .. r.width - 1) \X (0 .. r.height - 1) :
                                  CellAt(r, c[1], c[2]).walkable})
  BY <1>4, DensityIsOfCells
<1> QED
  BY <1>3, <1>5

LEMMA TypesStand == FilesInv /\ TablesInv /\ request.at \in {"answered", "page", "count"} => TypeOK
<1> SUFFICES ASSUME FilesInv, TablesInv, request.at \in {"answered", "page", "count"} PROVE TypeOK
  OBVIOUS
<1>1. /\ walk.state \in {"none", "open", "bad", "parsed"}
      /\ walk.state = "open" => walk.offset <= walk.size
  <2>1. GoodWalk(walk)
    BY DEF FilesInv
  <2>2. walk \in OpenWalks => walk.state \in {"open", "parsed"}
    BY DEF OpenWalks
  <2> QED
    BY <2>1, <2>2 DEF GoodWalk
<1>2. layers \in Seq([path : SourceNames, maps : Seq([name : DOMAIN Collate, width : Int,
                       height : Int, cells : Grids, walkable : Nat])])
  <2>1. PICK R :
           R = [name : DOMAIN Collate, width : Int, height : Int, cells : Grids, walkable : Nat]
    OBVIOUS
  <2>2. MapRecords \subseteq R
    BY <2>1 DEF MapRecords
  <2>3. Seq(MapRecords) \subseteq Seq(R)
    BY <2>2
  <2>4. PICK S : S = [path : SourceNames, maps : Seq(MapRecords)]
    OBVIOUS
  <2>5. PICK T : T = [path : SourceNames, maps : Seq(R)]
    OBVIOUS
  <2>6. S \subseteq T
    BY <2>3, <2>4, <2>5
  <2>7. layers \in Seq(S)
    BY <2>4 DEF FilesInv, Layers
  <2>8. layers \in Seq(T)
    BY <2>6, <2>7
  <2> QED
    BY <2>1, <2>5, <2>8
<1>3. table # NoTable => \A m \in table : m.source \in SourceNames
  BY DEF TablesInv, AnImport
<1>4. /\ pc \in {"idle", "files", "walk", "delete", "insert"} /\ file \in 1 .. 4
      /\ exit \in {"none", "running", "zero", "one", "raised", "killed"} /\ runs \in 0 .. MaxRuns
  BY DEF FilesInv, Exits
<1>5. dry \in BOOLEAN
  BY DEF FilesInv
<1> QED
  BY <1>1, <1>2, <1>3, <1>4, <1>5 DEF TypeOK

-----------------------------------------------------------------------------
(***************************************************************************)
(* A listing, in two statements.                                           *)
(***************************************************************************)
\* How many rows LIMIT and OFFSET leave of n.
Left(n, w) == LET left == n - w.offset IN
              IF left <= 0 THEN 0 ELSE IF left < w.limit THEN left ELSE w.limit

LEMMA PageCounts ==
  ASSUME NEW t, AnImport(t), NEW w \in Windows
  PROVE  Cardinality(Page(t, w)) = Left(Cardinality(t), w)
<1>1. IsFiniteSet(t)
  BY DEF AnImport
<1>2. PICK n \in Nat : n = Cardinality(t)
  BY <1>1, FS_CardinalityType
<1>3. PICK from \in Nat : from = w.offset
  BY WindowAssumption
<1>4. PICK limit \in Nat \ {0} : limit = w.limit
  BY WindowAssumption
<1> DEFINE R == {p \in t \X t : Collate[p[1].record.name] < Collate[p[2].record.name]}
<1>5. \A m \in t : Collate[m.record.name] \in Nat
  <2>1. \A m \in t : m.record.name \in DOMAIN Collate
    BY DEF AnImport
  <2> QED
    BY <2>1, CollateAssumption
<1>6. \A m, o \in t : <<m, o>> \in R <=> Collate[m.record.name] < Collate[o.record.name]
  OBVIOUS
<1>7. \A m, o \in t : Collate[m.record.name] = Collate[o.record.name] => m = o
  BY DEF AnImport
<1> HIDE DEF R
<1>8. StrictOrder(R, t)
  <2>1. \A a \in t : <<a, a>> \notin R
    BY <1>5, <1>6
  <2>2. \A a, b, c \in t : <<a, b>> \in R /\ <<b, c>> \in R => <<a, c>> \in R
    BY <1>5, <1>6
  <2>3. \A a, b \in t : a = b \/ <<a, b>> \in R \/ <<b, a>> \in R
    <3> SUFFICES ASSUME NEW a \in t, NEW b \in t
                 PROVE  a = b \/ <<a, b>> \in R \/ <<b, a>> \in R
      OBVIOUS
    <3>1. Collate[a.record.name] \in Nat /\ Collate[b.record.name] \in Nat
      BY <1>5
    <3>2. CASE Collate[a.record.name] = Collate[b.record.name]
      BY <1>7, <3>2
    <3>3. CASE Collate[a.record.name] < Collate[b.record.name]
      BY <1>6, <3>3
    <3>4. CASE Collate[b.record.name] < Collate[a.record.name]
      BY <1>6, <3>4
    <3> QED
      BY <3>1, <3>2, <3>3, <3>4
  <2> QED
    BY <2>1, <2>2, <2>3 DEF StrictOrder
<1>9. \A m \in t : Rank(t, m) = RankOf(R, t, m)
  <2> SUFFICES ASSUME NEW m \in t PROVE Rank(t, m) = RankOf(R, t, m)
    OBVIOUS
  <2>1. {o \in t : Collate[o.record.name] < Collate[m.record.name]} = Ahead(R, t, m)
    BY <1>6 DEF Ahead
  <2> QED
    BY <2>1 DEF Rank, RankOf
<1> DEFINE P == Page(t, w)
           last == IF n < from + limit THEN n - 1 ELSE from + limit - 1
           f == [m \in P |-> Rank(t, m)]
<1>10. P = {m \in t : Rank(t, m) \in from .. from + limit - 1}
  BY <1>3, <1>4 DEF Page
<1>11. \A m \in t : Rank(t, m) \in 0 .. n - 1
  BY <1>1, <1>2, <1>8, <1>9, RankInRange
<1> HIDE DEF P
<1>12. \A m \in P : m \in t /\ Rank(t, m) \in from .. last
  BY <1>10, <1>11
<1>13. \A m, o \in P : f[m] = f[o] => m = o
  BY <1>1, <1>8, <1>9, <1>12, RankIsOne
<1>14. \A r \in from .. last : \E m \in P : f[m] = r
  <2> SUFFICES ASSUME NEW r \in from .. last PROVE \E m \in P : Rank(t, m) = r
    OBVIOUS
  <2>1. r \in 0 .. n - 1 /\ r \in from .. from + limit - 1
    OBVIOUS
  <2>2. PICK m \in t : RankOf(R, t, m) = r
    BY <1>1, <1>2, <1>8, <2>1, RankIsTaken
  <2>3. Rank(t, m) = r
    BY <1>9, <2>2
  <2> QED
    BY <1>10, <2>1, <2>3
<1>15. f \in Bijection(P, from .. last)
  <2>1. f \in [P -> from .. last]
    BY <1>12
  <2> QED
    BY <2>1, <1>13, <1>14 DEF Bijection, Injection, Surjection, IsInjective
<1>16. IsFiniteSet(P)
  BY <1>1, <1>10, FS_Subset
<1>17. Cardinality(from .. last) = Cardinality(P)
  BY <1>15, <1>16, FS_Bijection DEF ExistsBijection
<1>18. Cardinality(from .. last) = IF from > last THEN 0 ELSE last - from + 1
  <2>1. last \in Int
    OBVIOUS
  <2> HIDE DEF last
  <2> QED
    BY <2>1, FS_Interval
<1>19. Left(n, w) = IF from > last THEN 0 ELSE last - from + 1
  BY <1>3, <1>4 DEF Left
<1> QED
  BY <1>2, <1>17, <1>18, <1>19 DEF P

\* A listing between its two statements has counted a table that was there.
TotalIsOfATable(total) == \E t \in seen \ {NoTable} : total = Cardinality(t)

PageInv ==
    /\ request.at \in {"answered", "page", "count"}
    /\ request.at \in {"page", "count"} => table \in seen
    /\ request.at = "page" => request.window \in Windows /\ TotalIsOfATable(request.total)
    /\ PageMatchesTotal

LEMMA PageInit == Init => PageInv
<1> SUFFICES ASSUME Init PROVE PageInv
  OBVIOUS
<1>1. request = [at |-> "answered", kind |-> "none", status |-> 0]
  BY DEF Init, NoRequest, Answer
<1> QED
  BY <1>1 DEF PageInv, PageMatchesTotal

\* Steps that are not a request's: what it has seen only grows.
LEMMA WorldKeepsPage ==
  ASSUME PageInv, UNCHANGED request,
         \/ table' = table /\ seen' = seen
         \/ seen' = seen \cup {table'} /\ IsFiniteSet(seen')
  PROVE  PageInv'
<1>1. seen \subseteq seen' /\ (request.at \in {"page", "count"} => table' \in seen')
  BY DEF PageInv
<1>2. request'.at = "page" => request'.window \in Windows /\ TotalIsOfATable(request.total)'
  BY <1>1 DEF PageInv, TotalIsOfATable
<1>3. ASSUME seen # {}, Cardinality(seen') = 1 PROVE seen' = seen
  <2>1. CASE seen' = seen
    BY <2>1
  <2>2. CASE seen' = seen \cup {table'} /\ IsFiniteSet(seen')
    <3>1. PICK x : seen' = {x}
      BY <1>3, <2>2, FS_Singleton
    <3> QED
      BY <1>1, <1>3, <3>1
  <2> QED
    BY <2>1, <2>2
<1>4. PageMatchesTotal'
  <2> SUFFICES ASSUME request.at = "answered" /\ request.kind = "list" /\ request.status = 200
               PROVE  /\ \E t \in seen' \ {NoTable} : request.total = Cardinality(t)
                      /\ \E t \in seen' \ {NoTable} : request.items \subseteq t
                      /\ Cardinality(seen') = 1 =>
                           LET left == request.total - request.window.offset IN
                           Cardinality(request.items) =
                               IF left <= 0 THEN 0
                               ELSE IF left < request.window.limit
                                    THEN left ELSE request.window.limit
    BY DEF PageMatchesTotal
  <2>1. /\ \E t \in seen \ {NoTable} : request.total = Cardinality(t)
        /\ \E t \in seen \ {NoTable} : request.items \subseteq t
        /\ Cardinality(seen) = 1 =>
             LET left == request.total - request.window.offset IN
             Cardinality(request.items) =
                 IF left <= 0 THEN 0
                 ELSE IF left < request.window.limit
                      THEN left ELSE request.window.limit
    BY DEF PageInv, PageMatchesTotal
  <2>2. Cardinality(seen') = 1 => Cardinality(seen) = 1
    BY <1>3, <2>1
  <2> QED
    BY <1>1, <2>1, <2>2
<1> QED
  BY <1>1, <1>2, <1>4 DEF PageInv

LEMMA CountListKeepsPage == TablesInv /\ PageInv /\ CountList => PageInv'
<1> SUFFICES ASSUME TablesInv, CountList PROVE PageInv'
  OBVIOUS
<1>1. seen' = {table} /\ table' = table
  BY DEF CountList
<1>2. PICK w \in Windows :
         Reply("list", [at |-> "page", window |-> w, total |-> Cardinality(table)])
  BY DEF CountList
<1>3. CASE table = NoTable
  <2>1. request' = [at |-> "answered", kind |-> "list", status |-> 503]
    BY <1>2, <1>3 DEF Reply, Answer
  <2> QED
    BY <2>1 DEF PageInv, PageMatchesTotal
<1>4. CASE table # NoTable
  <2>1. request' = [at |-> "page", window |-> w, total |-> Cardinality(table)]
    BY <1>2, <1>4 DEF Reply
  <2>2. request'.at = "page" /\ request'.window = w /\ request'.total = Cardinality(table)
    BY <2>1
  <2>3. \E t \in seen' \ {NoTable} : request'.total = Cardinality(t)
    BY <1>1, <1>4, <2>2
  <2> QED
    BY <1>1, <2>2, <2>3 DEF PageInv, PageMatchesTotal, TotalIsOfATable
<1> QED
  BY <1>3, <1>4

LEMMA ReadPageKeepsPage == TablesInv /\ PageInv /\ ReadPage => PageInv'
<1> SUFFICES ASSUME TablesInv, PageInv, ReadPage PROVE PageInv'
  OBVIOUS
<1>1. seen' = seen /\ table' = table /\ request.at = "page" /\ table \in seen
  BY DEF ReadPage, PageInv
<1>2. request.window \in Windows /\ TotalIsOfATable(request.total)
  BY <1>1 DEF PageInv
<1>3. CASE table = NoTable
  <2>1. request' = [at |-> "answered", kind |-> "list", status |-> 503]
    BY <1>3 DEF ReadPage, Reply, Answer
  <2> QED
    BY <2>1 DEF PageInv, PageMatchesTotal
<1>4. CASE table # NoTable
  <2>1. PICK items : items = Page(table, request.window)
    OBVIOUS
  <2>2. request' = [at |-> "answered", kind |-> "list", status |-> 200,
                    window |-> request.window, total |-> request.total, items |-> items]
    BY <1>4, <2>1 DEF ReadPage, Reply
  <2>3. /\ request'.at = "answered" /\ request'.window = request.window
        /\ request'.total = request.total /\ request'.items = items
    BY <2>2
  <2>4. AnImport(table)
    BY <1>4 DEF TablesInv
  <2>5. items \subseteq table
    BY <2>1 DEF Page
  <2>6. Cardinality(seen) = 1 => Cardinality(items) = Left(request.total, request.window)
    <3> SUFFICES ASSUME Cardinality(seen) = 1
                 PROVE  Cardinality(items) = Left(request.total, request.window)
      OBVIOUS
    <3>1. PICK x : seen = {x}
      BY FS_Singleton DEF TablesInv
    <3>2. request.total = Cardinality(table)
      BY <1>1, <1>2, <3>1 DEF TotalIsOfATable
    <3> QED
      BY <1>2, <2>1, <2>4, <3>2, PageCounts
  <2>7. \E t \in seen \ {NoTable} : items \subseteq t
    BY <1>1, <1>4, <2>5
  <2>8. PageMatchesTotal'
    BY <1>1, <1>2, <2>3, <2>6, <2>7 DEF PageMatchesTotal, TotalIsOfATable, Left
  <2> QED
    BY <2>3, <2>8 DEF PageInv
<1> QED
  BY <1>3, <1>4

LEMMA OtherReadsKeepPage == PageInv /\ (ReadPresent \/ CountMaps \/ ReadMapRow) => PageInv'
<1> SUFFICES ASSUME ReadPresent \/ CountMaps \/ ReadMapRow PROVE PageInv'
  OBVIOUS
<1>1. \/ request'.at = "count" /\ seen' = {table} /\ table' = table
      \/ request'.at = "answered" /\ request'.kind \in {"caps", "cell"}
  <2>1. CASE ReadPresent
    <3>1. CASE table = NoTable
      <4>1. request'.at = "answered" /\ request'.kind = "caps"
        BY <2>1, <3>1 DEF ReadPresent
      <4> QED
        BY <4>1
    <3>2. CASE table # NoTable
      BY <2>1, <3>2 DEF ReadPresent
    <3> QED
      BY <3>1, <3>2
  <2>2. CASE CountMaps
    <3>1. CASE table = NoTable
      BY <2>2, <3>1 DEF CountMaps, Answer
    <3>2. CASE table # NoTable
      <4>1. PICK b : b = Imported(Cardinality(table))
        OBVIOUS
      <4>2. request' = [at |-> "answered", kind |-> "caps", status |-> 200,
                        imported |-> b, count |-> Cardinality(table)]
        BY <2>2, <3>2, <4>1 DEF CountMaps
      <4> QED
        BY <4>2
    <3> QED
      BY <3>1, <3>2
  <2>3. CASE ReadMapRow
    <3>1. \A m, x, y : CellReply(m, x, y).at = "answered" /\ CellReply(m, x, y).kind = "cell"
      BY DEF CellReply, Answer
    <3>2. request' \in {Answer("cell", 404), Answer("cell", 503)}
             \/ \E m, x, y : request' = CellReply(m, x, y)
      BY <2>3 DEF ReadMapRow, Reply
    <3> QED
      BY <3>1, <3>2 DEF Answer
  <2> QED
    BY <2>1, <2>2, <2>3
<1> QED
  BY <1>1 DEF PageInv, PageMatchesTotal

LEMMA PageNext == TablesInv /\ TablesInv' /\ PageInv /\ [Next]_vars => PageInv'
<1> SUFFICES ASSUME TablesInv, IsFiniteSet(seen'), PageInv, [Next]_vars PROVE PageInv'
  BY DEF TablesInv
<1> USE DEF importer, others, Publish, End
<1>1. CASE CreateTable \/ DropTable
  BY <1>1, WorldKeepsPage DEF CreateTable, DropTable
<1>2. CASE Start \/ SkipFile \/ OpenFile \/ Walk \/ CloseFile \/ LayerFiles \/ Crash
  BY <1>2, WorldKeepsPage DEF Start, SkipFile, OpenFile, Walk, CloseFile, LayerFiles, Crash
<1>3. CASE Delete
  BY <1>3, WorldKeepsPage DEF Delete, Rollback, Visible
<1>4. CASE Insert
  BY <1>4, WorldKeepsPage DEF Insert, Rollback, Visible
<1>5. CASE Commit
  BY <1>5, WorldKeepsPage DEF Commit, Rollback
<1>6. CASE CountList
  BY <1>6, CountListKeepsPage
<1>7. CASE ReadPage
  BY <1>7, ReadPageKeepsPage
<1>8. CASE ReadPresent \/ CountMaps \/ ReadMapRow
  BY <1>8, OtherReadsKeepPage
<1>9. CASE UNCHANGED vars
  BY <1>9, WorldKeepsPage DEF vars
<1> QED
  BY <1>1, <1>2, <1>3, <1>4, <1>5, <1>6, <1>7, <1>8, <1>9 DEF Next

-----------------------------------------------------------------------------
(***************************************************************************)
(* The theorems.                                                           *)
(***************************************************************************)
\* What is checked together is proved together.
\*
\* A cache that parses was read whole, each byte for one map; of each name the
\* first map of the first file is imported, and no other; the density stored is
\* that of the cells (parse_map_cache, layer, get_cell).
THEOREM MapsAreRead == Spec => []MapsAreOfTheFiles
<1> DEFINE I == TransactionStands /\ FilesInv /\ TablesInv /\ PageInv
<1>1. Init => I
  BY InitStands, FilesInit, TablesInit, PageInit
<1>2. I /\ [Next]_vars => I'
  BY NextStands, FilesNext, TablesNext, PageNext
<1>3. I => MapsAreOfTheFiles
  <2> SUFFICES ASSUME I PROVE MapsAreOfTheFiles
    OBVIOUS
  <2>1. TypeOK
    BY TypesStand DEF PageInv
  <2>2. EveryByteOnce
    BY GoodIsReadOnce DEF FilesInv
  <2> QED
    BY <2>1, <2>2, FirstWins, DensityStands DEF MapsAreOfTheFiles
<1> QED
  BY <1>1, <1>2, <1>3, PTL DEF Spec

\* The total and the page of a listing are each of a table that was there while
\* the request ran, and agree when there was only one; and so is what the
\* capabilities say (list_maps, _maps).
THEOREM AnswersWereSo == Spec => []AnswersWereTrue
<1> DEFINE I == TransactionStands /\ FilesInv /\ TablesInv /\ PageInv
<1>1. Init => I
  BY InitStands, FilesInit, TablesInit, PageInit
<1>2. I /\ [Next]_vars => I'
  BY NextStands, FilesNext, TablesNext, PageNext
<1>3. I /\ CapabilityWasTrue => AnswersWereTrue
  BY DEF PageInv, AnswersWereTrue
<1> QED
  BY <1>1, <1>2, <1>3, CapabilitiesWereTrue, PTL DEF Spec
=============================================================================
