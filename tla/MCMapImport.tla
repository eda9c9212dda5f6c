---------------------------- MODULE MCMapImport -----------------------------
(* Three caches of at most two maps, names that collide as keys, an entry  *)
(* with negative dimensions and a pair of lengths that walks backwards.    *)
EXTENDS MapImport

Entry(name, width, height, length) ==
    [name |-> name, width |-> width, height |-> height, length |-> length]

MCEntries == {Entry("a", 1, 1, 1), Entry("A", 2, 1, 1), Entry("b", -1, -2, 1),
              Entry("b", 1, 1, -48), Entry("b", 2, 1, 50)}
MCGrids == {<<0>>, <<3, 5>>}
MCCollate == [n \in {"a", "A", "b"} |-> IF n = "b" THEN 2 ELSE 1]

Shape(size, stated, count) == [size |-> size, stated |-> stated, count |-> count]
MCShapes == <<{Shape(7, 7, 0), Shape(29, 29, 1)},
              {Shape(29, 29, 1), Shape(29, 50, 1)},
              {Shape(50, 50, 2), Shape(50, 50, 1)}>>
MCBefore == {NoTable,
             {[source |-> "base", record |-> MapRecord(Entry("a", 1, 1, 9), <<0>>)],
              [source |-> "base", record |-> MapRecord(Entry("b", 2, 1, 9), <<3, 5>>)]}}
MCWindows == {[offset |-> 0, limit |-> 1], [offset |-> 1, limit |-> 2]}
=============================================================================
