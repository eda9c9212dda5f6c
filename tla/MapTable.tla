------------------------------ MODULE MapTable ------------------------------
(***************************************************************************)
(* What the readers of ro_admin_maps are promised: the table passes from   *)
(* one whole import to the next in one step, an import that fails leaves   *)
(* the maps that were there, and only the operator's DDL creates or drops  *)
(* it.                                                                     *)
(***************************************************************************)
EXTENDS Sequences

CONSTANTS
    NoTable,    \* maps_schema.sql has not been run
    Before      \* the tables an earlier import may have left

VARIABLES
    table,      \* what a reader sees
    import      \* <<>>, or <<the maps of the import under way>>

Init == table \in Before /\ import = <<>>

Begin == import = <<>> /\ Len(import') = 1 /\ UNCHANGED table

Commit ==
    /\ Len(import) = 1
    /\ table # NoTable
    /\ table' = import[1]
    /\ import' = <<>>

GiveUp == Len(import) = 1 /\ import' = <<>> /\ UNCHANGED table

Create == table = NoTable /\ table' = {} /\ UNCHANGED import

Drop == table # NoTable /\ table' = NoTable /\ UNCHANGED import

Next == Begin \/ Commit \/ GiveUp \/ Create \/ Drop

Spec == Init /\ [][Next]_<<table, import>>
=============================================================================
