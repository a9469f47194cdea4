------------------------------ MODULE MCModify ------------------------------
(***************************************************************************)
(* Instances of Modify: a table of two columns, pages with room for a few  *)
(* rows, values that grow within a page and out of it.                     *)
(***************************************************************************)
EXTENDS Modify, TLC

MCRows == {<<1, 2>>, <<3, 2>>}

MCUpdates == {[cols |-> <<1>>,    sizes |-> <<1>>],
              [cols |-> <<1>>,    sizes |-> <<3>>],
              [cols |-> <<1>>,    sizes |-> <<5>>],
              [cols |-> <<2, 1>>, sizes |-> <<2, 2>>]}

Symmetry == Permutations(Workers)
=============================================================================
