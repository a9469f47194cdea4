---------------------------- MODULE MCDictionary ----------------------------
(***************************************************************************)
(* Instances of Dictionary: an entry for every statement.                  *)
(***************************************************************************)
EXTENDS Dictionary, TLC

MCEntries == 1 .. MaxStatements

Symmetry == Permutations(Sessions) \cup Permutations(Names)
=============================================================================
