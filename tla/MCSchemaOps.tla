---------------------------- MODULE MCSchemaOps ----------------------------
(* SchemaOps as it stands; names of tables are interchangeable.  The         *)
(* configurations beside it differ in their bounds and in what they ask.     *)
EXTENDS SchemaOps, TLC

Symmetry == Permutations(Names)
=============================================================================
