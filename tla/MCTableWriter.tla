--------------------------- MODULE MCTableWriter ---------------------------
(* TableWriter as it stands; the configurations beside it differ in their   *)
(* bounds and in what they ask.                                             *)
EXTENDS TableWriter
=============================================================================
