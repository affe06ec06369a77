--------------------------- MODULE MCSchemaStream ---------------------------
(* Two tables of two or three columns.  A plain table and two columns with a *)
(* primary key fit on a page, the latter without any room left; a compound   *)
(* key with a bound needs a second page, as do most tables that get more     *)
(* than one further index or column.                                         *)
EXTENDS SchemaStream, TLC

CONSTANTS a, b, c, i, j, t, u

Key(kind, columns) == [kind |-> kind, index |-> i, columns |-> columns]

MCColumnLists == {<<a, b>>, <<b, a, c>>}

MCConstraintLists ==
  {<<>>,
   <<[kind |-> NotNull, columns |-> <<b>>], Key(Primary, <<a>>)>>,
   <<Key(Unique, <<a, b>>), [kind |-> Check, columns |-> <<a>>, min |-> 5, max |-> Absent]>>}

\* The tables are alike.
Symmetry == Permutations(Tables)
=============================================================================
