---------------------------- MODULE MCIndexLeaf ----------------------------
(* A table with or without a primary key, a NOCASE index on names, a unique  *)
(* one whose keys are cut off, and one over both columns.                    *)
EXTENDS IndexLeaf

Part(column, nocase) == [column |-> column, nocase |-> nocase]
Index(components, unique, primary) ==
  [components |-> components, unique |-> unique, primary |-> primary]

MCIndexes ==
  [pk     |-> Index(<<Part("n", FALSE)>>, TRUE, TRUE),
   byName |-> Index(<<Part("t", TRUE)>>, FALSE, FALSE),
   names  |-> Index(<<Part("t", FALSE)>>, TRUE, FALSE),
   both   |-> Index(<<Part("t", FALSE), Part("n", FALSE)>>, FALSE, FALSE)]

\* Names that differ in case only, and names that differ behind the part that is
\* indexed only, beside numbers that are alike and that are not.
ab == <<2, 4>>
Ab == <<3, 4>>
Aba == <<3, 4, 2>>
Row(n, t) == [n |-> n, t |-> t]

MCRows == {Row(0, ab), Row(1, ab), Row(0, Ab), Row(1, Ab), Row(1, Aba), Row(Null, ab), Row(0, Null),
           Row(Null, Null)}
=============================================================================
