---------------------------- MODULE MCAlterTable ----------------------------
(* A numbered primary key behind another column; a numbered NOT NULL column  *)
(* between a plain one and one with a CHECK; a table that owns BLOB pages;   *)
(* and one whose CHECK bounds a string, which no writer enforces.            *)
EXTENDS AlterTable

Column(name, id, kind, increment, max) ==
  [name |-> name, id |-> id, kind |-> kind, increment |-> increment, maxValue |-> max]
Table(cols, key, constraints, blobs) ==
  [columns |-> cols, key |-> key, constraints |-> constraints, blobs |-> blobs]

MCFieldSize == [integer |-> 4, autoinc |-> 4, string |-> 2, logical |-> 2]

MCStarts ==
  {Table(<<Column("A", 1, "string", 1, 0), Column("Id", 2, "autoinc", 1, MaxInt)>>, "Id", {}, FALSE),
   Table(<<Column("B", 1, "string", 1, 0), Column("Id", 2, "autoinc", 2, MaxInt - 1),
           Column("A", 3, "integer", 1, 0)>>, "",
         {[kind |-> "notnull", column |-> "Id", min |-> Null, max |-> Null],
          [kind |-> "check", column |-> "A", min |-> 1, max |-> Null]}, FALSE),
   Table(<<Column("A", 1, "string", 1, 0)>>, "", {}, TRUE),
   Table(<<Column("A", 1, "string", 1, 0)>>, "",
         {[kind |-> "check", column |-> "A", min |-> 1, max |-> 2]}, FALSE)}
=============================================================================
