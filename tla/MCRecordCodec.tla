--------------------------- MODULE MCRecordCodec ---------------------------
(* Bytes of two bits, so two columns fill a byte of null flags and three    *)
(* need a second one.  Every type of column is met alone or beside another. *)
EXTENDS RecordCodec

Col(base) == [base |-> base, size |-> 1]
Wide(base) == [base |-> base, size |-> 2]

MCFormats ==
  {<<Col("Int8")>>, <<Col("Uint8"), Col("Int32")>>, <<Col("Uint32")>>, <<Col("Single"), Col("Logical")>>,
   <<Col("Double")>>, <<Col("Currency")>>, <<Col("Varchar"), Col("Int8")>>, <<Wide("WideVarchar")>>,
   <<Col("Date")>>, <<Col("Time")>>, <<Col("DateTime")>>, <<Col("TimeStamp")>>, <<Col("Bytes")>>,
   <<Col("VarBytes")>>, <<Col("Extended")>>, <<Col("Blob")>>}

MCNewColumns == {Col("Int8"), Col("Varchar")}

Whole(ns) == {<<"int", n>> : n \in ns}
Float(ns) == {<<"float", n>> : n \in ns}
Text(ss) == {<<"text", x>> : x \in ss}
Bool(bs) == {<<"bool", x>> : x \in bs}
Times == {<<"time", 1, 0, TRUE>>, <<"time", 1, 4, TRUE>>, <<"time", -8, 0, TRUE>>, <<"time", 7, 2, TRUE>>,
          <<"time", 8, 0, TRUE>>, <<"time", 2, 0, FALSE>>}
Stamps == {ZeroStamp, <<"stamp", 1, 1, 1, 1, TRUE>>, <<"stamp", 3, 1, 2, 0, TRUE>>,
           <<"stamp", 2, 2, 1, 1, FALSE>>, <<"stamp", 4, 1, 1, 1, TRUE>>}

\* Values at the bounds of each type, one outside them and one of another type.
MCValues(c) ==
  {Null} \cup
  CASE c.base = "Int8" -> Whole({-3, -2, 1, 2})
    [] c.base = "Uint8" -> Whole({-1, 3, 4})
    [] c.base = "Int32" -> Whole({-9, -8, -1, 7, 8})
    [] c.base = "Uint32" -> Whole({-1, 15, 16}) \cup Bool({TRUE})
    [] c.base = "Single" -> Whole({4}) \cup Float({0, 5, 12})
    [] c.base = "Double" -> Whole({4, 16, -1}) \cup Float({0, 5}) \cup Text({<<1>>})
    [] c.base = "Currency" -> Whole({4, 16, 20}) \cup Float({0, 5}) \cup Text({<<1>>})
    [] c.base = "Logical" -> Bool({TRUE, FALSE}) \cup Whole({1})
    [] c.base = "Varchar" -> Text({<<>>, <<1>>, <<3>>, <<4>>, <<0>>, <<1, 2>>})
    [] c.base = "WideVarchar" -> Text({<<>>, <<1>>, <<4>>, <<0>>, <<15>>, <<14, 15>>, <<4, 1>>})
    [] c.base \in {"Date", "Time", "DateTime"} -> Times
    [] c.base = "TimeStamp" -> Stamps
    [] c.base \in {"Bytes", "VarBytes", "Blob"} -> {<<"bytes", x>> : x \in {<<>>, <<2>>, <<2, 1>>}}
    [] c.base = "Extended" -> Float({4})

MCMonthDays == <<2, 1>>
=============================================================================
