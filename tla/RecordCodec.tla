---------------------------- MODULE RecordCodec ----------------------------
(***************************************************************************)
(* The bytes of one record: null flags, then one field per column          *)
(* (encode.go; the layout and the typed accessors of reader.go), as rows   *)
(* are inserted, single columns updated and the layout changed under them  *)
(* (ddl_alter.go).  The record may first have been written by the engine,  *)
(* which leaves stale bytes behind the end of a text.                      *)
(*                                                                         *)
(* A byte has ByteBits bits, and every width is scaled down: the four      *)
(* bytes of an Int32, a Date or a Time are two, the eight of a Double are  *)
(* two, of which a Single keeps the first.  A value is a pair or a tuple   *)
(* whose head names its Go type.                                           *)
(***************************************************************************)
EXTENDS Integers, FiniteSets, Sequences, SequencesExt

CONSTANTS
  ByteBits,    \* 8 in the code
  Formats,     \* the columns a table may start with
  NewColumns,  \* the columns ADD COLUMN may add
  Values(_),   \* what a caller may pass for a column
  EngineBytes, \* bytes the engine may have left in a field
  MsPerDay, MonthDays, Hours, \* a day, the months of a year and a day's hours
  MaxColumns, MaxCalls        \* bounds: columns of a table, calls

ASSUME RecordCodecAssumption ==
  /\ ByteBits \in Nat \ {0}
  /\ MsPerDay \in Nat \ {0}
  /\ MaxColumns \in Nat \ {0}
  /\ MaxCalls \in Nat

VARIABLES
  format, \* the table's columns, [base, size]
  record, \* the bytes of its record
  given,  \* per column, the value it was given, or had in the engine's file
  ours,   \* columns this package has written
  calls

vars == <<format, record, given, ours, calls>>

-----------------------------------------------------------------------------
(* Bytes.                                                                  *)

Base == 2^ByteBits
Byte == 0..(Base - 1)
Zeros(n) == [i \in 1..n |-> 0]
LowHigh(n) == <<n % Base, (n \div Base) % Base>>
Unsigned(raw) == IF Len(raw) = 1 THEN raw[1] ELSE raw[1] + Base * raw[2]

\* Mutant: no sign is extended.
UnsignedInteger(raw, signed) == Unsigned(raw)

\* decodeIntegerLE
Integer(raw, signed) ==
  LET range == Base^Len(raw)
  IN  IF signed /\ 2 * Unsigned(raw) >= range THEN Unsigned(raw) - range ELSE Unsigned(raw)

\* Mutant: what the field held before is kept behind the value.
FilledOver(old, raw) == raw \o SubSeq(old, Len(raw) + 1, Len(old))

\* clear and copy
Filled(old, raw) == raw \o Zeros(Len(old) - Len(raw))

-----------------------------------------------------------------------------
(* Layout.                                                                 *)

ReferenceSize == 3

\* fixedFieldStoreSize, fieldStoreSize
StoreSize(c) ==
  CASE c.base \in {"Int8", "Uint8", "Single"} -> 1
    [] c.base \in {"Int32", "Uint32", "Double", "Currency", "Logical", "Date", "Time"} -> 2
    [] c.base \in {"DateTime", "TimeStamp"} -> 4
    [] c.base = "Extended" -> 3
    [] c.base = "Blob" -> ReferenceSize
    [] c.base \in {"Varchar", "Bytes", "VarBytes"} -> c.size + 1
    [] c.base = "WideVarchar" -> (c.size + 1) * 2

FlagBytes(cols) == (Len(cols) + ByteBits - 1) \div ByteBits
Offset(cols, col) == FoldLeft(LAMBDA acc, c : acc + StoreSize(c), FlagBytes(cols), SubSeq(cols, 1, col - 1))
RecordSize(cols) == Offset(cols, Len(cols) + 1)

Field(cols, rec, col) == SubSeq(rec, Offset(cols, col) + 1, Offset(cols, col + 1))

FlagByte(col) == 1 + (col - 1) \div ByteBits
FlagBit(col) == 2^((col - 1) % ByteBits)
HasBit(byte, bit) == (byte \div bit) % 2 = 1

IsNull(rec, col) == HasBit(rec[FlagByte(col)], FlagBit(col))

\* setNullFlag
SetFlag(rec, col, null) ==
  [rec EXCEPT ![FlagByte(col)] =
     IF null = HasBit(@, FlagBit(col)) THEN @ ELSE IF null THEN @ + FlagBit(col) ELSE @ - FlagBit(col)]

SpareColumns(cols) == (Len(cols) + 1)..(FlagBytes(cols) * ByteBits)

\* Mutant: the bits are left as they are.
SpareFlagsLeft(cols, rec) == rec

\* setSpareNullFlags
SpareFlagsSet(cols, rec) == FoldLeft(LAMBDA r, col : SetFlag(r, col, TRUE), rec, SetToSeq(SpareColumns(cols)))

\* validateLayout
LayoutAccepted(cols, rec) == \A col \in SpareColumns(cols) : IsNull(rec, col)

-----------------------------------------------------------------------------
(* Values into fields.  An encoder returns the bytes of the whole field or *)
(* Refused.                                                                *)

Null == <<"nil">>
Refused == <<>>
Is(v, type) == v[1] = type

\* integerBounds
InBounds(n, width, signed) ==
  IF signed THEN 2 * n >= -(Base^width) /\ 2 * n < Base^width ELSE n >= 0 /\ n < Base^width

IntegerFits(n, width, signed) == InBounds(n, width, signed)

LittleEndian(n, width) == SubSeq(LowHigh(n), 1, width)

EncodeInteger(old, v, width, signed) ==
  IF Is(v, "int") /\ IntegerFits(v[2], width, signed) THEN Filled(old, LittleEndian(v[2], width)) ELSE Refused

\* A double is one of Base^2 numbers; a Single holds those that end in zeros.
Doubles == 0..(Base^2 - 1)
IsSingle(x) == x % Base = 0

\* floatValue: integers are taken if they survive.
IsNumber(v) == (Is(v, "float") \/ Is(v, "int")) /\ v[2] \in Doubles

EncodeSingle(old, v) == IF IsNumber(v) /\ IsSingle(v[2]) THEN <<v[2] \div Base>> ELSE Refused
EncodeDouble(old, v) == IF IsNumber(v) THEN LowHigh(v[2]) ELSE Refused

\* float64(n)
NearestDouble(n) == IF n \in Doubles THEN n ELSE IF n < 0 THEN 0 ELSE Base^2 - 1

\* encodeCurrency: an integer that no int64 holds becomes zero.
Int64Max == Base^2 + 1
Amount(v) == IF v[2] <= Int64Max THEN NearestDouble(v[2]) ELSE 0
EncodeCurrency(old, v) == IF Is(v, "float") \/ Is(v, "int") THEN LowHigh(Amount(v)) ELSE Refused

EncodeBool(old, v) == IF Is(v, "bool") THEN Filled(old, IF v[2] THEN <<1>> ELSE <<0>>) ELSE Refused

FitsWithTerminator(units, room) == Len(units) + 1 <= room

\* Windows-1252 has no byte for some characters.
EncodeANSI(old, v) ==
  IF Is(v, "text") /\ ToSet(v[2]) \subseteq Byte \ {0} /\ FitsWithTerminator(v[2], Len(old))
    THEN Filled(old, v[2]) ELSE Refused

\* A character outside the BMP is a high and a low surrogate.
HighSurrogate == Base^2 - 2
LowSurrogate == Base^2 - 1
Replacement == Base^2 - 3
Paired(units, i) ==
  \/ units[i] \notin {HighSurrogate, LowSurrogate}
  \/ units[i] = HighSurrogate /\ i < Len(units) /\ units[i + 1] = LowSurrogate
  \/ units[i] = LowSurrogate /\ i > 1 /\ units[i - 1] = HighSurrogate

EncodeUTF16(old, v) ==
  IF /\ Is(v, "text")
     /\ ToSet(v[2]) \subseteq 1..(Base^2 - 1)
     /\ \A i \in DOMAIN v[2] : Paired(v[2], i)
     /\ FitsWithTerminator(v[2], Len(old) \div 2)
    THEN Filled(old, FlattenSeq([i \in DOMAIN v[2] |-> LowHigh(v[2][i])])) ELSE Refused

\* A time is <<"time", days, milliseconds, whether that is all of it>>.
Time(days, ms) == <<"time", days + ms \div MsPerDay, ms % MsPerDay, TRUE>>
DateFits(v) == Is(v, "time") /\ v[4] /\ InBounds(v[2], 2, TRUE)

EncodeDate(old, v) == IF DateFits(v) /\ v[3] = 0 THEN LowHigh(v[2]) ELSE Refused
EncodeTime(old, v) == IF DateFits(v) /\ v[2] = 1 THEN LowHigh(v[3]) ELSE Refused
EncodeDateTime(old, v) == IF DateFits(v) THEN LowHigh(v[2]) \o LowHigh(v[3]) ELSE Refused

\* What a TimeStamp sees of a time: year, month, day and hour, and whether
\* that is all of it.
ZeroStamp == <<"stamp", 1, 1, 1, 0, TRUE>>
EncodeTimeStamp(old, v) ==
  IF v = ZeroStamp THEN Zeros(4)
  ELSE IF Is(v, "stamp") /\ v[6] /\ v[2] \in 1..(Base - 1) THEN SubSeq(v, 2, 5)
  ELSE Refused

EncodeBytes(old, v, size) == IF Is(v, "bytes") /\ Len(v[2]) <= size THEN Filled(old, v[2]) ELSE Refused

\* integerStorage: width and sign of the columns that hold plain integers.
IntegerStorage ==
  [base \in {"Int8", "Uint8", "Int32", "Uint32"} |->
    [width |-> IF base \in {"Int8", "Uint8"} THEN 1 ELSE 2, signed |-> base \in {"Int8", "Int32"}]]

\* encodeField
Encoded(c, old, v) ==
  CASE c.base \in DOMAIN IntegerStorage ->
         EncodeInteger(old, v, IntegerStorage[c.base].width, IntegerStorage[c.base].signed)
    [] c.base = "Single" -> EncodeSingle(old, v)
    [] c.base = "Double" -> EncodeDouble(old, v)
    [] c.base = "Currency" -> EncodeCurrency(old, v)
    [] c.base = "Logical" -> EncodeBool(old, v)
    [] c.base = "Varchar" -> EncodeANSI(old, v)
    [] c.base = "WideVarchar" -> EncodeUTF16(old, v)
    [] c.base = "Date" -> EncodeDate(old, v)
    [] c.base = "Time" -> EncodeTime(old, v)
    [] c.base = "DateTime" -> EncodeDateTime(old, v)
    [] c.base = "TimeStamp" -> EncodeTimeStamp(old, v)
    [] c.base = "Bytes" -> EncodeBytes(old, v, c.size)
    [] c.base \in {"Extended", "VarBytes", "Blob"} -> Refused

Replaced(cols, rec, col, raw) ==
  SubSeq(rec, 1, Offset(cols, col)) \o raw \o SubSeq(rec, Offset(cols, col + 1) + 1, Len(rec))

\* encodeInto
EncodedInto(cols, rec, col, v) ==
  LET old == Field(cols, rec, col)
      raw == IF v = Null THEN Zeros(Len(old)) ELSE Encoded(cols[col], old, v)
  IN  IF raw = Refused THEN Refused ELSE SetFlag(Replaced(cols, rec, col, raw), col, v = Null)

\* encodeRecord
EncodedRecord(cols, row) ==
  FoldLeft(LAMBDA rec, col : IF rec = Refused THEN Refused ELSE EncodedInto(cols, rec, col, row[col]),
           SpareFlagsSet(cols, Zeros(RecordSize(cols))), [i \in DOMAIN cols |-> i])

-----------------------------------------------------------------------------
(* Fields into values.                                                     *)

DecodeANSI(raw) ==
  LET ends == {i \in DOMAIN raw : raw[i] = 0}
      end == IF ends = {} THEN Len(raw) ELSE (CHOOSE i \in ends : \A j \in ends : i <= j) - 1
  IN  <<"text", SubSeq(raw, 1, end)>>

\* Mutant: a zero byte ends the text, though it may be half of a unit.
UnitEndsAtAnyZero(low, high) == low = 0 \/ high = 0

UnitEnds(low, high) == low + high = 0

DecodeUTF16(raw) ==
  LET n == Len(raw) \div 2
      ends == {i \in 1..n : UnitEnds(raw[2 * i - 1], raw[2 * i])}
      end == IF ends = {} THEN n ELSE (CHOOSE i \in ends : \A j \in ends : i <= j) - 1
      units == [i \in 1..end |-> raw[2 * i - 1] + Base * raw[2 * i]]
  IN  <<"text", [i \in 1..end |-> IF Paired(units, i) THEN units[i] ELSE Replacement]>>

\* timeStampToTime: what is no date is the zero time.
DecodeTimeStamp(raw) ==
  IF raw[1] >= 1 /\ raw[2] \in DOMAIN MonthDays /\ raw[3] \in 1..MonthDays[raw[2]] /\ raw[4] \in Hours
    THEN <<"stamp", raw[1], raw[2], raw[3], raw[4], TRUE>> ELSE ZeroStamp

\* Record.Int64, by intValue
IntValue(c, raw) == Integer(SubSeq(raw, 1, IntegerStorage[c.base].width), IntegerStorage[c.base].signed)

\* Record.Int, Int16, Uint16 and Uint32: zero for what does not fit.
Narrowed(n, width, signed) == IF InBounds(n, width, signed) THEN n ELSE 0

\* Record.Float, of the types that can be written again
FloatValue(c, raw) == IF c.base = "Single" THEN Base * raw[1] ELSE Unsigned(raw)

\* Record.Bool
BoolValue(raw) == Unsigned(raw) # 0

\* Record.String
TextValue(c, raw) == IF c.base = "Varchar" THEN DecodeANSI(raw) ELSE DecodeUTF16(raw)

\* Record.Time
TimeValue(c, raw) ==
  CASE c.base = "TimeStamp" -> DecodeTimeStamp(raw)
    [] c.base = "Date" -> Time(Integer(raw, TRUE), 0)
    [] c.base = "Time" -> Time(1, Integer(raw, TRUE))
    [] c.base = "DateTime" -> Time(Integer(SubSeq(raw, 1, 2), TRUE), Integer(SubSeq(raw, 3, 4), TRUE))

\* decodeColumnValue; what cannot be written is read as its bytes here.
DecodedField(c, raw) ==
  CASE c.base \in DOMAIN IntegerStorage -> <<"int", IntValue(c, raw)>>
    [] c.base \in {"Single", "Double", "Currency"} -> <<"float", FloatValue(c, raw)>>
    [] c.base = "Logical" -> <<"bool", BoolValue(raw)>>
    [] c.base \in {"Varchar", "WideVarchar"} -> TextValue(c, raw)
    [] c.base \in {"Date", "Time", "DateTime", "TimeStamp"} -> TimeValue(c, raw)
    [] c.base \in {"Bytes", "VarBytes", "Blob", "Extended"} -> <<"bytes", raw>>

Decoded(cols, rec, col) == IF IsNull(rec, col) THEN Null ELSE DecodedField(cols[col], Field(cols, rec, col))

\* decodeRowValues; what cannot be written is not decoded either.
Unwritable == {"Extended", "VarBytes", "Blob"}
CanBeDecoded(cols, rec) == \A col \in DOMAIN cols : IsNull(rec, col) \/ cols[col].base \notin Unwritable
RowOf(cols, rec) == [col \in DOMAIN cols |-> Decoded(cols, rec, col)]

-----------------------------------------------------------------------------
TypeOK ==
  /\ Len(format) \in 1..MaxColumns
  /\ record \in [1..RecordSize(format) -> Byte]
  /\ DOMAIN given = DOMAIN format
  /\ ours \subseteq DOMAIN format
  /\ calls \in 0..MaxCalls

\* A record of the engine's: a NULL field is zero, any other may hold what
\* was in the engine's buffer.
EngineRecords(cols) ==
  LET Flags(nulls) == [i \in 1..FlagBytes(cols) |->
        FoldLeft(LAMBDA b, col : b + FlagBit(col), 0,
                 SetToSeq({col \in nulls \cup SpareColumns(cols) : FlagByte(col) = i}))]
      fields(nulls) == {f \in [1..(RecordSize(cols) - FlagBytes(cols)) -> EngineBytes] :
        \A col \in nulls : \A i \in (Offset(cols, col) + 1)..Offset(cols, col + 1) : f[i - FlagBytes(cols)] = 0}
  IN  UNION {{Flags(nulls) \o f : f \in fields(nulls)} : nulls \in SUBSET DOMAIN cols}

Init ==
  /\ format \in Formats
  /\ record \in EngineRecords(format)
  /\ given = RowOf(format, record)
  /\ ours = {}
  /\ calls = 0

MayCall == calls < MaxCalls /\ calls' = calls + 1

\* TableWriter.Insert and Update, as far as the bytes of the record go.
WriteRow(row) ==
  /\ MayCall
  /\ EncodedRecord(format, row) # Refused
  /\ record' = EncodedRecord(format, row)
  /\ given' = row
  /\ ours' = DOMAIN format
  /\ UNCHANGED format

\* TableWriter.UpdateColumn
WriteColumn(col, v) ==
  /\ MayCall
  /\ EncodedInto(format, record, col, v) # Refused
  /\ record' = EncodedInto(format, record, col, v)
  /\ given' = [given EXCEPT ![col] = v]
  /\ ours' = ours \cup {col}
  /\ UNCHANGED format

\* rewriteDataPage, for one record
Rewritten(cols, row) ==
  /\ CanBeDecoded(format, record)
  /\ EncodedRecord(cols, row) # Refused
  /\ record' = EncodedRecord(cols, row)
  /\ format' = cols
  /\ ours' = DOMAIN cols

AddColumn(c) ==
  /\ MayCall
  /\ Len(format) < MaxColumns
  /\ Rewritten(Append(format, c), Append(RowOf(format, record), Null))
  /\ given' = Append(given, Null)

DropColumn(col) ==
  /\ MayCall
  /\ Len(format) > 1
  /\ Rewritten(RemoveAt(format, col), RemoveAt(RowOf(format, record), col))
  /\ given' = RemoveAt(given, col)

Rows(cols) ==
  FoldLeft(LAMBDA rows, c : {Append(row, v) : row \in rows, v \in Values(c)}, {<<>>}, cols)

Next ==
  \/ \E row \in Rows(format) : WriteRow(row)
  \/ \E col \in DOMAIN format : \E v \in Values(format[col]) : WriteColumn(col, v)
  \/ \E c \in NewColumns : AddColumn(c)
  \/ \E col \in DOMAIN format : DropColumn(col)

Spec == Init /\ [][Next]_vars

-----------------------------------------------------------------------------
(* What must hold.                                                         *)

\* How a value that was given is read: numbers as floats, an amount of Currency as
\* the double nearest to it, bytes padded.
ReadsAs(c, v) ==
  IF v = Null THEN Null
  ELSE IF c.base = "Currency" THEN <<"float", NearestDouble(v[2])>>
  ELSE IF c.base \in {"Single", "Double"} THEN <<"float", v[2]>>
  ELSE IF c.base = "Bytes" THEN <<"bytes", Filled(Zeros(c.size + 1), v[2])>>
  ELSE v

\* The amounts no int64 holds: encodeCurrency stores zero for them.
LostAmount(c, v) == c.base = "Currency" /\ v # Null /\ v[2] > Int64Max

ReadByItsOwnWidth(c, v) ==
  c.base \in DOMAIN IntegerStorage /\ v # Null =>
    Narrowed(v[2], IntegerStorage[c.base].width, IntegerStorage[c.base].signed) = v[2]

(* Every column reads as the value it was last given, or as it read when   *)
(* the engine wrote it, whatever was written beside it, whatever the       *)
(* buffer held before and however the columns moved: no value is cut or    *)
(* read together with stale bytes, only an integer amount of Currency is   *)
(* rounded, and the accessor of a column's own width loses nothing.  Left  *)
(* out are amounts above MaxInt64, which the code loses (LostAmount).      *)
RowReadsBack ==
  \A col \in DOMAIN format :
    LET read == Decoded(format, record, col)
    IN  /\ LostAmount(format[col], given[col]) \/ read = ReadsAs(format[col], given[col])
        /\ ReadByItsOwnWidth(format[col], read)

(* Types hold, and the record would be accepted when the table is opened   *)
(* again, under the number of columns it has now (validateLayout).         *)
RecordsOpenAgain == TypeOK /\ LayoutAccepted(format, record)

(* ALTER TABLE changes no value of a row this package has written: what    *)
(* the accessors read is accepted by the encoders again and gives the same *)
(* bytes.  A row with a value in a Bytes column is refused instead, since  *)
(* the field is a byte longer than the column, and is read in full.        *)
NoBytes == \A col \in DOMAIN format : format[col].base = "Bytes" => IsNull(record, col)
OwnRowsCanBeRewritten ==
  ours = DOMAIN format =>
    /\ CanBeDecoded(format, record)
    /\ EncodedRecord(format, RowOf(format, record)) = IF NoBytes THEN record ELSE Refused
=============================================================================
