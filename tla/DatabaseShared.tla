--------------------------- MODULE DatabaseShared ---------------------------
(* The encodings of database/DatabaseShared.go and LimitedString.go. A file is *)
(* a sequence of atoms: bytes in 0 .. ByteValues - 1, and, above them, atoms   *)
(* that stand for a word of text each. A writer yields what it wrote and       *)
(* whether it failed; a reader starts at an offset and yields an outcome, a    *)
(* value and the offset behind it.                                             *)
EXTENDS Integers, Sequences, FiniteSets, SequencesExt, FiniteSetsExt, TLC

CONSTANTS
    ByteValues,     \* 2^8 in the code; the models take a narrower byte
    KeySize         \* bytes of a salt and of a hash (64 in the code)

ASSUME ByteAssumption == ByteValues \in Nat \ {0, 1} /\ KeySize \in Nat \ {0}

MaxUint == ByteValues ^ 8           \* numbers are stored modulo 2^64

Wrote(out) == [err |-> FALSE, out |-> out]
WriteError == [err |-> TRUE, out |-> <<>>]

(* A writer after another; an error ends the writing.                          *)
Then(first, second) ==
    IF first.err THEN first
    ELSE [err |-> second.err, out |-> first.out \o second.out]

Got(val, pos) == [st |-> "ok", val |-> val, pos |-> pos]
Failed(reason, pos) == [st |-> reason, val |-> 0, pos |-> pos]

(* reader.Read of a file: nothing left is the end of the file, less than asked *)
(* for is no error, and the rest of the buffer keeps its zeros.                *)
Read(file, pos, n) ==
    IF n > 0 /\ pos >= Len(file) THEN Failed("eof", pos)
    ELSE Got([i \in 1 .. n |-> IF pos + i <= Len(file) THEN file[pos + i] ELSE 0],
             Min({pos + n, Len(file)}))

CeilDivision(a, b) == (a + b - 1) \div b
AsByte(atom) == atom % ByteValues

-----------------------------------------------------------------------------
(* Numbers *)

LittleEndian(data, bytes) ==
    [i \in 1 .. bytes |-> (data \div ByteValues ^ (i - 1)) % ByteValues]
FromLittleEndian(bytes) ==
    FoldLeft(LAMBDA sum, b : sum * ByteValues + AsByte(b), 0, Reverse(bytes))

(* size is a number of bits.                                                   *)
ConvertUintXToBytesDB(data, size) ==
    Wrote(LittleEndian(data % MaxUint, CeilDivision(size, 8)))

ParseUintXDB(file, pos, size) ==
    LET read == Read(file, pos, CeilDivision(size, 8))
    IN IF read.st # "ok" THEN read
       ELSE Got(FromLittleEndian(SubSeq(read.val, 1, Min({8, Len(read.val)}))), read.pos)

(* The number of bytes of a value; 1 << 64 is 0, so i = 8 fits nothing.        *)
calculateByteSizeFromInt(value) ==
    LET fits == {i \in 1 .. 7 : value <= ByteValues ^ i}
    IN IF fits = {} THEN 255 ELSE Min(fits)

(* The size in bytes is handed on as the size in bits.                         *)
ConvertDynamicUintToBytesDB(data) ==
    LET size == IF data = 0 THEN 0 ELSE calculateByteSizeFromInt(data % MaxUint)
    IN IF size = 255 THEN WriteError
       ELSE IF size = 0 THEN Wrote(<<0>>)
       ELSE Then(Wrote(<<size>>), ConvertUintXToBytesDB(data, size))

ParseDynamicUintBytesDB(file, pos) ==
    LET size == Read(file, pos, 1)
    IN IF size.st # "ok" THEN size
       ELSE IF AsByte(size.val[1]) = 0 THEN Got(0, size.pos)
       ELSE ParseUintXDB(file, size.pos, AsByte(size.val[1]))

(* Fixed width, most significant byte first.                                   *)
ConvertFixedUintToBytesDB(data, bytes) ==
    Wrote(Reverse(LittleEndian(data, bytes)))
ParseFixedUintDB(file, pos, bytes) ==
    LET read == Read(file, pos, bytes)
    IN IF read.st # "ok" THEN read
       ELSE Got(FromLittleEndian(Reverse(read.val)), read.pos)

ConvertUint8ToBytesDB(data) == ConvertFixedUintToBytesDB(data, 1)
ParseUint8DB(file, pos) == ParseFixedUintDB(file, pos, 1)
ConvertUint16ToBytesDB(data) == ConvertFixedUintToBytesDB(data, 2)
ParseUint16DB(file, pos) == ParseFixedUintDB(file, pos, 2)

(* A time is its nanoseconds, as a signed number in an unsigned one.           *)
ConvertTimeToBytesDB(nanos) == ConvertFixedUintToBytesDB(nanos % MaxUint, 8)
ParseTimeDB(file, pos) ==
    LET read == ParseFixedUintDB(file, pos, 8)
    IN IF read.st = "ok" /\ read.val >= MaxUint \div 2
       THEN Got(read.val - MaxUint, read.pos) ELSE read

ConvertBoolToBytesDB(data) == Wrote(<<IF data THEN 2 ELSE 1>>)
ParseBoolDB(file, pos) ==
    LET read == Read(file, pos, 1)
    IN IF read.st # "ok" THEN read ELSE Got(read.val[1] = 2, read.pos)

-----------------------------------------------------------------------------
(* Text *)

ConvertStringToBytesDB(data) ==
    Then(ConvertDynamicUintToBytesDB(Len(data)), Wrote(data))

ParseStringDB(file, pos) ==
    LET length == ParseDynamicUintBytesDB(file, pos)
    IN IF length.st # "ok" THEN length ELSE Read(file, length.pos, length.val)

(* The salt has to have its size; the hash is written whatever its size.       *)
ConvertPasswordObjectToBytesDB(data) ==
    IF Len(data.salt) # KeySize THEN WriteError ELSE Wrote(data.salt \o data.hash)

ParsePasswordObjectDB(file, pos) ==
    LET salt == Read(file, pos, KeySize)
        hash == Read(file, salt.pos, KeySize)
    IN IF salt.st # "ok" THEN salt
       ELSE IF hash.st # "ok" THEN hash
       ELSE Got([salt |-> salt.val, hash |-> hash.val], hash.pos)

(* LimitedString: lengthStoreByteSize is a number of bytes, handed on as a     *)
(* number of bits.                                                             *)
MakeLimitedString(lengthStoreByteSize) ==
    [value |-> <<>>, lengthStoreByteSize |-> lengthStoreByteSize]

LimitedStringSet(limitedString, value) ==
    IF Len(value) >= ByteValues ^ limitedString.lengthStoreByteSize - 1
    THEN limitedString ELSE [limitedString EXCEPT !.value = value]

LimitedStringConvert(limitedString) ==
    Then(ConvertUintXToBytesDB(Len(limitedString.value), limitedString.lengthStoreByteSize),
         Wrote(limitedString.value))

LimitedStringParse(limitedString, file, pos) ==
    LET length == ParseUintXDB(file, pos, limitedString.lengthStoreByteSize)
        read == Read(file, length.pos, length.val)
    IN IF length.st # "ok" THEN length
       ELSE IF read.st # "ok" THEN read
       ELSE Got([limitedString EXCEPT !.value = read.val], read.pos)

-----------------------------------------------------------------------------
(* Containers, with the functions the caller passes for keys and values named  *)
(* by the codec they are.                                                      *)

Convert(codec, data) ==
    CASE codec = "uint"   -> ConvertDynamicUintToBytesDB(data)
      [] codec = "string" -> ConvertStringToBytesDB(data)
      [] codec = "time"   -> ConvertTimeToBytesDB(data)
      [] codec = "password" -> ConvertPasswordObjectToBytesDB(data)

Parse(codec, file, pos) ==
    CASE codec = "uint"   -> ParseDynamicUintBytesDB(file, pos)
      [] codec = "string" -> ParseStringDB(file, pos)
      [] codec = "time"   -> ParseTimeDB(file, pos)
      [] codec = "password" -> ParsePasswordObjectDB(file, pos)

ConvertSliceToBytesDB(data, codec) ==
    FoldLeft(LAMBDA written, v : Then(written, Convert(codec, v)),
             ConvertDynamicUintToBytesDB(Len(data)), data)

RECURSIVE ParseRows(_, _, _, _)
ParseRows(file, pos, codec, count) ==
    LET row == Parse(codec, file, pos)
        rest == ParseRows(file, row.pos, codec, count - 1)
    IN IF count = 0 THEN Got(<<>>, pos)
       ELSE IF row.st # "ok" THEN row
       ELSE IF rest.st # "ok" THEN rest
       ELSE Got(<<row.val>> \o rest.val, rest.pos)

ParseArrayDB(file, pos, codec) ==
    LET count == ParseDynamicUintBytesDB(file, pos)
    IN IF count.st # "ok" THEN count ELSE ParseRows(file, count.pos, codec, count.val)

(* A map is written row by row, in the order the iteration happens to take.    *)
ConvertMapToBytesDB(rows, keyCodec, valueCodec) ==
    FoldLeft(LAMBDA written, row :
                 Then(Then(written, Convert(keyCodec, row[1])), Convert(valueCodec, row[2])),
             ConvertDynamicUintToBytesDB(Len(rows)), rows)

RECURSIVE ParsePairs(_, _, _, _, _)
ParsePairs(file, pos, keyCodec, valueCodec, count) ==
    LET key == Parse(keyCodec, file, pos)
        value == Parse(valueCodec, file, key.pos)
        rest == ParsePairs(file, value.pos, keyCodec, valueCodec, count - 1)
    IN IF count = 0 THEN Got(<<>>, pos)
       ELSE IF key.st # "ok" THEN key
       ELSE IF value.st # "ok" THEN value
       ELSE IF rest.st # "ok" THEN rest
       ELSE Got(<<<<key.val, value.val>>>> \o rest.val, rest.pos)

ParseMapDB(file, pos, keyCodec, valueCodec) ==
    LET count == ParseDynamicUintBytesDB(file, pos)
    IN IF count.st # "ok" THEN count
       ELSE ParsePairs(file, count.pos, keyCodec, valueCodec, count.val)
=============================================================================
