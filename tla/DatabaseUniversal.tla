-------------------------- MODULE DatabaseUniversal --------------------------
(* The self-describing format of database/DatabaseUniversal.go: a schema       *)
(* string, then the values of the schema in order.                             *)
(*                                                                             *)
(* Go types: [kind |-> "prim", name], [kind |-> "custom", name] (LimitedString *)
(* is the one of the library), [kind |-> "slice", elem], [kind |-> "map", key, *)
(* val] and [kind |-> "struct", fields], a sequence of names and types. Values *)
(* are numbers, Booleans, sequences, functions from keys and functions from    *)
(* field names. A schema string is a sequence of words; a name and its colon   *)
(* are one word. Reflection that panics is the outcome "panic".                *)
EXTENDS DatabaseShared

CONSTANT Names      \* the field names, and "" for a value that has none

Prim(name) == [kind |-> "prim", name |-> name]
SliceOf(elem) == [kind |-> "slice", elem |-> elem]
MapOf(key, val) == [kind |-> "map", key |-> key, val |-> val]
StructOf(fields) == [kind |-> "struct", fields |-> fields]
LimitedString == [kind |-> "custom", name |-> "LimitedString"]

DynamicUints == {"uint", "uint64", "uint32"}
DynamicInts == {"int", "int64", "int32"}
PrimNames == DynamicUints \union DynamicInts
                 \union {"bool", "uint8", "int8", "uint16", "int16", "string"}

NameWord(name) == <<name, ":">>
Word(w) == <<w>>

(* Words have atoms above the bytes, so that a file holds numbers only.        *)
Words == FoldSet(LAMBDA w, s : Append(s, w), <<>>,
                 {Word(w) : w \in PrimNames \union {"LimitedString"}
                                \union {"[]", "{", "}", "<", ">", "-"}}
                 \union {NameWord(n) : n \in Names})
Atoms(schema) ==
    [i \in 1 .. Len(schema) |->
        ByteValues + CHOOSE k \in 1 .. Len(Words) : Words[k] = schema[i]]
WordsOf(atoms) ==
    [i \in 1 .. Len(atoms) |->
        IF atoms[i] > ByteValues THEN Words[atoms[i] - ByteValues] ELSE Word("?")]

RECURSIVE ZeroOf(_)
ZeroOf(type) ==
    CASE type.kind = "slice" -> <<>>
      [] type.kind = "map" -> [k \in {} |-> 0]
      [] type.kind = "struct" ->
            [n \in {type.fields[i].name : i \in DOMAIN type.fields} |->
                ZeroOf((CHOOSE f \in ToSet(type.fields) : f.name = n).type)]
      [] type.kind = "custom" -> MakeLimitedString(0)
      [] type.kind = "prim" -> IF type.name = "string" THEN <<>>
                               ELSE IF type.name = "bool" THEN FALSE ELSE 0

-----------------------------------------------------------------------------
(* The schema of a type *)

buildDBSchemaField(type) ==
    [name |-> "", isSlice |-> type.kind = "slice",
     isMap |-> (IF type.kind = "slice" THEN type.elem ELSE type).kind = "map",
     isCustomDBType |-> FALSE, isMapParam |-> FALSE, isStruct |-> FALSE,
     valueType |-> IF type.kind = "slice" THEN type.elem ELSE type,
     hasFields |-> FALSE, fields |-> <<>>]

RECURSIVE BuildDBSchema(_)
BuildDBSchema(type) ==
    LET schema == buildDBSchemaField(type)
        Param(t) == [BuildDBSchema(t) EXCEPT !.isMapParam = TRUE]
        Member(f) == [BuildDBSchema(f.type) EXCEPT !.name = f.name]
        fields == schema.valueType.fields
    IN CASE schema.valueType.kind = "custom" -> [schema EXCEPT !.isCustomDBType = TRUE]
         [] schema.valueType.kind = "struct" ->
                [schema EXCEPT !.isStruct = TRUE, !.hasFields = TRUE,
                    !.fields = [i \in DOMAIN fields |-> Member(fields[i])]]
         [] schema.isMap ->
                [schema EXCEPT !.hasFields = TRUE,
                    !.fields = <<Param(schema.valueType.key), Param(schema.valueType.val)>>]
         [] OTHER -> schema

(* Whether building a schema registered LimitedString.                         *)
RECURSIVE Registers(_)
Registers(schema) ==
    schema.isCustomDBType \/ \E i \in DOMAIN schema.fields : Registers(schema.fields[i])

(* reflect.Type.String of the types that are written without their fields.     *)
RECURSIVE TypeString(_)
TypeString(type) ==
    IF type.kind = "slice" THEN <<Word("[]")>> \o TypeString(type.elem)
    ELSE IF type.kind \in {"prim", "custom"} THEN <<Word(type.name)>> ELSE <<Word("other")>>

RECURSIVE BuildDBSchemaString(_)
BuildDBSchemaString(field) ==
    LET Slice(f) == IF f.isSlice THEN <<Word("[]")>> ELSE <<>>
        Name(f) == IF f.isMapParam THEN <<>> ELSE <<NameWord(f.name)>>
        Value(f) ==
            IF f.valueType.kind = "struct" THEN BuildDBSchemaString(f)
            ELSE IF f.isMap
            THEN Slice(f) \o <<Word("<")>> \o BuildDBSchemaString(f.fields[1])
                          \o <<Word("-")>> \o BuildDBSchemaString(f.fields[2]) \o <<Word(">")>>
            ELSE Slice(f) \o TypeString(f.valueType)
        Member(text, f) ==
            text \o (IF text = <<>> THEN <<>> ELSE <<Word("-")>>) \o Name(f) \o Value(f)
        inner == IF field.hasFields THEN FoldLeft(Member, <<>>, field.fields)
                 ELSE Name(field) \o TypeString(field.valueType)
    IN Slice(field) \o (IF field.isStruct THEN <<Word("{")>> \o inner \o <<Word("}")>>
                        ELSE inner)

-----------------------------------------------------------------------------
(* Writing *)

convertAnyValueToBytesDBValue(kind, v) ==
    CASE kind = "bool" -> ConvertBoolToBytesDB(v)
      [] kind \in DynamicUints \union DynamicInts -> ConvertDynamicUintToBytesDB(v % MaxUint)
      [] kind \in {"uint8", "int8"} -> ConvertUint8ToBytesDB(v)
      [] kind \in {"uint16", "int16"} -> ConvertUint16ToBytesDB(v)
      [] kind = "string" -> ConvertStringToBytesDB(v)
      [] OTHER -> WriteError

KindOf(type) == IF type.kind = "prim" THEN type.name ELSE type.kind

(* The rows of a map are written in whatever order MapKeys returns; the reader *)
(* does not depend on it.                                                      *)
RECURSIVE convertFieldValueToBytesDB(_, _)
convertFieldValueToBytesDB(schema, v) ==
    LET element == [schema EXCEPT !.isSlice = FALSE]
        All(written, values, f) ==
            FoldLeft(LAMBDA w, x : Then(w, convertFieldValueToBytesDB(f, x)), written, values)
        Row(w, k) == Then(All(w, <<k>>, schema.fields[1]),
                          All(Wrote(<<>>), <<v[k]>>, schema.fields[2]))
        Member(w, f) == Then(w, convertFieldValueToBytesDB(f, v[f.name]))
    IN CASE schema.isSlice -> All(ConvertDynamicUintToBytesDB(Len(v)), v, element)
         [] ~schema.isSlice /\ schema.isMap ->
                FoldLeft(Row, ConvertDynamicUintToBytesDB(Cardinality(DOMAIN v)),
                         SetToSeq(DOMAIN v))
         [] ~schema.isSlice /\ schema.isCustomDBType -> LimitedStringConvert(v)
         [] ~schema.isSlice /\ ~schema.isMap /\ ~schema.hasFields /\ ~schema.isCustomDBType ->
                convertAnyValueToBytesDBValue(KindOf(schema.valueType), v)
         [] OTHER -> FoldLeft(Member, Wrote(<<>>), schema.fields)

(* A basic value is written twice: on its own, and with its schema; the word   *)
(* *EOF* that ends the file is one atom here.                                  *)
ConvertAnyToBytesDB(type, v) ==
    LET basic == IF type.kind = "prim" THEN convertAnyValueToBytesDBValue(type.name, v)
                 ELSE Wrote(<<>>)
        schema == BuildDBSchema(type)
    IN Then(Then(Then(basic, ConvertStringToBytesDB(Atoms(BuildDBSchemaString(schema)))),
                 convertFieldValueToBytesDB(schema, v)),
            Wrote(<<ByteValues>>))
=============================================================================
