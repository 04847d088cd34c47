----------------------------- MODULE ObjectFile -----------------------------
(* A program that keeps one object in a file with ConvertAnyToBytesDB and      *)
(* reads it back, possibly a later version of the program whose type differs.  *)
EXTENDS DatabaseReader

CONSTANTS
    Objects,        \* what is written: types and values
    Targets,        \* what is read into: types and prepared values
    Environments    \* what the reading process knows

VARIABLES
    objectFile,     \* the atoms of the file
    written,        \* the object the file was written from, or NoObject
    reading         \* the last read: its target and its outcome, or NoReading

objectVars == <<objectFile, written, reading>>

NoObject == [type |-> [kind |-> "none"], val |-> 0]
NoReading == [how |-> "none"]

ObjectInit ==
    /\ objectFile = <<>>
    /\ written = NoObject
    /\ reading = NoReading

WriteObject(object) ==
    LET result == ConvertAnyToBytesDB(object.type, object.val)
    IN /\ objectFile' = result.out
       /\ written' = IF result.err THEN NoObject ELSE object
       /\ reading' = NoReading

ReadObject(target, env) ==
    /\ reading' = [how |-> "object", target |-> target, env |-> env,
                   result |-> ParseAnyToObjectDB(objectFile, 0, target.type, target.val, env)]
    /\ UNCHANGED <<objectFile, written>>

ReadBasic(type, env) ==
    /\ reading' = [how |-> "basic", target |-> [type |-> type, val |-> ZeroOf(type)],
                   env |-> env, result |-> ParseAnyDB(objectFile, type, env)]
    /\ UNCHANGED <<objectFile, written>>

ReadValueMap(env) ==
    /\ reading' = [how |-> "map", target |-> NoObject, env |-> env,
                   result |-> ParseAnyToValueMapDB(objectFile, env)]
    /\ UNCHANGED <<objectFile, written>>

(* The writing process and the reading one need not be the same: a file is     *)
(* written again, and read as often as one likes.                              *)
ObjectNext ==
    \/ \E object \in Objects : WriteObject(object)
    \/ /\ written # NoObject /\ reading = NoReading
       /\ \E env \in Environments :
            \/ \E target \in Targets : ReadObject(target, env)
            \/ \E object \in Objects : ReadBasic(object.type, env)
            \/ ReadValueMap(env)

-----------------------------------------------------------------------------
(* Properties *)

(* What the format can hold: counts, lengths and dynamic numbers that fit one  *)
(* byte, types whose reader does not panic, and no map directly in a map.      *)
RECURSIVE Holds(_, _)
Holds(type, v) ==
    CASE type.kind = "prim" ->
            /\ type.name \notin {"int8", "int32", "uint32"}
            /\ type.name \in {"int", "int64", "uint", "uint64"} => v \in 0 .. ByteValues - 1
            /\ type.name = "string" => Len(v) < ByteValues
      [] type.kind = "custom" -> Len(v.value) < ByteValues
      [] type.kind = "slice" -> Len(v) < ByteValues /\ \A i \in DOMAIN v : Holds(type.elem, v[i])
      [] type.kind = "map" ->
            /\ Cardinality(DOMAIN v) < ByteValues
            /\ type.val.kind # "map"
            /\ \A k \in DOMAIN v : Holds(type.key, k) /\ Holds(type.val, v[k])
      [] type.kind = "struct" -> type.fields # <<>> /\
            \A i \in DOMAIN type.fields : Holds(type.fields[i].type, v[type.fields[i].name])

HeldObject ==
    /\ written # NoObject
    /\ Holds(written.type, written.val)
    /\ Len(BuildDBSchemaString(BuildDBSchema(written.type))) < ByteValues

HasCustom(type) == Registers(BuildDBSchema(type))

(* An object that the format can hold comes back as it was written: through    *)
(* ParseAnyToObjectDB into an empty object of its type, through ParseAnyDB if  *)
(* it is a basic value, and field by field through ParseAnyToValueMapDB.       *)
(* Objects with a LimitedString are left to FieldsSurviveAnUpgrade.            *)
ObjectComesBack ==
    (reading # NoReading /\ HeldObject /\ ~HasCustom(written.type)) =>
        /\ (/\ reading.how = "object"
            /\ reading.target = [type |-> written.type, val |-> ZeroOf(written.type)]
            /\ written.type.kind \in {"struct", "slice"}) =>
              reading.result.st = "ok" /\ reading.result.val = written.val
        /\ (/\ reading.how = "basic"
            /\ reading.target.type = written.type
            /\ written.type.kind = "prim") =>
              reading.result.st = "ok" /\ reading.result.val = written.val
        /\ (reading.how = "map" /\ written.type.kind = "struct") =>
              reading.result.st = "ok" /\ reading.result.val = written.val

FieldType(type, name) == (CHOOSE f \in ToSet(type.fields) : f.name = name).type
FieldNames(type) == {f.name : f \in ToSet(type.fields)}

(* A struct read into a later version of its type: fields of the same name and *)
(* type get the written value, fields the file does not have keep what the     *)
(* target held, and what the target does not have is skipped without           *)
(* disturbing the rest. The read fails only where a common field changed its   *)
(* type or a LimitedString had nothing that knows its size. A LimitedString of *)
(* size 0, as a new object has it, is outside: it is read as no bytes at all   *)
(* and what follows is read from the wrong place.                              *)
FieldsSurviveAnUpgrade ==
    (/\ reading # NoReading /\ reading.how = "object" /\ HeldObject
     /\ written.type.kind = "struct" /\ reading.target.type.kind = "struct"
     /\ \A f \in ToSet(reading.target.type.fields) : f.type = LimitedString =>
            reading.target.val[f.name].lengthStoreByteSize \in 1 .. 8) =>
        LET old == written.type
            new == reading.target.type
            common == FieldNames(old) \intersect FieldNames(new)
            changed == {n \in common : FieldType(old, n) # FieldType(new, n)}
            empty(n) == IF FieldType(new, n).kind \in {"slice", "map"}
                        THEN reading.target.val[n] = ZeroOf(FieldType(new, n)) ELSE TRUE
            plain(n) == FieldType(old, n).kind # "struct" /\ ~HasCustom(FieldType(old, n))
            unsized == {n \in FieldNames(old) : HasCustom(FieldType(old, n))}
                           \ {n \in common : FieldType(new, n) = LimitedString}
        IN /\ reading.result.st = "ok" =>
                /\ \A n \in common : (empty(n) /\ plain(n) /\ n \notin changed)
                                        => reading.result.val[n] = written.val[n]
                /\ \A n \in common \ changed : FieldType(new, n) = LimitedString
                                        => reading.result.val[n].value = written.val[n].value
                /\ \A n \in FieldNames(new) \ common :
                        reading.result.val[n] = reading.target.val[n]
           /\ (changed = {} /\ unsized = {}) => reading.result.st = "ok"
=============================================================================
