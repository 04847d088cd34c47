--------------------------- MODULE DatabaseReader ---------------------------
(* Reading the format of DatabaseUniversal: into an object whose type need not *)
(* be the one that was written (what the object lacks is skipped), or into     *)
(* plain maps. env says what the reading process knew before: whether it had   *)
(* registered LimitedString, and the size a user answers when asked to repair  *)
(* one (0 when interactive repair is off).                                     *)
EXTENDS DatabaseUniversal

Signed(val, limit) == IF val >= limit \div 2 THEN val - limit ELSE val
IsName(word) == Len(word) = 2

-----------------------------------------------------------------------------
\* mutant: only braces count as brackets, those of a map do not
buildStructSchemaStringPartsFlat(words, pos) ==
    LET Step(s, w) ==
            LET depth == s.depth + (IF w = Word("{") THEN 1 ELSE 0)
                                 - (IF w = Word("}") THEN 1 ELSE 0)
                ends == depth = 0 \/ (depth = 1 /\ w = Word("-"))
            IN IF s.depth = 0 THEN s
               ELSE [depth |-> depth,
                     parts |-> IF ends THEN Append(s.parts, s.current) ELSE s.parts,
                     current |-> IF ends THEN <<>> ELSE Append(s.current, w)]
    IN FoldLeft(Step, [depth |-> 1, parts |-> <<>>, current |-> <<>>],
                SubSeq(words, pos + 1, Len(words))).parts

(* The parts between the braces that open at index pos. Words behind the last  *)
(* "-" of a schema that never closes belong to no part.                        *)
buildStructSchemaStringParts(words, pos) ==
    LET Step(s, w) ==
            LET depth == s.depth + (IF w \in {Word("{"), Word("<")} THEN 1 ELSE 0)
                                 - (IF w \in {Word("}"), Word(">")} THEN 1 ELSE 0)
                ends == depth = 0 \/ (depth = 1 /\ w = Word("-"))
            IN IF s.depth = 0 THEN s
               ELSE [depth |-> depth,
                     parts |-> IF ends THEN Append(s.parts, s.current) ELSE s.parts,
                     current |-> IF ends THEN <<>> ELSE Append(s.current, w)]
    IN FoldLeft(Step, [depth |-> 1, parts |-> <<>>, current |-> <<>>],
                SubSeq(words, pos + 1, Len(words))).parts

(* A registered LimitedString. An object the reader made itself has no size:   *)
(* the user is asked for one, or the value does not exist.                     *)
ParseCustom(file, pos, limitedString, createdNew, env) ==
    IF ~env.registered THEN Failed("invalid", pos)
    ELSE IF createdNew /\ env.repair \notin 1 .. 8 THEN Failed("notexist", pos)
    ELSE LimitedStringParse(
            IF createdNew THEN [limitedString EXCEPT !.lengthStoreByteSize = env.repair]
            ELSE limitedString, file, pos)

(* int8 is read as a bool and int32 as a uint64, and then asserted to be what  *)
(* they are not.                                                               *)
parseAnyValueToBytesDBValue(file, pos, valType, target, createdNew, env) ==
    LET fixed == ParseUint16DB(file, pos)
        dynamic == ParseDynamicUintBytesDB(file, pos)
    IN CASE valType = Word("bool") -> ParseBoolDB(file, pos)
         [] valType \in {Word(n) : n \in DynamicUints} -> dynamic
         [] valType \in {Word("int"), Word("int64")} ->
                [dynamic EXCEPT !.val = Signed(@, MaxUint)]
         [] valType = Word("uint8") -> ParseUint8DB(file, pos)
         [] valType \in {Word("int8"), Word("int32")} -> Failed("panic", pos)
         [] valType = Word("string") -> ParseStringDB(file, pos)
         [] valType = Word("int16") -> [fixed EXCEPT !.val = Signed(@, ByteValues ^ 2)]
         [] valType = Word("uint16") -> fixed
         [] valType = Word("LimitedString") -> ParseCustom(file, pos, target, createdNew, env)
         [] OTHER -> Failed("invalid", pos)

-----------------------------------------------------------------------------
(* Into plain maps and slices *)

Upto(n) == [i \in 1 .. n |-> i]

(* The first error ends the reading; which of several it is, is left out.      *)
Kept(done, read, val) ==
    IF done.st # "ok" THEN done ELSE IF read.st # "ok" THEN read ELSE Got(val, read.pos)

(* The rest of a schema is one type name, or no type at all.                   *)
OneWord(words) == IF Len(words) = 1 THEN words[1] ELSE Word("?")

RECURSIVE readDataDBAny(_, _, _, _)
readDataDBAny(file, pos, words, env) ==
    LET count == ParseDynamicUintBytesDB(file, pos)
        parts == buildStructSchemaStringParts(words, 1)
        hashable == /\ Len(parts) >= 2 /\ parts[1] # <<>>
                    /\ parts[1][1] \notin {Word("[]"), Word("<"), Word("{")}
        Row(done, i) ==
            LET row == readDataDBAny(file, done.pos, Tail(words), env)
            IN Kept(done, row, Append(done.val, row.val))
        Pair(done, i) ==
            LET key == readDataDBAny(file, done.pos, parts[1], env)
                val == readDataDBAny(file, key.pos, parts[2], env)
            IN IF ~hashable THEN Failed("panic", done.pos)
               ELSE Kept(Kept(done, key, 0), val, (key.val :> val.val) @@ done.val)
        Part(done, part) ==
            LET item == readDataDBAny(file, done.pos, part, env)
            IN IF part = <<>> \/ ~IsName(part[1]) THEN Failed("panic", done.pos)
               ELSE Kept(done, item, item.val @@ done.val)
        named == readDataDBAny(file, pos, Tail(words), env)
        Empty == [n \in {} |-> 0]
    IN CASE words = <<>> -> Failed("panic", pos)
         [] words # <<>> /\ words[1] \in {Word("[]"), Word("<")} ->
                IF count.st # "ok" THEN count
                ELSE IF words[1] = Word("[]")
                THEN FoldLeft(Row, Got(<<>>, count.pos), Upto(count.val))
                ELSE FoldLeft(Pair, Got(Empty, count.pos), Upto(count.val))
         [] words # <<>> /\ words[1] = Word("{") -> FoldLeft(Part, Got(Empty, pos), parts)
         [] words # <<>> /\ IsName(words[1]) ->
                Kept(Got(0, pos), named, words[1][1] :> named.val)
         [] OTHER -> parseAnyValueToBytesDBValue(file, pos, OneWord(words),
                                                 ZeroOf(LimitedString), TRUE, env)

-----------------------------------------------------------------------------
(* Into an object. target is its type and value, or NoTarget for what the      *)
(* object has no field for.                                                    *)

NoTarget == [type |-> [kind |-> "none"], val |-> 0]
Target(type, val) == [type |-> type, val |-> val]

\* mutant: what the object has no field for is not read past
ReadLeafUnskipped(file, pos, words, target, createdNew, env) ==
    LET valType == IF IsName(words[1]) THEN Tail(words) ELSE words
    IN IF target.type.kind = "none" THEN Got(0, pos)
       ELSE IF valType # TypeString(target.type) THEN Failed("invalid", pos)
       ELSE parseAnyValueToBytesDBValue(file, pos, OneWord(valType), target.val, createdNew, env)

(* A value without braces: its type has to be the target's, to the letter. A   *)
(* uint32 is read as a uint64, which reflection does not put into the target.  *)
ReadLeaf(file, pos, words, target, createdNew, env) ==
    LET valType == IF IsName(words[1]) THEN Tail(words) ELSE words
        skip == target.type.kind = "none"
        read == parseAnyValueToBytesDBValue(file, pos, OneWord(valType),
                    IF skip THEN ZeroOf(LimitedString) ELSE target.val,
                    skip \/ createdNew, env)
    IN IF ~skip /\ valType # TypeString(target.type) THEN Failed("invalid", pos)
       ELSE IF read.st = "ok" /\ ~skip /\ valType = <<Word("uint32")>>
       THEN Failed("panic", pos) ELSE read

RECURSIVE readDataDB(_, _, _, _, _, _)

(* A slice of the target is read into element by element, grows when it is too *)
(* short, and keeps what it holds beyond the count.                            *)
ReadSlice(file, pos, words, target, createdNew, env) ==
    LET count == ParseDynamicUintBytesDB(file, pos)
        elem == target.type.elem
        Element(done, i) ==
            LET isNew == Len(done.val) < i
                read == readDataDB(file, done.pos, Tail(words),
                            Target(elem, IF isNew THEN ZeroOf(elem) ELSE done.val[i]),
                            isNew \/ createdNew, env)
            IN Kept(done, read, IF isNew THEN Append(done.val, read.val)
                                ELSE [done.val EXCEPT ![i] = read.val])
    IN IF count.st # "ok" THEN count
       ELSE IF target.type.kind # "slice" THEN Failed("panic", pos)
       ELSE FoldLeft(Element, Got(target.val, count.pos), Upto(count.val))

(* A map of the target keeps the keys the file does not have.                  *)
ReadMap(file, pos, words, target, createdNew, env) ==
    LET count == ParseDynamicUintBytesDB(file, pos)
        parts == buildStructSchemaStringParts(words, 1)
        Pair(done, i) ==
            LET key == readDataDB(file, done.pos, parts[1],
                           Target(target.type.key, ZeroOf(target.type.key)), TRUE, env)
                isNew == key.val \notin DOMAIN done.val
                val == readDataDB(file, key.pos, parts[2],
                           Target(target.type.val, IF isNew THEN ZeroOf(target.type.val)
                                                   ELSE done.val[key.val]),
                           isNew \/ createdNew, env)
            IN IF Len(parts) < 2 THEN Failed("panic", done.pos)
               ELSE Kept(Kept(done, key, 0), val, (key.val :> val.val) @@ done.val)
    IN IF count.st # "ok" THEN count
       ELSE IF target.type.kind # "map" THEN Failed("panic", pos)
       ELSE FoldLeft(Pair, Got(target.val, count.pos), Upto(count.val))

(* The fields of a struct are matched by name, in the order of the file. A     *)
(* target that has no fields is left alone and everything is skipped; a slice  *)
(* of structs has the fields of its elements, which it cannot be asked for.    *)
(* Building the schema of the target registers the custom types it holds.      *)
ReadStruct(file, pos, words, target, createdNew, env) ==
    LET struct == IF target.type.kind = "slice" THEN target.type.elem ELSE target.type
        fields == IF struct.kind = "struct" THEN ToSet(struct.fields) ELSE {}
        knowing == [env EXCEPT !.registered = @ \/ Registers(BuildDBSchema(target.type))]
        Part(done, part) ==
            LET found == {f \in fields : f.name = part[1][1]}
                field == CHOOSE f \in found : TRUE
                read == readDataDB(file, done.pos, Tail(part),
                            IF found = {} THEN NoTarget
                            ELSE Target(field.type, done.val[field.name]),
                            createdNew, knowing)
            IN IF part = <<>> \/ ~IsName(part[1]) THEN Failed("panic", done.pos)
               ELSE IF found # {} /\ target.type.kind = "slice" THEN Failed("panic", done.pos)
               ELSE Kept(done, read, IF found = {} THEN done.val
                                     ELSE [done.val EXCEPT ![field.name] = read.val])
    IN FoldLeft(Part, Got(target.val, pos), buildStructSchemaStringParts(words, 1))

readDataDB(file, pos, words, target, createdNew, env) ==
    IF words = <<>> THEN Failed("panic", pos)
    ELSE IF words[1] \notin {Word("[]"), Word("<"), Word("{")}
    THEN ReadLeaf(file, pos, words, target, createdNew, env)
    ELSE IF target.type.kind = "none" THEN readDataDBAny(file, pos, words, env)
    ELSE CASE words[1] = Word("[]") -> ReadSlice(file, pos, words, target, createdNew, env)
           [] words[1] = Word("<") -> ReadMap(file, pos, words, target, createdNew, env)
           [] words[1] = Word("{") -> ReadStruct(file, pos, words, target, createdNew, env)

-----------------------------------------------------------------------------
(* What the program calls *)

(* The target is a pointer: no value without braces has its type.              *)
ParseAnyToObjectDB(file, pos, type, val, env) ==
    LET schema == ParseStringDB(file, pos)
        words == WordsOf(schema.val)
    IN IF schema.st # "ok" THEN schema
       ELSE IF words # <<>> /\ words[1] \notin {Word("[]"), Word("<"), Word("{")}
       THEN Failed("invalid", schema.pos)
       ELSE readDataDB(file, schema.pos, words, Target(type, val), FALSE, env)

(* A basic value is read from the front of the file, where it stands without   *)
(* its schema.                                                                 *)
ParseAnyDB(file, type, env) ==
    LET basic == parseAnyValueToBytesDBValue(file, 0, Word(KindOf(type)), 0, TRUE, env)
    IN IF type.kind = "prim"
       THEN IF basic.st = "ok" /\ type.name = "uint32" THEN Failed("panic", 0) ELSE basic
       ELSE ParseAnyToObjectDB(file, 0, type, ZeroOf(type), env)

ParseAnyToValueMapDB(file, env) ==
    LET schema == ParseStringDB(file, 0)
    IN IF schema.st # "ok" THEN schema
       ELSE readDataDBAny(file, schema.pos, WordsOf(schema.val), env)
=============================================================================
