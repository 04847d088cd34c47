---------------------------- MODULE MCSeparate -----------------------------
(* The parts that share no state with the others, side by side in one run:     *)
(* subject picks the one that takes steps, so that their state spaces add up.  *)
EXTENDS RAMDatabase, JournalingRAMDatabase, ObjectFile, DiffSession, ConfigManager,
        SocketLink, StableServer, FileSystemWatcher

CONSTANT Subjects

VARIABLE subject

SeparateInit ==
    /\ subject \in Subjects
    /\ RamInit /\ Init /\ ObjectInit /\ SocketInit /\ ServerInit /\ WatcherInit
    /\ IF subject = "diff" THEN DiffInit
       ELSE text = <<>> /\ copy = <<>> /\ edit = NoEdit
    /\ IF subject = "config" THEN ConfigInit
       ELSE /\ managed = NoValues /\ argv = <<>> /\ path = CHOOSE p \in Paths : TRUE
            /\ configFiles = [p \in Paths |-> File(<<>>, NoValues)] /\ loaded = FALSE
    /\ subject # "ram" => codec = "uint"
    /\ subject # "socket" => link = "raw"
    /\ subject # "server" => keepAlive = FALSE

fileVars == <<ramVars, vars, objectVars, diffVars, configVars>>
linkVars == <<socketVars, serverVars, watcherVars>>

SeparateNext ==
    \/ subject = "ram" /\ RamNext
           /\ UNCHANGED <<subject, vars, objectVars, diffVars, configVars, linkVars>>
    \/ subject = "journal" /\ Next
           /\ UNCHANGED <<subject, ramVars, objectVars, diffVars, configVars, linkVars>>
    \/ subject = "object" /\ ObjectNext
           /\ UNCHANGED <<subject, ramVars, vars, diffVars, configVars, linkVars>>
    \/ subject = "diff" /\ DiffNext
           /\ UNCHANGED <<subject, ramVars, vars, objectVars, configVars, linkVars>>
    \/ subject = "config" /\ ConfigNext
           /\ UNCHANGED <<subject, ramVars, vars, objectVars, diffVars, linkVars>>
    \/ subject = "socket" /\ SocketNext
           /\ UNCHANGED <<subject, serverVars, watcherVars, fileVars>>
    \/ subject = "server" /\ ServerNext
           /\ UNCHANGED <<subject, socketVars, watcherVars, fileVars>>
    \/ subject = "watcher" /\ WatcherNext
           /\ UNCHANGED <<subject, socketVars, serverVars, fileVars>>

SeparateSpec == SeparateInit /\ [][SeparateNext]_<<subject, fileVars, linkVars>>

-----------------------------------------------------------------------------
(* Instances *)

(* Texts over three letters up to length 3, and longer ones over two.          *)
cTexts == SeqOf({"a", "b", "c"}, 3) \union
          {<<"a", "b", "b", "c">>, <<"b", "b", "a", "b", "b">>, <<"c", "a", "b", "a">>,
           <<"b", "c", "a", "b", "c">>, <<"a", "b", "a", "b">>}

cDbValues == [c \in {"uint", "string", "time", "password", "list", "table"} |->
    CASE c = "uint" -> {0, 11, 13}
      [] c = "string" -> {<<>>, <<3, 4>>}
      [] c = "time" -> {-5, 7}
      [] c = "password" -> {[salt |-> <<1>>, hash |-> <<2>>], [salt |-> <<>>, hash |-> <<2>>]}
      [] c = "list" -> {<<>>, <<1, 0>>}
      [] c = "table" -> {<<>>, << <<2, <<5>>>>, <<0, <<>>>> >>}]
cDbKeys == {<<1>>, <<2, 1>>}

Field(name, type) == [name |-> name, type |-> type]
Object(type, val) == [type |-> type, val |-> val]
A(type) == StructOf(<<Field("a", type)>>)
Limited(value, size) == LimitedStringSet(MakeLimitedString(size), value)

Flat == StructOf(<<Field("a", Prim("string")), Field("b", Prim("uint"))>>)
Turned == StructOf(<<Field("b", Prim("uint")), Field("c", SliceOf(Prim("string")))>>)
Nested == StructOf(<<Field("a", A(Prim("int16"))), Field("c", Prim("bool"))>>)
Listed == A(SliceOf(A(Prim("uint8"))))
Mapped == A(MapOf(Prim("string"), Prim("int")))
Changed == StructOf(<<Field("a", Prim("uint16")), Field("b", Prim("uint"))>>)
Long == StructOf(<<Field("a", Prim("uint")), Field("b", Prim("uint")),
                   Field("c", Prim("uint")), Field("d", Prim("uint"))>>)
Named == StructOf(<<Field("a", LimitedString), Field("b", Prim("uint"))>>)

cObjects ==
    {Object(Flat, [a |-> <<3, 4>>, b |-> 5]), Object(Flat, [a |-> <<>>, b |-> 0]),
     Object(Turned, [b |-> 2, c |-> << <<1>>, <<>> >>]),
     Object(Nested, [a |-> [a |-> -3], c |-> TRUE]),
     Object(Listed, [a |-> <<[a |-> 7], [a |-> 0]>>]),
     Object(Mapped, [a |-> (<<1>> :> 4 @@ <<2>> :> 0)]),
     Object(Changed, [a |-> 9, b |-> 1]),
     Object(Long, [a |-> 1, b |-> 2, c |-> 3, d |-> 4]),
     Object(Named, [a |-> Limited(<<6>>, 2), b |-> 3]),
     Object(SliceOf(A(LimitedString)), <<[a |-> Limited(<<8>>, 1)]>>),
     Object(Prim("uint"), 10), Object(Prim("int"), -1), Object(Prim("string"), <<2, 3>>),
     Object(Prim("bool"), TRUE), Object(Prim("uint16"), 143), Object(Prim("uint"), 12)}

cTargets ==
    {Object(t, ZeroOf(t)) : t \in {Flat, Turned, Nested, Listed, Mapped, Changed, Named}}
    \union {Object(Flat, [a |-> <<9>>, b |-> 8]), Object(Named, [a |-> MakeLimitedString(3), b |-> 0]),
            Object(Turned, [b |-> 1, c |-> << <<5>> >>])}
cEnvironments == {[registered |-> r, repair |-> n] : r \in BOOLEAN, n \in {0, 2}}
cNames == {"", "a", "b", "c", "d"}

Option(arg, inFile, type) == [byArgument |-> arg, byFile |-> inFile, valueType |-> type,
                              description |-> <<"text">>, default |-> Nil]
cOptions == ("a" :> Option(TRUE, TRUE, "int")) @@ ("b" :> Option(TRUE, FALSE, "bool"))
                @@ ("c" :> Option(FALSE, TRUE, "string"))
cWordTypes == ("1" :> {"int"}) @@ ("true" :> {"bool"})
O(k) == Argument(TRUE, k)
W(w) == Argument(FALSE, w)
cArgLists == {<<>>, <<O("a"), W("1")>>, <<O("b"), O("a"), W("1")>>,
              <<O("a"), W("1"), O("b"), W("true")>>, <<O("a"), W("true")>>,
              <<O("c"), W("1"), O("d"), W("true"), O("b")>>}
cHandFiles == {File(<<"object">>, [k \in {"a", "b", "c"} |-> "f"]),
               File(<<"/", "/", "text", "newline", "object">>, [k \in {"a"} |-> "f"])}

=============================================================================
