--------------------------- MODULE ConfigManager ---------------------------
(* helpertools/ConfigManager.go: options that a JSON file with comments and    *)
(* the arguments of the process give values to.                                *)
(*                                                                             *)
(* A file is its text, a sequence of the characters comments are made of with  *)
(* "text" for any other and "object" for the object of the JSON, and that      *)
(* object, a function from keys to values. A file that is not there reads as   *)
(* an empty one: both fail to load.                                            *)
EXTENDS Integers, Sequences, FiniteSets, SequencesExt, TLC

CONSTANTS
    Options,        \* function from keys to what AddOption is called with
    WordTypes,      \* function from argument words to the types they parse as
    ArgLists,       \* the arguments a process may be started with
    HandFiles,      \* the files a user may write
    SetValues,      \* the values SetValue is called with
    Paths

VARIABLES
    managed,        \* values: function from keys to configManagerValue
    argv,           \* os.Args behind the start index
    path,           \* the path of the manager
    configFiles,    \* path -> file
    loaded          \* the manager has loaded a file in this process

configVars == <<managed, argv, path, configFiles, loaded>>

Nil == "nil"
NoValues == [k \in {} |-> Nil]
File(text, json) == [text |-> text, json |-> json]
Argument(isOption, word) == [isOption |-> isOption, word |-> word]

(* A key nobody added is the zero value: configurable by nothing.              *)
ZeroOption == [byArgument |-> FALSE, byFile |-> FALSE, valueType |-> "any",
               description |-> <<>>, default |-> Nil]
configManagerValue(option) ==
    [option |-> option, setInConfigFile |-> FALSE, setInArgument |-> FALSE, value |-> Nil]
Get(key) == IF key \in DOMAIN managed THEN managed[key] ELSE configManagerValue(ZeroOption)

ConfigInit ==
    /\ managed = NoValues
    /\ argv \in ArgLists
    /\ path \in Paths
    /\ configFiles = [p \in Paths |-> File(<<>>, NoValues)]
    /\ loaded = FALSE

-----------------------------------------------------------------------------
(* Files *)

(* A comment starts at its second character and ends at its last one: the      *)
(* slash before it and the slash that ends it are kept.                        *)
JSONCToJSON(jsonc) ==
    LET Step(s, i) ==
            LET prev == IF i > 1 THEN jsonc[i - 1] ELSE "none"
                char == jsonc[i]
                string == IF prev # "\\" /\ char = "quote" /\ ~s.inline /\ ~s.star
                          THEN ~s.string ELSE s.string
                star == IF string \/ s.inline THEN s.star
                        ELSE IF prev = "/" /\ char = "*" THEN TRUE
                        ELSE IF prev = "*" /\ char = "/" THEN FALSE ELSE s.star
                inline == (s.inline \/ (~star /\ ~string /\ prev = "/" /\ char = "/"))
                              /\ char # "newline"
            IN [string |-> string, star |-> star, inline |-> inline,
                out |-> Append(s.out, IF char # "newline" /\ (inline \/ star)
                                      THEN "blank" ELSE char)]
    IN FoldLeft(Step, [string |-> FALSE, star |-> FALSE, inline |-> FALSE, out |-> <<>>],
                [i \in 1 .. Len(jsonc) |-> i]).out

(* json.Unmarshal: one object and white space, or an error.                    *)
Unmarshal(json) ==
    LET marks == SelectSeq(json, LAMBDA c : c \notin {"blank", "newline"})
    IN [err |-> marks # <<"object">>]

(* An argument's value is lost to the file, and so is the file's value it hid. *)
SavedFile ==
    LET saved == {k \in DOMAIN managed : managed[k].option.byFile}
        lines == FoldLeft(LAMBDA text, k : text \o <<"quote", "text", "quote", "text">>
                              \o managed[k].option.description \o <<"newline">>,
                          <<>>, SetToSeq(saved))
        header == <<"/", "*", "text", "newline">>
        writeValues == {k \in saved : ~managed[k].setInArgument /\ managed[k].setInConfigFile}
    IN File(header \o lines \o <<"*", "/", "newline", "object">>,
            [k \in writeValues |-> managed[k].value])

SaveAs(to) ==
    /\ configFiles' = [configFiles EXCEPT ![to] = SavedFile]
    /\ UNCHANGED <<managed, argv, path, loaded>>

-----------------------------------------------------------------------------
(* Arguments *)

Parsed(type, word) ==
    IF type \in {"any", "string"} THEN [err |-> FALSE, val |-> word]
    ELSE [err |-> type \notin WordTypes[word], val |-> word]

(* The loop's own step comes on top of the steps past a value, so that the     *)
(* argument behind a value, or behind an option without one, is passed over.   *)
RECURSIVE ParseArguments(_, _)
ParseArguments(i, args) ==
    LET key == argv[i].word
        option == managed[key].option
        hasValueAfter == i < Len(argv) /\ ~argv[i + 1].isOption
        parsed == Parsed(option.valueType, argv[i + 1].word)
    IN IF i > Len(argv) THEN [err |-> FALSE, args |-> args]
       ELSE IF ~argv[i].isOption \/ key \notin DOMAIN managed THEN ParseArguments(i + 1, args)
       ELSE IF ~option.byArgument
       THEN ParseArguments(i + (IF hasValueAfter THEN 2 ELSE 1), args)
       ELSE IF ~hasValueAfter
       THEN ParseArguments(i + 2, IF option.valueType = "bool"
                                  THEN (key :> "true") @@ args ELSE args)
       ELSE IF parsed.err THEN [err |-> TRUE, args |-> args]
       ELSE ParseArguments(i + 3, (key :> parsed.val) @@ args)

\* mutant: the file's value goes over the argument's
LoadedValueFileLast(key, fromFile, fromArgs) ==
    LET v == managed[key]
        read == v.option.byFile /\ key \in DOMAIN fromFile
        given == v.option.byArgument /\ key \in DOMAIN fromArgs
    IN [v EXCEPT !.setInConfigFile = @ \/ read,
                 !.setInArgument = @ \/ given,
                 !.value = IF read THEN fromFile[key] ELSE IF given THEN fromArgs[key] ELSE @]

(* The file's value, then the argument's over it. A flag once set stays set.   *)
LoadedValue(key, fromFile, fromArgs) ==
    LET v == managed[key]
        read == v.option.byFile /\ key \in DOMAIN fromFile
        given == v.option.byArgument /\ key \in DOMAIN fromArgs
    IN [v EXCEPT !.setInConfigFile = @ \/ read,
                 !.setInArgument = @ \/ given,
                 !.value = IF given THEN fromArgs[key] ELSE IF read THEN fromFile[key] ELSE @]

LoadFrom(from) ==
    LET file == Unmarshal(JSONCToJSON(configFiles[from].text))
        arguments == ParseArguments(1, NoValues)
        failed == file.err \/ arguments.err
    IN /\ loaded' = (loaded \/ ~failed)
       /\ managed' = IF failed THEN managed
                     ELSE [k \in DOMAIN managed |-> LoadedValue(k, configFiles[from].json, arguments.args)]
       /\ UNCHANGED <<argv, path, configFiles>>

-----------------------------------------------------------------------------
(* The rest of the manager *)

(* Programs add their options first. An option that is added after a load may  *)
(* hide from the next load an argument that this one has read.                 *)
AddOption(key) ==
    /\ ~loaded
    /\ managed' = (key :> configManagerValue(Options[key])) @@ managed
    /\ UNCHANGED <<argv, path, configFiles, loaded>>

RemoveOption(key) ==
    /\ managed' = [k \in DOMAIN managed \ {key} |-> managed[k]]
    /\ UNCHANGED <<argv, path, configFiles, loaded>>

SetValue(key, value) ==
    /\ managed' = (key :> [Get(key) EXCEPT !.value = value, !.setInConfigFile = TRUE,
                                           !.setInArgument = FALSE]) @@ managed
    /\ UNCHANGED <<argv, path, configFiles, loaded>>

(* The program goes on with the copy.                                          *)
Copy(newPath) ==
    /\ path' = newPath
    /\ UNCHANGED <<managed, argv, configFiles, loaded>>

(* A user writes the file.                                                     *)
WriteByHand(file) ==
    /\ configFiles' = [configFiles EXCEPT ![path] = file]
    /\ UNCHANGED <<managed, argv, path, loaded>>

(* The process ends; the next one may have other arguments.                    *)
RestartProcess ==
    /\ managed' = NoValues
    /\ argv' \in ArgLists
    /\ loaded' = FALSE
    /\ UNCHANGED <<path, configFiles>>

ConfigNext ==
    \/ \E k \in DOMAIN Options : AddOption(k) \/ RemoveOption(k)
    \/ \E k \in DOMAIN Options, v \in SetValues : SetValue(k, v)
    \/ LoadFrom(path)
    \/ SaveAs(path)
    \/ \E p \in Paths : Copy(p)
    \/ \E file \in HandFiles : WriteByHand(file)
    \/ RestartProcess

-----------------------------------------------------------------------------
(* Properties *)

(* An option that counts as set by an argument has the value that stands right *)
(* behind its name among the arguments, or true if none stands there, although *)
(* the loop steps over arguments and every load puts the file's value first.   *)
ArgumentWins ==
    \A k \in DOMAIN managed : managed[k].setInArgument =>
        \E i \in DOMAIN argv :
            /\ argv[i] = Argument(TRUE, k)
            /\ IF i < Len(argv) /\ ~argv[i + 1].isOption
               THEN managed[k].value = argv[i + 1].word
               ELSE managed[k].value = "true" /\ Options[k].valueType = "bool"

(* A file the manager saved can be loaded again: JSONCToJSON destroys all of   *)
(* its comments (ConfigManager.go:283).                                        *)
SavedFileLoads ==
    \A p \in Paths : LET text == configFiles[p].text IN
        (text # <<>> /\ configFiles[p] \notin HandFiles) => ~Unmarshal(JSONCToJSON(text)).err
=============================================================================
