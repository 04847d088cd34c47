----------------------------- MODULE RAMDatabase -----------------------------
(* database/RAMDatabase.go: a map that is written to its file as a whole and   *)
(* read back on start. Nothing protects the file while it is written.          *)
EXTENDS DatabaseShared

CONSTANTS
    DbKeys,         \* texts
    DbValues,       \* codec -> values of it; a codec is what New... was given
    MaxSaves        \* bound on the number of saves

VARIABLES
    codec,          \* "uint", "string" and so on, of the values
    ramData,        \* the map in memory
    dbFile,         \* the atoms of the file
    rows,           \* rows a save under way still has to write, or NotSaving
    savedRows,      \* the rows of the last save, in the order of the file
    whole,          \* that save was not cut short
    fresh,          \* ramData is what a Load made of the file on an empty database
    saves

ramVars == <<codec, ramData, dbFile, rows, savedRows, whole, fresh, saves>>

NotSaving == <<<<>>>>
DbRow(key, value) == <<key, value>>

RamInit ==
    /\ codec \in DOMAIN DbValues
    /\ ramData = [k \in {} |-> 0]
    /\ dbFile = <<>> /\ savedRows = <<>> /\ whole = TRUE
    /\ rows = NotSaving
    /\ fresh = FALSE
    /\ saves = 0

-----------------------------------------------------------------------------

RamConvert(value) ==
    CASE codec = "list" -> ConvertSliceToBytesDB(value, "uint")
      [] codec = "table" -> ConvertMapToBytesDB(value, "uint", "string")
      [] OTHER -> Convert(codec, value)

RamParse(file, pos) ==
    CASE codec = "list" -> ParseArrayDB(file, pos, "uint")
      [] codec = "table" -> ParseMapDB(file, pos, "uint", "string")
      [] OTHER -> Parse(codec, file, pos)

Set(k, v) ==
    /\ ramData' = (k :> v) @@ ramData
    /\ fresh' = FALSE
    /\ UNCHANGED <<codec, dbFile, rows, savedRows, whole, saves>>

Delete(k) ==
    /\ ramData' = [key \in DOMAIN ramData \ {k} |-> ramData[key]]
    /\ fresh' = FALSE
    /\ UNCHANGED <<codec, dbFile, rows, savedRows, whole, saves>>

\* mutant: the file is opened without being truncated
SaveBeginAppending ==
    /\ rows = NotSaving /\ saves < MaxSaves
    /\ rows' \in {[i \in 1 .. Cardinality(DOMAIN ramData) |-> DbRow(order[i], ramData[order[i]])] :
                    order \in SetToSeqs(DOMAIN ramData)}
    /\ savedRows' = <<>> /\ whole' = FALSE
    /\ saves' = saves + 1
    /\ fresh' = FALSE
    /\ UNCHANGED <<codec, ramData, dbFile>>

(* The old file is gone before the first row of the new one is written. The    *)
(* rows are a copy of the map, in the order the iteration takes.               *)
SaveBegin ==
    /\ rows = NotSaving /\ saves < MaxSaves
    /\ rows' \in {[i \in 1 .. Cardinality(DOMAIN ramData) |-> DbRow(order[i], ramData[order[i]])] :
                    order \in SetToSeqs(DOMAIN ramData)}
    /\ dbFile' = <<>>
    /\ savedRows' = <<>> /\ whole' = FALSE
    /\ saves' = saves + 1
    /\ fresh' = FALSE
    /\ UNCHANGED <<codec, ramData>>

(* The old file is gone and the new one cannot be created. A file that is not  *)
(* there is loaded as an empty one: Load returns the error and sets nothing.   *)
SaveFails ==
    /\ rows = NotSaving /\ saves < MaxSaves
    /\ dbFile' = <<>> /\ savedRows' = <<>> /\ whole' = FALSE
    /\ saves' = saves + 1
    /\ fresh' = FALSE
    /\ UNCHANGED <<codec, ramData, rows>>

(* Errors of the two writers are ignored: what they wrote stays.               *)
RowAtoms(row) == ConvertStringToBytesDB(row[1]).out \o RamConvert(row[2]).out

SaveRow ==
    /\ rows # NotSaving /\ rows # <<>>
    /\ dbFile' = dbFile \o RowAtoms(Head(rows))
    /\ savedRows' = Append(savedRows, Head(rows))
    /\ rows' = Tail(rows)
    /\ UNCHANGED <<codec, ramData, whole, fresh, saves>>

SaveEnd ==
    /\ rows = <<>>
    /\ rows' = NotSaving
    /\ whole' = TRUE
    /\ UNCHANGED <<codec, ramData, dbFile, savedRows, fresh, saves>>

(* The process ends and starts again; of a row under way any part has reached  *)
(* the file.                                                                   *)
RamCrash ==
    /\ ramData' = [k \in {} |-> 0]
    /\ rows' = NotSaving
    /\ IF rows = NotSaving \/ rows = <<>>
       THEN UNCHANGED <<codec, dbFile, savedRows>>
       ELSE \E n \in 0 .. Len(RowAtoms(Head(rows))) :
                /\ dbFile' = dbFile \o SubSeq(RowAtoms(Head(rows)), 1, n)
                /\ savedRows' = IF n > 0 THEN Append(savedRows, Head(rows)) ELSE savedRows
    /\ fresh' = FALSE
    /\ UNCHANGED <<codec, whole, saves>>

(* A key, then its value, until the file ends. The end of the file inside a    *)
(* row is no error.                                                            *)
RECURSIVE LoadRows(_, _, _)
LoadRows(file, pos, loaded) ==
    LET key == ParseStringDB(file, pos)
        value == RamParse(file, key.pos)
    IN IF key.st = "eof" \/ value.st = "eof" THEN loaded
       ELSE LoadRows(file, value.pos, (key.val :> value.val) @@ loaded)

RamLoad ==
    /\ rows = NotSaving
    /\ ramData' = LoadRows(dbFile, 0, ramData)
    /\ fresh' = (ramData = [k \in {} |-> 0])
    /\ UNCHANGED <<codec, dbFile, rows, savedRows, whole, saves>>

RamNext ==
    \/ \E k \in DbKeys, v \in DbValues[codec] : Set(k, v)
    \/ \E k \in DbKeys : Delete(k)
    \/ SaveBegin \/ SaveFails \/ SaveRow \/ SaveEnd
    \/ RamCrash
    \/ RamLoad

-----------------------------------------------------------------------------
(* Properties *)

RowsMap == [k \in {r[1] : r \in ToSet(savedRows)} |->
                (CHOOSE r \in ToSet(savedRows) : r[1] = k)[2]]

(* A value that comes back from its own encoding.                              *)
Stored(value) ==
    LET encoded == RamConvert(value)
            parsed == RamParse(encoded.out, 0)
    IN ~encoded.err /\ parsed.st = "ok" /\ parsed.val = value

StoredOnly == \A r \in ToSet(savedRows) : Stored(r[2]) /\ Len(r[1]) < ByteValues

(* A database that was saved to the end is loaded as it was saved. A save that *)
(* was cut short, which has already destroyed the file before it, loads as the *)
(* rows it wrote, save that the row it was cut in may be missing or wrong. It  *)
(* is Save and Load of the database that are one the inverse of the other      *)
(* here, row after row, whatever the order of the rows.                        *)
LoadRestores ==
    (fresh /\ StoredOnly) =>
        IF whole THEN ramData = RowsMap
        ELSE LET torn == IF savedRows = <<>> THEN {} ELSE {Last(savedRows)[1]}
             IN /\ \A k \in DOMAIN RowsMap \ torn : k \in DOMAIN ramData /\ ramData[k] = RowsMap[k]
                /\ Cardinality(DOMAIN ramData \ (DOMAIN RowsMap \ torn)) <= 1
=============================================================================
