------------------------------ MODULE DiffTools ------------------------------
(* The two difference algorithms of filesystem/DiffTools.go and the patch that *)
(* applies their result. Slices are sequences, indexes keep the zero base of   *)
(* the source, and a panic is an outcome of its own. Results are values: that  *)
(* RemoveElementAtIndex moves the letters of the caller's slice is left out.   *)
EXTENDS Integers, Sequences, SequencesExt, FiniteSetsExt

At(s, i) == s[i + 1]

DifferenceEntry(position, character, isInsertion) ==
    [position |-> position, character |-> character, isInsertion |-> isInsertion]

Panic == [panic |-> TRUE, changes |-> <<>>]
Changes(entries) == [panic |-> FALSE, changes |-> entries]

-----------------------------------------------------------------------------

InsertElementAtIndex(slice, index, element) ==
    IF index < 0 THEN slice
    ELSE LET cut == Min({index, Len(slice)})
         IN SubSeq(slice, 1, cut) \o <<element>> \o SubSeq(slice, cut + 1, Len(slice))

RemoveElementAtIndex(slice, index) ==
    SubSeq(slice, 1, index) \o SubSeq(slice, index + 2, Len(slice))

\* mutant: deletions stay in the order they are listed
appendAtTopUnsorted(slice, item) == Append(slice, item)

appendAtTop(slice, item) ==
    LET lower == {i \in 0 .. Len(slice) - 1 : At(slice, i).position < item.position}
    IN IF lower = {} THEN Append(slice, item)
       ELSE InsertElementAtIndex(slice, Min(lower), item)

appendAtBottom(slice, item) ==
    LET lower == {i \in 0 .. Len(slice) - 1 : At(slice, i).position < item.position}
    IN InsertElementAtIndex(slice, IF lower = {} THEN 0 ELSE Max(lower) + 1, item)

(* Deletions from the back of the text, then insertions from its front.        *)
PatchUsingChanges(old, changes) ==
    LET Sorted(lists, entry) ==
            IF entry.isInsertion
            THEN [lists EXCEPT !.insertions = appendAtBottom(@, entry)]
            ELSE [lists EXCEPT !.deletions = appendAtTop(@, entry)]
        lists == FoldLeft(Sorted, [insertions |-> <<>>, deletions |-> <<>>], changes)
        Delete(text, entry) == RemoveElementAtIndex(text, entry.position)
        Insert(text, entry) ==
            InsertElementAtIndex(text, entry.position, entry.character)
    IN FoldLeft(Insert, FoldLeft(Delete, old, lists.deletions), lists.insertions)

-----------------------------------------------------------------------------

(* What is left of the two texts without their common head and tail.           *)
DiffTrim(old, new) ==
    LET shorter == Min({Len(old), Len(new)})
        prefixLen == Max({n \in 0 .. shorter : SubSeq(old, 1, n) = SubSeq(new, 1, n)})
        suffixLen == Max({n \in 0 .. shorter - prefixLen :
                              SubSeq(old, Len(old) - n + 1, Len(old))
                                  = SubSeq(new, Len(new) - n + 1, Len(new))})
    IN [old |-> SubSeq(old, prefixLen + 1, Len(old) - suffixLen),
        new |-> SubSeq(new, prefixLen + 1, Len(new) - suffixLen),
        offset |-> prefixLen]

\* mutant: the cell to the left is not looked at
RowWithoutLeft(old, letter, above) ==
    LET Up(x) == IF above = <<>> \/ x < 0 THEN 0 ELSE At(above, x)
    IN [x \in 1 .. Len(old) |-> IF old[x] = letter THEN Up(x - 2) + 1 ELSE Up(x - 1)]

(* One row of the matrix from the row above it (<<>> above the first).         *)
Row(old, letter, above) ==
    LET Up(x) == IF above = <<>> \/ x < 0 THEN 0 ELSE At(above, x)
        Cell(row, x) ==
            Append(row, IF At(old, x) = letter THEN Up(x - 1) + 1
                        ELSE Max({Up(x), IF x > 0 THEN At(row, x - 1) ELSE 0}))
    IN FoldLeft(Cell, <<>>, [x \in 1 .. Len(old) |-> x - 1])

Matrix(old, new) ==
    LET AddRow(rows, letter) ==
            Append(rows, Row(old, letter, IF rows = <<>> THEN <<>> ELSE Last(rows)))
    IN FoldLeft(AddRow, <<>>, new)

(* The matched pairs <<x, y>> on the way back from the last cell.              *)
RECURSIVE Backtrack(_, _, _, _, _)
Backtrack(old, new, matrix, x, y) ==
    IF x < 0 \/ y < 0 THEN <<>>
    ELSE IF At(old, x) = At(new, y)
    THEN Append(Backtrack(old, new, matrix, x - 1, y - 1), <<x, y>>)
    ELSE IF x = 0 \/ (y > 0 /\ At(At(matrix, y - 1), x) >= At(At(matrix, y), x - 1))
    THEN Backtrack(old, new, matrix, x, y - 1)
    ELSE Backtrack(old, new, matrix, x - 1, y)

(* What lies between two matched pairs was deleted from old or added to new.   *)
ChangesBetween(old, new, offset, matches) ==
    LET Deleted(from, to) ==
            [i \in 1 .. to - from |->
                DifferenceEntry(from + i - 1 + offset, At(old, from + i - 1), FALSE)]
        Inserted(from, to) ==
            [i \in 1 .. to - from |->
                DifferenceEntry(from + i - 1 + offset, At(new, from + i - 1), TRUE)]
        Step(done, match) ==
            [okOld |-> match[1] + 1, okNew |-> match[2] + 1,
             result |-> done.result \o Deleted(done.okOld, match[1])
                                    \o Inserted(done.okNew, match[2])]
        end == FoldLeft(Step, [okOld |-> 0, okNew |-> 0, result |-> <<>>], matches)
    IN end.result \o Reverse(Deleted(end.okOld, Len(old)))
                  \o Inserted(end.okNew, Len(new))

(* The row index of the last cell is -1 when nothing is left of new.           *)
DiffInStringLCS(oldText, newText) ==
    LET trim == DiffTrim(oldText, newText)
        old == trim.old
        new == trim.new
    IN IF old = <<>> /\ new = <<>> THEN Changes(<<>>)
       ELSE IF new = <<>> THEN Panic
       ELSE Changes(ChangesBetween(old, new, trim.offset,
                Backtrack(old, new, Matrix(old, new), Len(old) - 1, Len(new) - 1)))

-----------------------------------------------------------------------------

(* The matches kept per letter count: only those that reach the highest count  *)
(* met so far, so that one of a lower count is lost. Index 0 stays empty.      *)
MatchesByCount(old, new) ==
    LET matrix == Matrix(old, new)
        Cells == [i \in 1 .. Len(old) * Len(new) |->
                    <<(i - 1) % Len(old), (i - 1) \div Len(old)>>]
        Keep(kept, cell) ==
            LET count == At(At(matrix, cell[2]), cell[1])
                jumpValue == Max({kept.jumpValue, count})
            IN IF At(old, cell[1]) # At(new, cell[2]) THEN kept
               ELSE [jumpValue |-> jumpValue,
                     lists |-> IF count < jumpValue THEN kept.lists
                               ELSE [kept.lists EXCEPT ![jumpValue] = Append(@, cell)]]
    IN FoldLeft(Keep, [jumpValue |-> 0,
                       lists |-> [n \in 0 .. Len(old) |-> <<>>]], Cells).lists

(* From the highest count down: of the matches inside the remaining area the   *)
(* right-most one, and of those the lowest. None left is an index panic.       *)
RECURSIVE JumpBack(_, _, _, _)
JumpBack(lists, count, x, y) ==
    LET inside == {cell \in ToSet(lists[count]) : cell[1] <= x /\ cell[2] <= y}
        best == CHOOSE cell \in inside : \A other \in inside :
                    \/ other[1] < cell[1]
                    \/ other[1] = cell[1] /\ other[2] <= cell[2]
        before == JumpBack(lists, count - 1, best[1] - 1, best[2] - 1)
    IN IF count = 0 THEN [panic |-> FALSE, matches |-> <<>>]
       ELSE IF inside = {} THEN [panic |-> TRUE, matches |-> <<>>]
       ELSE [before EXCEPT !.matches = Append(@, best)]

DiffInStringLCSAlt(oldText, newText) ==
    LET trim == DiffTrim(oldText, newText)
        old == trim.old
        new == trim.new
        back == IF old = <<>> \/ new = <<>> THEN [panic |-> FALSE, matches |-> <<>>]
                ELSE JumpBack(MatchesByCount(old, new),
                              Last(Last(Matrix(old, new))), Len(old) - 1, Len(new) - 1)
    IN IF old = <<>> /\ new = <<>> THEN Changes(<<>>)
       ELSE IF back.panic THEN Panic
       ELSE Changes(ChangesBetween(old, new, trim.offset, back.matches))
=============================================================================
