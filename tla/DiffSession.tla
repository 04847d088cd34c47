----------------------------- MODULE DiffSession -----------------------------
(* A text that is edited, and a copy of it that follows by the differences     *)
(* alone: what the "fs" test of main.go does with DiffTools once.              *)
EXTENDS DiffTools, TLC

CONSTANT Texts

VARIABLES
    text,           \* the text that is edited
    copy,           \* the copy that gets the differences
    edit            \* the last edit: what it changed and how, or NoEdit

diffVars == <<text, copy, edit>>

NoEdit == [algorithm |-> "none"]

DiffInit ==
    /\ text \in Texts
    /\ copy = text
    /\ edit = NoEdit

(* The text is edited in any case. A panic of the algorithm ends the process   *)
(* before there is anything to patch the copy with.                            *)
Edit(algorithm, new) ==
    LET diff == IF algorithm = "LCS" THEN DiffInStringLCS(text, new)
                ELSE DiffInStringLCSAlt(text, new)
    IN /\ edit' = [algorithm |-> algorithm, old |-> text, new |-> new, diff |-> diff]
       /\ text' = new
       /\ copy' = IF diff.panic THEN copy ELSE PatchUsingChanges(copy, diff.changes)

DiffNext ==
    /\ edit = NoEdit
    /\ \E new \in Texts : Edit("LCS", new) \/ Edit("LCSAlt", new)

-----------------------------------------------------------------------------
(* Properties *)

LongestCommon(a, b) == Max({Len(s) : s \in AllSubSeqs(a) \intersect AllSubSeqs(b)})

(* Nothing but letters to delete is left when both ends are trimmed.           *)
OnlyDeletes(old, new) == DiffTrim(old, new).new = <<>> /\ DiffTrim(old, new).old # <<>>

(* Patching the old text with the differences makes the new one, whatever was  *)
(* trimmed and in whatever order the differences are listed. But for the edits *)
(* that end the process: with DiffInStringLCS each that only deletes, with     *)
(* DiffInStringLCSAlt one whose way back meets a letter count with no match.   *)
CopyFollows ==
    \/ copy = text
    \/ edit.algorithm = "LCS" /\ OnlyDeletes(edit.old, edit.new)
    \/ edit.algorithm = "LCSAlt" /\ edit.diff.panic

(* The differences that an algorithm returns are as few as they can be: they   *)
(* keep a longest common subsequence, though DiffInStringLCSAlt has two rows   *)
(* of the matrix only and drops matches as it goes. Where it dropped one that  *)
(* it needs on the way back it panics and returns nothing.                     *)
NoNeedlessChange ==
    (edit # NoEdit /\ ~edit.diff.panic) =>
        Len(edit.diff.changes) = Len(edit.old) + Len(edit.new)
                                     - 2 * LongestCommon(edit.old, edit.new)
=============================================================================
