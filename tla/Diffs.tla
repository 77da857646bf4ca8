-------------------------------- MODULE Diffs --------------------------------
(***************************************************************************)
(* The diff a read is answered with when the file has changed a little     *)
(* (computeUnifiedDiff, src/src/hooks/delta-read.ts): one pass over both   *)
(* texts that looks a few lines ahead, and hunks with some lines around    *)
(* the changes.                                                            *)
(*                                                                         *)
(* Each state of the module is a pair of texts.  DiffLines and             *)
(* MaxDiffLength bound them; DiffContext is 3 in the code, DiffLookAhead   *)
(* is 10.                                                                  *)
(***************************************************************************)
EXTENDS Naturals, Sequences

CONSTANTS DiffLines, MaxDiffLength, DiffContext, DiffLookAhead

VARIABLE compared     \* the text remembered and the text read

ASSUME DiffAssumption == DiffContext \in Nat \ {0} /\ DiffLookAhead \in Nat \ {0}

\* A text has at least one line, which may be empty.
DiffTexts == UNION {[1 .. n -> DiffLines] : n \in 1 .. MaxDiffLength}
NothingCompared == [old |-> <<>>, new |-> <<>>]

Marked(sign, text, first, last) ==
  [i \in 1 .. last - first + 1 |-> [sign |-> sign, line |-> text[first + i - 1]]]

\* The first of the next lines of a text that is the given one, or 0.
FoundAhead(line, text, from) ==
  LET ahead == {i \in from .. from + DiffLookAhead - 1 : i <= Len(text) /\ text[i] = line}
  IN  IF ahead = {} THEN 0 ELSE CHOOSE i \in ahead : \A j \in ahead : i <= j

\* What the pass writes down where it stands, the line o of the old text and n
\* of the new, and where it goes on: a line of both texts is kept; otherwise the
\* new lines up to the old one come in, the old lines up to the new one go, or
\* one line of each is replaced.
Pass(old, new, o, n) ==
  LET oldLeft == o <= Len(old)
      newLeft == n <= Len(new)
      inNew == IF oldLeft THEN FoundAhead(old[o], new, n) ELSE 0
      inOld == IF newLeft THEN FoundAhead(new[n], old, o) ELSE 0
      oldNext == IF oldLeft THEN o + 1 ELSE o
      newNext == IF newLeft THEN n + 1 ELSE n
  IN  IF inNew = n THEN [lines |-> Marked(" ", old, o, o), next |-> <<o + 1, n + 1>>]
      ELSE IF inNew # 0 THEN [lines |-> Marked("+", new, n, inNew - 1), next |-> <<o, inNew>>]
      ELSE IF inOld # 0 THEN [lines |-> Marked("-", old, o, inOld - 1), next |-> <<inOld, n>>]
      ELSE [lines |-> Marked("-", old, o, oldNext - 1) \o Marked("+", new, n, newNext - 1),
            next |-> <<oldNext, newNext>>]

EditScript(old, new) ==
  LET From[at \in (1 .. Len(old) + 1) \X (1 .. Len(new) + 1)] ==
        IF at = <<Len(old) + 1, Len(new) + 1>> THEN <<>>
        ELSE LET pass == Pass(old, new, at[1], at[2])
             IN  pass.lines \o From[pass.next]
  IN  From[<<1, 1>>]

\* The entries that do not have the sign: the lines of one of the texts.
Without(sign, lines) ==
  LET Rest[k \in 0 .. Len(lines)] ==
        IF k = 0 THEN <<>>
        ELSE IF lines[k].sign = sign THEN Rest[k - 1] ELSE Append(Rest[k - 1], lines[k])
  IN  Rest[Len(lines)]
OldSide(lines) == Without("+", lines)
NewSide(lines) == Without("-", lines)

NoHunk == [oldStart |-> 1, newStart |-> 1, lines |-> <<>>]

\* flushHunk
FlushHunk(d) == IF d.hunk.lines = <<>> THEN d
                ELSE [d EXCEPT !.hunks = Append(@, d.hunk), !.hunk = NoHunk]

\* A kept line ends the hunk when there are enough of them, or is held for the
\* next hunk, which begins with the last few.
KeptLine(d, entry) ==
  LET context == Append(d.context, entry)
      enough == Len(context) >= DiffContext
      grown == [d EXCEPT !.hunk.lines = Append(@, entry)]
  IN  IF d.hunk.lines # <<>>
      THEN IF enough THEN [FlushHunk(grown) EXCEPT !.context = <<>>]
                     ELSE [grown EXCEPT !.context = context]
      ELSE [d EXCEPT !.context = IF Len(context) > DiffContext THEN Tail(context) ELSE context]

ChangedLine(d, entry) ==
  LET begun == IF d.hunk.lines # <<>> THEN d.hunk
               ELSE [oldStart |-> d.oldLine - Len(d.context),
                     newStart |-> d.newLine - Len(d.context), lines |-> d.context]
  IN  [d EXCEPT !.hunk = [begun EXCEPT !.lines = Append(@, entry)], !.context = <<>>]

\* The pass before the first line, and after one more.
DiffStart == [oldLine |-> 1, newLine |-> 1, context |-> <<>>, hunk |-> NoHunk, hunks |-> <<>>]
DiffStep(d, entry) ==
  LET written == IF entry.sign = " " THEN KeptLine(d, entry) ELSE ChangedLine(d, entry)
  IN  [written EXCEPT !.oldLine = IF entry.sign = "+" THEN @ ELSE @ + 1,
                      !.newLine = IF entry.sign = "-" THEN @ ELSE @ + 1]

\* The hunks of the diff, with the lines at which they begin.
UnifiedDiff(old, new) ==
  LET script == EditScript(old, new)
      Done[k \in 0 .. Len(script)] == IF k = 0 THEN DiffStart ELSE DiffStep(Done[k - 1], script[k])
  IN  FlushHunk(Done[Len(script)]).hunks

-----------------------------------------------------------------------------
DiffsInit == compared = NothingCompared

TextsCompared ==
  /\ compared = NothingCompared
  /\ \E old, new \in DiffTexts : compared' = [old |-> old, new |-> new]

DiffsSpec == DiffsInit /\ [][TextsCompared]_compared

-----------------------------------------------------------------------------
(* What a diff is for.                                                     *)

LinesOf(entries) == [i \in DOMAIN entries |-> entries[i].line]

\* The text a reader gets who replaces, from the last hunk to the first, the
\* lines a hunk begins at.
Replaced(text, hunk) ==
  SubSeq(text, 1, hunk.oldStart - 1) \o LinesOf(NewSide(hunk.lines))
    \o SubSeq(text, hunk.oldStart + Len(OldSide(hunk.lines)), Len(text))
Patched(old, hunks) ==
  LET Text[k \in 0 .. Len(hunks)] ==
        IF k = 0 THEN old ELSE Replaced(Text[k - 1], hunks[Len(hunks) - k + 1])
  IN  Text[Len(hunks)]

\* The entries are the lines of the text from start on.
FitsAt(text, start, entries) ==
  /\ start + Len(entries) - 1 <= Len(text)
  /\ SubSeq(text, start, start + Len(entries) - 1) = LinesOf(entries)
InOrder(hunks) ==
  \A k \in 1 .. Len(hunks) - 1 : hunks[k].oldStart + Len(OldSide(hunks[k].lines)) <= hunks[k + 1].oldStart

\* The hunks follow one another, fit where they say they begin, in both texts,
\* and make the new text of the old one.
DiffExplains(old, new) ==
  LET hunks == UnifiedDiff(old, new)
  IN  /\ InOrder(hunks)
      /\ \A k \in DOMAIN hunks :
           /\ FitsAt(old, hunks[k].oldStart, OldSide(hunks[k].lines))
           /\ FitsAt(new, hunks[k].newStart, NewSide(hunks[k].lines))
      /\ Patched(old, hunks) = new
=============================================================================
