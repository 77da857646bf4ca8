------------------------------- MODULE Chunks -------------------------------
(***************************************************************************)
(* How a file is cut for the embedding index: by the symbols the graph     *)
(* knows of it or by a number of lines, with pieces that are too long      *)
(* split, and small neighbours merged again                                *)
(* (src/src/runtime/embeddings/chunker.ts).                                *)
(*                                                                         *)
(* A line is its length, 0 when it is blank.  A chunk has the lines it     *)
(* says it has, "first" to "last", and the last line it really holds,      *)
(* "upto".  MaxLines, MaxLength, MaxSymbols bound the files; the sizes are *)
(* the code's parameters, CharsPerToken is 4 there.                        *)
(***************************************************************************)
EXTENDS Naturals, Sequences

CONSTANTS MaxLines, MaxLength, MaxSymbols,
          MaxChunkSize, LinesPerChunk, OverlapLines,
          MinChunkTokens, MaxChunkTokens, CharsPerToken

VARIABLE chunkedFile     \* the file and its symbols

\* With no lines in a chunk the loop of chunkByLines would not end.
ASSUME ChunkAssumption ==
  /\ MaxLength \in Nat /\ MaxLines \in Nat /\ MaxSymbols \in Nat
  /\ MaxChunkSize \in Nat /\ LinesPerChunk \in Nat \ {0} /\ OverlapLines \in Nat
  /\ MaxChunkTokens \in Nat /\ CharsPerToken \in Nat \ {0}

SymbolInfos == [startLine : 1 .. MaxLines + 1, endLine : 1 .. MaxLines + 1]

\* Symbols in the order of their first lines; those of an older version of
\* the file may lie behind its end.
SortedSymbols ==
  {s \in UNION {[1 .. n -> SymbolInfos] : n \in 0 .. MaxSymbols} :
    /\ \A i \in DOMAIN s : s[i].startLine <= s[i].endLine
    /\ \A i, j \in DOMAIN s : i <= j => s[i].startLine <= s[j].startLine}

NoFile == [lines |-> <<>>, symbols |-> <<>>]

Least(a, b) == IF a < b THEN a ELSE b
Larger(a, b) == IF a < b THEN b ELSE a

-----------------------------------------------------------------------------
(* Text                                                                    *)

\* The length of the lines from a to b with the newlines between them.
TextLength(lines, a, b) ==
  LET Sum[i \in a - 1 .. b] == IF i < a THEN 0 ELSE Sum[i - 1] + lines[i] + (IF i = a THEN 0 ELSE 1)
  IN  IF b < a THEN 0 ELSE Sum[b]

IsBlank(lines, a, b) == \A i \in a .. b : lines[i] = 0

\* splitIfNeeded: as many lines as fit, each with its newline, at least one.
SplitIfNeeded(lines, chunk) ==
  LET Fits(a, b) == TextLength(lines, a, b) + 1 <= MaxChunkSize
      Part(a) == CHOOSE b \in a .. chunk.upto :
                   /\ b = a \/ Fits(a, b)
                   /\ \A c \in b + 1 .. chunk.upto : ~Fits(a, c)
      Parts[a \in chunk.first .. chunk.upto + 1] ==
        IF a > chunk.upto THEN <<>>
        ELSE <<[first |-> a, last |-> Part(a), upto |-> Part(a)]>> \o Parts[Part(a) + 1]
  IN  IF TextLength(lines, chunk.first, chunk.upto) <= MaxChunkSize THEN <<chunk>>
      ELSE Parts[chunk.first]

\* Lines that no symbol has, unless they are blank.
Gap(lines, first, last) ==
  LET chunk == [first |-> first, last |-> last, upto |-> Least(last, Len(lines))]
  IN  IF first > last \/ IsBlank(lines, first, chunk.upto) THEN <<>> ELSE SplitIfNeeded(lines, chunk)

\* A defect to check the property with: only the rest behind the last symbol
\* is filled in.
ChunkBySymbolsForgets(lines, symbols) ==
  LET End(s) == Least(s.endLine, Len(lines))
      Done[k \in 0 .. Len(symbols)] ==
        IF k = 0 THEN [chunks |-> <<>>, lastEnd |-> 0]
        ELSE LET s == symbols[k]
             IN  [chunks |-> Done[k - 1].chunks
                    \o SplitIfNeeded(lines, [first |-> s.startLine, last |-> End(s), upto |-> End(s)]),
                  lastEnd |-> Larger(Done[k - 1].lastEnd, End(s))]
      all == Done[Len(symbols)]
  IN  all.chunks \o Gap(lines, all.lastEnd + 1, Len(lines))

\* chunkBySymbols: the gap before each symbol, the symbol, and the rest.
ChunkBySymbols(lines, symbols) ==
  LET End(s) == Least(s.endLine, Len(lines))
      Done[k \in 0 .. Len(symbols)] ==
        IF k = 0 THEN [chunks |-> <<>>, lastEnd |-> 0]
        ELSE LET s == symbols[k]
             IN  [chunks |-> Done[k - 1].chunks
                    \o Gap(lines, Done[k - 1].lastEnd + 1, s.startLine - 1)
                    \o SplitIfNeeded(lines, [first |-> s.startLine, last |-> End(s), upto |-> End(s)]),
                  lastEnd |-> Larger(Done[k - 1].lastEnd, End(s))]
      all == Done[Len(symbols)]
  IN  all.chunks \o Gap(lines, all.lastEnd + 1, Len(lines))

\* chunkByLines: pieces that overlap, each behind the one before.
ChunkByLines(lines) ==
  LET From[n \in 0 .. Len(lines)] ==
        LET i == Len(lines) - n          \* the lines before the next piece
            end == Least(i + LinesPerChunk, Len(lines))
            next == IF end <= i + OverlapLines THEN end ELSE end - OverlapLines
        IN  IF n = 0 THEN <<>> ELSE Gap(lines, i + 1, end) \o From[Len(lines) - next]
  IN  From[Len(lines)]

\* chunkFile
ChunkFile(file) == IF file.symbols = <<>> THEN ChunkByLines(file.lines)
                                          ELSE ChunkBySymbols(file.lines, file.symbols)

-----------------------------------------------------------------------------
(* rollupSmallChunks                                                       *)

\* The tokens of a chunk, rounded up.
Tokens(lines, chunk) ==
  (TextLength(lines, chunk.first, chunk.upto) + CharsPerToken - 1) \div CharsPerToken

\* Two neighbours of which one is small and which fit together.
Merges(lines, a, b) ==
  /\ a.last + 1 = b.first
  /\ Tokens(lines, a) < MinChunkTokens \/ Tokens(lines, b) < MinChunkTokens
  /\ Tokens(lines, a) + Tokens(lines, b) + 1 <= MaxChunkTokens

RollupSmallChunks(lines, chunks) ==
  LET Out[k \in 0 .. Len(chunks)] ==
        IF k = 0 THEN <<>>
        ELSE LET out == Out[k - 1]
                 tail == out[Len(out)]
             IN  IF out # <<>> /\ Merges(lines, tail, chunks[k])
                 THEN [out EXCEPT ![Len(out)] = [chunks[k] EXCEPT !.first = tail.first]]
                 ELSE Append(out, chunks[k])
  IN  Out[Len(chunks)]

-----------------------------------------------------------------------------
ChunksInit == chunkedFile = NoFile

\* A file comes to be indexed, with the symbols the graph has of it.
FileChunked ==
  /\ chunkedFile = NoFile
  /\ \E n \in 1 .. MaxLines : \E lines \in [1 .. n -> 0 .. MaxLength], symbols \in SortedSymbols :
       chunkedFile' = [lines |-> lines, symbols |-> symbols]

ChunksSpec == ChunksInit /\ [][FileChunked]_chunkedFile

(***************************************************************************)
(* Nothing of a file is lost for the search (chunker.ts:4-7, 236-240):     *)
(* every line that is not blank is in a chunk, however its symbols nest,   *)
(* overlap or are out of date, cut by symbols, by lines or merged again;   *)
(* and where the symbols lie inside the file, every chunk holds the lines  *)
(* it says, is no longer than allowed unless it is one line, and merging   *)
(* exceeds its limit nowhere.                                              *)
(***************************************************************************)
ChunksCover ==
  LET lines == chunkedFile.lines
      cut == ChunkFile(chunkedFile)
      merged == RollupSmallChunks(lines, cut)
      Covered(chunks) == \A i \in DOMAIN lines : lines[i] > 0 =>
                           \E k \in DOMAIN chunks : i \in chunks[k].first .. chunks[k].upto
  IN  /\ Covered(cut) /\ Covered(merged)
      /\ (\A k \in DOMAIN chunkedFile.symbols : chunkedFile.symbols[k].endLine <= Len(lines)) =>
           /\ \A k \in DOMAIN cut :
                /\ cut[k].first <= cut[k].last /\ cut[k].last = cut[k].upto
                /\ \/ TextLength(lines, cut[k].first, cut[k].upto) <= MaxChunkSize
                   \/ cut[k].first = cut[k].last
           /\ \A k \in DOMAIN merged :
                \/ \E j \in DOMAIN cut : cut[j] = merged[k]
                \/ Tokens(lines, merged[k]) <= MaxChunkTokens
=============================================================================
