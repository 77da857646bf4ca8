----------------------------- MODULE ToolCalls -----------------------------
(***************************************************************************)
(* What a session knows of one file: its reads, which the delta-read hooks *)
(* answer with "unchanged" or a diff when they remember an earlier one     *)
(* (src/src/hooks/delta-read.ts); the patch tool, which compares, writes   *)
(* and renames (src/src/tools/patch.ts); the copies the harness takes      *)
(* before an edit and brings back on undo (src/src/harness/snapshot.ts);   *)
(* and everybody else who edits the file.                                  *)
(*                                                                         *)
(* The content of the file is a version; a version that returns keeps its  *)
(* number, and every write has a modification time of its own.  A large    *)
(* result reaches the hooks as a preview, because the archive runs first   *)
(* (src/src/hooks/tool-archive.ts).  MaxVersions bounds the versions,      *)
(* MaxWrites the writes, MaxReads the reads that run at a time.            *)
(***************************************************************************)
EXTENDS Naturals, Diffs

CONSTANTS MaxVersions, MaxWrites, MaxReads

\* The file has a version to begin with.
ASSUME ToolAssumption ==
  MaxVersions \in Nat \ {0} /\ MaxWrites \in Nat /\ MaxReads \in Nat

VARIABLES disk,      \* the file: version, 0 when missing, and its mtime
          cache,     \* sessionCaches of the session, for the file
          shown,     \* what the session was shown of the file
          reads,     \* read calls under way
          blurred,   \* the cache may not be what the session was shown
          patch,     \* the running patch call
          copy       \* the newest version the harness has copied, or 0

toolVars == <<disk, cache, shown, reads, blurred, patch, copy>>
readVars == <<cache, shown, reads, blurred>>

Versions == 1 .. MaxVersions
Parts == {"nothing", "whole", "part"}

\* A text: a version of the file, all of it or some lines.
Text == [version : 0 .. MaxVersions, part : Parts]
NoText == [version |-> 0, part |-> "nothing"]
Whole(v) == [version |-> v, part |-> "whole"]

Cached == [text : Text, mtime : 0 .. MaxWrites]
NotCached == [text |-> NoText, mtime |-> 0]

NoRead == [pc |-> "free", part |-> "whole", text |-> NoText, mtime |-> 0,
           base |-> NotCached, reply |-> "text"]
NoPatch == [pc |-> "free", base |-> 0]

ToolsInit ==
  /\ disk = [version |-> 1, mtime |-> 0]
  /\ cache = NotCached /\ shown = NoText
  /\ reads = [c \in 1 .. MaxReads |-> NoRead]
  /\ blurred = FALSE
  /\ patch = NoPatch
  /\ copy = 0

Alone(c) == \A d \in 1 .. MaxReads \ {c} : reads[d].pc = "free"

\* A write gives the file the version v, 0 deletes it; the result of a read
\* that still waits for its stat is older now.
Written(v) ==
  /\ disk.mtime < MaxWrites
  /\ disk' = [version |-> v, mtime |-> disk.mtime + 1]
  /\ blurred' = (blurred \/ \E c \in 1 .. MaxReads : reads[c].pc = "after")
  /\ UNCHANGED <<cache, shown, reads>>

Edited(v) ==
  /\ v # disk.version
  /\ Written(v)
  /\ UNCHANGED <<patch, copy>>

-----------------------------------------------------------------------------
(* The hooks around a read                                                 *)

\* The hook has nothing to say, and the tool runs.
Builtin(c) == [NoRead EXCEPT !.part = reads[c].part, !.pc = "builtin"]

\* A reply waits for the after hook; base is what it speaks of.
Pending(c, reply, text) ==
  [NoRead EXCEPT !.pc = "pending", !.reply = reply, !.text = text, !.base.text = reads[c].base.text]

\* The before hook looks the file up; a full cache drops an old entry first,
\* which may be the one.
ReadBegins(c, part, evicted) ==
  LET found == IF evicted THEN NotCached ELSE cache
  IN  /\ reads[c].pc = "free" /\ \A d \in 1 .. c - 1 : reads[d].pc # "free"
      /\ cache' = found
      /\ reads' = [reads EXCEPT ![c] = [NoRead EXCEPT !.part = part, !.base = found,
                     !.pc = IF found = NotCached THEN "builtin" ELSE "stat"]]
      /\ blurred' = (blurred \/ ~Alone(c))
      /\ UNCHANGED <<disk, shown, patch, copy>>

\* stat: the same time means the file is unchanged.
ReadStats(c) ==
  /\ reads[c].pc = "stat"
  /\ reads' = [reads EXCEPT ![c] =
       IF disk.version = 0 THEN Builtin(c)
       ELSE IF disk.mtime = reads[c].base.mtime
         THEN Pending(c, "unchanged", NoText)
         ELSE [@ EXCEPT !.pc = "diff", !.mtime = disk.mtime]]
  /\ UNCHANGED <<disk, cache, shown, blurred, patch, copy>>

\* A defect to check the property with: the diff is served and the cache
\* keeps the text the diff starts from.
ReadDiffsForgets(c, small) ==
  LET now == Whole(disk.version)
  IN  /\ reads[c].pc = "diff" /\ disk.version # 0
      /\ small => reads[c].base.text # now
      /\ reads' = [reads EXCEPT ![c] =
           IF small THEN Pending(c, "diff", now)
           ELSE Builtin(c)]
      /\ cache' = [reads[c].base EXCEPT !.mtime = reads[c].mtime]
      /\ UNCHANGED <<disk, shown, blurred, patch, copy>>

\* The file is read and compared with the text remembered.  A diff that is
\* small, and not empty, is the reply; in any case the cache holds the new
\* text, with the time of the stat.
ReadDiffs(c, small) ==
  LET now == Whole(disk.version)
  IN  /\ reads[c].pc = "diff" /\ disk.version # 0
      /\ small => reads[c].base.text # now
      /\ reads' = [reads EXCEPT ![c] =
           IF small THEN Pending(c, "diff", now)
           ELSE Builtin(c)]
      /\ cache' = [text |-> now, mtime |-> reads[c].mtime]
      /\ UNCHANGED <<disk, shown, blurred, patch, copy>>

\* The file is gone by now: the builtin tool is to say so.
ReadDiffFails(c) ==
  /\ reads[c].pc = "diff" /\ disk.version = 0
  /\ reads' = [reads EXCEPT ![c] = Builtin(c)]
  /\ UNCHANGED <<disk, cache, shown, blurred, patch, copy>>

\* The builtin tool reads the file: all of it, some lines, or so much that
\* only a preview is left.
ReadRuns(c, preview) ==
  /\ reads[c].pc = "builtin" /\ disk.version # 0
  /\ reads' = [reads EXCEPT ![c] = [NoRead EXCEPT !.pc = "after",
       !.text = [version |-> disk.version, part |-> IF preview THEN "part" ELSE reads[c].part]]]
  /\ UNCHANGED <<disk, cache, shown, blurred, patch, copy>>

\* It throws, and no after hook runs; the cache may hold what was not shown.
ReadThrows(c) ==
  /\ reads[c].pc = "builtin"
  /\ reads' = [reads EXCEPT ![c] = NoRead]
  /\ blurred' = (blurred \/ cache # NotCached)
  /\ UNCHANGED <<disk, cache, shown, patch, copy>>

\* The after hook puts the reply that waits in the place of the output.
ReadReplied(c) ==
  /\ reads[c].pc = "pending"
  /\ shown' = IF reads[c].reply = "diff" THEN reads[c].text ELSE shown
  /\ reads' = [reads EXCEPT ![c] = NoRead]
  /\ UNCHANGED <<disk, cache, blurred, patch, copy>>

\* Or it remembers the output, whatever part of the file it is, with the time
\* the file has now; a file that is gone is not remembered anew.
ReadRemembered(c) ==
  LET text == reads[c].text
  IN  /\ reads[c].pc = "after"
      /\ shown' = text
      /\ cache' = IF disk.version = 0 THEN cache ELSE [text |-> text, mtime |-> disk.mtime]
      /\ reads' = [reads EXCEPT ![c] = NoRead]
      /\ blurred' = \/ text.part = "part" \/ ~Alone(c)
                    \/ blurred /\ text.version # disk.version
                    \/ disk.version = 0 /\ cache # NotCached
      /\ UNCHANGED <<disk, patch, copy>>

-----------------------------------------------------------------------------
(* patch, and the copies of the harness                                    *)

\* toolBefore copies the file, then execute reads it.
PatchBegins ==
  /\ patch.pc = "free" /\ disk.version # 0
  /\ copy' = disk.version
  /\ patch' = [pc |-> "copied", base |-> 0]
  /\ UNCHANGED <<disk, readVars>>

\* Every anchor matches the line it names, or the call ends with an error.
PatchReads(matches) ==
  /\ patch.pc = "copied"
  /\ patch' = IF matches /\ disk.version # 0 THEN [pc |-> "anchored", base |-> disk.version] ELSE NoPatch
  /\ UNCHANGED <<disk, readVars, copy>>

\* The content is compared with what the anchors were checked against.
PatchCompares ==
  /\ patch.pc = "anchored"
  /\ patch' = IF disk.version = patch.base THEN [patch EXCEPT !.pc = "compared"] ELSE NoPatch
  /\ UNCHANGED <<disk, readVars, copy>>

\* The temporary file is written and renamed over the file, or that fails.
PatchRenames(v) ==
  /\ patch.pc = "compared" /\ v # patch.base
  /\ Written(v)
  /\ patch' = NoPatch
  /\ UNCHANGED copy

PatchFails ==
  /\ patch.pc = "compared"
  /\ patch' = NoPatch
  /\ UNCHANGED <<disk, readVars, copy>>

\* undo writes the newest copy back.
Undo ==
  /\ copy # 0
  /\ Written(copy)
  /\ UNCHANGED <<patch, copy>>

ToolsNext ==
  \/ \E v \in 0 .. MaxVersions : Edited(v)
  \/ \E c \in 1 .. MaxReads :
       \/ \E part \in {"whole", "part"}, evicted \in BOOLEAN : ReadBegins(c, part, evicted)
       \/ ReadStats(c) \/ ReadDiffFails(c) \/ ReadThrows(c) \/ ReadReplied(c) \/ ReadRemembered(c)
       \/ \E b \in BOOLEAN : ReadDiffs(c, b) \/ ReadRuns(c, b)
  \/ PatchBegins \/ PatchCompares \/ PatchFails \/ Undo
  \/ \E matches \in BOOLEAN : PatchReads(matches)
  \/ \E v \in Versions : PatchRenames(v)

ToolsSpec == ToolsInit /\ [][ToolsNext]_toolVars

-----------------------------------------------------------------------------
\* The state has the types of the code.
ToolsTypeOK ==
  /\ disk \in [version : 0 .. MaxVersions, mtime : 0 .. MaxWrites]
  /\ cache \in Cached /\ shown \in Text
  /\ reads \in [1 .. MaxReads -> [pc : {"free", "stat", "diff", "builtin", "pending", "after"},
                  part : Parts, text : Text, mtime : 0 .. MaxWrites, base : Cached,
                  reply : {"text", "unchanged", "diff"}]]
  /\ blurred \in BOOLEAN
  /\ patch \in [pc : {"free", "copied", "anchored", "compared"}, base : 0 .. MaxVersions]
  /\ copy \in 0 .. MaxVersions

\* What the session is told is right by what it was shown last.
RepliesSuffice ==
  \A c \in 1 .. MaxReads :
    reads[c].pc = "pending" /\ ~blurred =>
      /\ reads[c].reply = "unchanged" => shown.part = "whole" /\ shown = reads[c].base.text
      /\ reads[c].reply = "diff" => shown = reads[c].base.text

(***************************************************************************)
(* The short replies are enough (delta-read.ts:5-12, 285): "unchanged" is  *)
(* said only of the text the session was shown last, and a diff starts     *)
(* from that text, through edits and undos between the stat and the read,  *)
(* evictions and files that come and go; except where the state is         *)
(* blurred: after a partial or archived read, which is remembered as the   *)
(* whole file, an edit between a read and the stat after it, reads that    *)
(* overlap, and a read that fails after a large diff.  And the diff, where *)
(* one is served, leads from the one text to the other.                    *)
(***************************************************************************)
ReadsReplay ==
  RepliesSuffice /\ (compared # NothingCompared => DiffExplains(compared.old, compared.new))
=============================================================================
