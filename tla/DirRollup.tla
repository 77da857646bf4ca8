----------------------------- MODULE DirRollup -----------------------------
(***************************************************************************)
(* The rollup of a directory tree (src/src/graph/dir-merkle.ts): a hash    *)
(* for each directory, taken of its files and subdirectories, so that a    *)
(* directory whose hash is the one of the last scan need not be looked     *)
(* into.                                                                   *)
(*                                                                         *)
(* A path is a sequence of names.  A hash is the text it is taken of: two  *)
(* texts have two hashes.                                                  *)
(***************************************************************************)
EXTENDS Naturals, FiniteSets, Sequences

CONSTANTS Tree,     \* the paths of files that may be there
          Hashes,   \* their contents
          NotTracked

PathNames == UNION {{path[i] : i \in DOMAIN path} : path \in Tree}

ASSUME PathAssumption == IsFiniteSet(Tree) /\ Tree \subseteq Seq(PathNames) \ {<<>>}

VARIABLES before, after   \* the contents of the tree at two scans

dirVars == <<before, after>>

ParentDir(path) == SubSeq(path, 1, Len(path) - 1)
NameIn(path) == path[Len(path)]
Ancestors(path) == {SubSeq(path, 1, i) : i \in 0 .. Len(path) - 1}

\* The files of a scan, their directories, and what a directory has in it.
Tracked(content) == {f \in Tree : content[f] # NotTracked}
Dirs(content) == {<<>>} \cup UNION {Ancestors(f) : f \in Tracked(content)}
FilesIn(content, dir) == {f \in Tracked(content) : ParentDir(f) = dir}
SubDirs(content, dir) == {d \in Dirs(content) \ {<<>>} : ParentDir(d) = dir}

FileLines(content, dir) == {<<"file", NameIn(f), content[f]>> : f \in FilesIn(content, dir)}

\* Mistake: the hash of a directory leaves its subdirectories out.
RollupOfFiles(content) == [dir \in Dirs(content) |-> FileLines(content, dir)]

\* computeDirRollup: the hashes, the deepest directories first.
Rollup(content) ==
  LET Hash[dir \in Dirs(content)] ==
        FileLines(content, dir) \cup {<<"dir", NameIn(d), Hash[d]>> : d \in SubDirs(content, dir)}
  IN  Hash

\* diffDirRollups and makeSkippablePredicate
UnchangedDirs ==
  LET old == Rollup(before)
      new == Rollup(after)
  IN  {d \in Dirs(before) \cap Dirs(after) : old[d] = new[d]}
Skippable(path, unchanged) == Ancestors(path) \cap unchanged # {}

-----------------------------------------------------------------------------
DirsInit == before \in [Tree -> Hashes \cup {NotTracked}] /\ after = before

FileChanged(f) ==
  /\ \E h \in (Hashes \cup {NotTracked}) \ {after[f]} : after' = [after EXCEPT ![f] = h]
  /\ UNCHANGED before

DirsNext == \E f \in Tree : FileChanged(f)

DirsSpec == DirsInit /\ [][DirsNext]_dirVars

-----------------------------------------------------------------------------
(***************************************************************************)
(* A file may be skipped only if it has the content of the last scan, and  *)
(* a directory counts as unchanged exactly when everything below it is     *)
(* (dir-merkle.ts:7-9, 192-204), files that come and go included.          *)
(***************************************************************************)
SkipsOnlyUnchanged ==
  before # after =>
  LET unchanged == UnchangedDirs
  IN  /\ \A f \in Tracked(after) : Skippable(f, unchanged) => before[f] = after[f]
      /\ \A d \in Dirs(before) \cap Dirs(after) :
           d \in unchanged <=> \A f \in Tree : d \in Ancestors(f) => before[f] = after[f]
=============================================================================
