----------------------------- MODULE KeptProofs -----------------------------
(***************************************************************************)
(* What the plugin must not lose on its way: the rows of the key-value     *)
(* stores, the work of a loop that ends, the events of the telemetry, the  *)
(* language servers it started, the lines of a file that is indexed, the   *)
(* rows that a walk over the index should meet.                            *)
(***************************************************************************)
EXTENDS KvStore, LoopEnding, Telemetry, LspServers, Chunks, DirRollup, CallWalks,
        FiniteSetTheorems, SequenceTheorems, WellFoundedInduction, TLAPS

-----------------------------------------------------------------------------
(***************************************************************************)
(* The two key-value stores answer alike for every set of keys, lifetime   *)
(* and interval between cleanups.  StoresAgree is not inductive: it says   *)
(* nothing of the rows that neither store shows any more, and these differ *)
(* for as long as one store has deleted them and the other has not.  The   *)
(* invariant KvInv adds that rows that differ have both expired, and that  *)
(* a cleanup never works with a time that is still to come.                *)
(***************************************************************************)
\* Rows of the two stores that no read can tell apart now.
Alike(k) == rows[k] = map[k] \/ (rows[k].expires <= now /\ map[k].expires <= now)

KvInv ==
  /\ KvTypeOK
  /\ \A k \in KvKeys : Alike(k)
  /\ \A at \in cleanups : at <= now

LEMMA NoRowTyped == NoRow \in Row /\ NoRow.expires = 0
  BY KvAssumption DEF NoRow, Row

LEMMA KvInitInv == KvInit => KvInv
<1> SUFFICES ASSUME KvInit PROVE KvInv
  OBVIOUS
<1>1. KvTypeOK
  BY NoRowTyped, KvAssumption DEF KvInit, KvTypeOK
<1>2. \A k \in KvKeys : Alike(k)
  BY DEF KvInit, Alike
<1> QED
  BY <1>1, <1>2 DEF KvInit, KvInv

LEMMA KvNextInv == KvInv /\ [KvNext]_kvVars => KvInv'
<1> SUFFICES ASSUME KvInv, [KvNext]_kvVars PROVE KvInv'
  OBVIOUS
<1> USE KvAssumption
<1>1. CASE Tick
  <2>1. now' \in 1 .. MaxNow /\ now' = now + 1 /\ now \in Nat
    BY <1>1 DEF Tick, KvInv, KvTypeOK
  <2>2. KvTypeOK'
    BY <1>1, <2>1 DEF Tick, KvInv, KvTypeOK
  <2>3. \A k \in KvKeys : rows[k].expires \in Nat /\ map[k].expires \in Nat
    BY DEF KvInv, KvTypeOK, Row
  <2>4. \A k \in KvKeys : Alike(k)'
    BY <1>1, <2>1, <2>3 DEF Tick, KvInv, Alike
  <2>5. \A at \in cleanups' : at <= now'
    BY <1>1, <2>1 DEF Tick, KvInv, KvTypeOK
  <2> QED
    BY <2>2, <2>4, <2>5 DEF KvInv
<1>2. ASSUME NEW k \in KvKeys, NEW v \in Values, KvSet(k, v)
      PROVE  KvInv'
  <2> DEFINE row == [data |-> v, updated |-> now, expires |-> now + Ttl]
  <2>1. row \in Row
    BY DEF KvInv, KvTypeOK, Row
  <2>2. /\ rows' = [rows EXCEPT ![k] = row] /\ map' = [map EXCEPT ![k] = row]
        /\ now' = now
        /\ \/ lastCleanup' = now /\ cleanups' = cleanups \cup {now}
           \/ lastCleanup' = lastCleanup /\ cleanups' = cleanups
    BY <1>2 DEF KvSet
  <2>0. now \in 1 .. MaxNow /\ now <= now /\ now \in 0 .. MaxNow
    BY DEF KvInv, KvTypeOK
  <2> HIDE DEF row
  <2>3. KvTypeOK'
    BY <2>1, <2>2, <2>0 DEF KvInv, KvTypeOK
  <2>4. \A i \in KvKeys : Alike(i)'
    BY <2>2 DEF KvInv, KvTypeOK, Alike
  <2>5. \A at \in cleanups' : at <= now'
    BY <2>2, <2>0 DEF KvInv
  <2> QED
    BY <2>3, <2>4, <2>5 DEF KvInv
<1>3. ASSUME NEW k \in KvKeys, KvDelete(k)
      PROVE  KvInv'
  <2>1. KvTypeOK'
    BY <1>3, NoRowTyped DEF KvDelete, KvInv, KvTypeOK
  <2>2. \A i \in KvKeys : Alike(i)'
    BY <1>3 DEF KvDelete, KvInv, KvTypeOK, Alike
  <2> QED
    BY <1>3, <2>1, <2>2 DEF KvDelete, KvInv
<1>4. ASSUME NEW at \in cleanups, NEW locked \in BOOLEAN, Cleanup(at, locked)
      PROVE  KvInv'
  <2>1. /\ \A k \in KvKeys : \/ rows'[k] = rows[k]
                             \/ rows'[k] = NoRow /\ rows[k].expires < at
        /\ rows' \in [KvKeys -> Row]
    BY <1>4, NoRowTyped DEF Cleanup, KvInv, KvTypeOK
  <2>2. KvTypeOK'
    BY <1>4, <2>1 DEF Cleanup, KvInv, KvTypeOK
  <2>3. \A k \in KvKeys : Alike(k)'
    <3> SUFFICES ASSUME NEW k \in KvKeys, rows'[k] # rows[k] PROVE Alike(k)'
      BY <1>4 DEF Cleanup, KvInv, Alike
    <3>1. rows'[k].expires = 0 /\ rows[k].expires < at /\ at <= now
      BY <2>1, NoRowTyped DEF KvInv
    <3>2. at \in Nat /\ now \in Nat /\ rows[k].expires \in Nat /\ map[k].expires \in Nat
      BY DEF KvInv, KvTypeOK, Row
    <3>3. map[k].expires <= now
      BY <3>1, <3>2 DEF KvInv, Alike
    <3> QED
      BY <1>4, <3>1, <3>2, <3>3 DEF Cleanup, Alike
  <2> QED
    BY <1>4, <2>2, <2>3 DEF Cleanup, KvInv
<1>5. ASSUME NEW ks, KvRead(ks)
      PROVE  KvInv'
  <2>1. /\ \A k \in KvKeys : \/ map'[k] = map[k]
                             \/ map'[k] = NoRow /\ map[k].expires <= now
        /\ map' \in [KvKeys -> Row]
    BY <1>5, NoRowTyped DEF KvRead, Dropped, KvInv, KvTypeOK
  <2>2. KvTypeOK'
    BY <1>5, <2>1 DEF KvRead, KvInv, KvTypeOK
  <2>3. \A k \in KvKeys : Alike(k)'
    <3> SUFFICES ASSUME NEW k \in KvKeys, map'[k] # map[k] PROVE Alike(k)'
      BY <1>5 DEF KvRead, KvInv, Alike
    <3>1. map'[k].expires = 0 /\ map[k].expires <= now /\ now \in Nat
      BY <2>1, NoRowTyped DEF KvInv, KvTypeOK
    <3>2. rows[k].expires <= now
      BY <3>1 DEF KvInv, Alike
    <3> QED
      BY <1>5, <3>1, <3>2 DEF KvRead, Alike
  <2> QED
    BY <1>5, <2>2, <2>3 DEF KvRead, KvInv
<1>6. CASE UNCHANGED kvVars
  BY <1>6 DEF kvVars, KvInv, KvTypeOK, Alike
<1> QED
  BY <1>1, <1>2, <1>3, <1>4, <1>5, <1>6 DEF KvNext

\* A row whose time has come is shown by neither store, any other one by both.
LEMMA AlikeAgree == KvInv => StoresAgree
<1> SUFFICES ASSUME KvInv PROVE StoresAgree
  OBVIOUS
<1>1. \A k \in KvKeys : /\ DbVisible(k) <=> MapVisible(k)
                        /\ DbVisible(k) => rows[k] = map[k]
  <2>1. \A k \in KvKeys : rows[k].expires \in Nat /\ map[k].expires \in Nat /\ now \in Nat
    BY KvAssumption DEF KvInv, KvTypeOK, Row
  <2> QED
    BY <2>1 DEF KvInv, Alike, DbVisible, MapVisible
<1>2. \A k \in KvKeys : DbGet(k) = MapGet(k)
  BY <1>1 DEF DbGet, MapGet
<1>3. ASSUME NEW ks \in {KvKeys, Prefixed}
      PROVE  DbList(ks) = MapList(ks)
  <2>1. ks \subseteq KvKeys
    BY KvAssumption
  <2>2. {i \in ks : DbVisible(i)} = {i \in ks : MapVisible(i)}
    BY <1>1, <2>1
  <2> QED
    BY <1>1, <2>1, <2>2 DEF DbList, MapList
<1> QED
  BY <1>2, <1>3 DEF StoresAgree

(***************************************************************************)
(* "Contract is identical" (services/kv.ts:92-94) for every set of keys    *)
(* and every lifetime: at every moment the database and the map answer     *)
(* every get and every list alike.                                         *)
(***************************************************************************)
THEOREM StoresAlwaysAgree == KvSpec => []StoresAgree
<1>1. KvSpec => []KvInv
  BY KvInitInv, KvNextInv, PTL DEF KvSpec
<1> QED
  BY <1>1, AlikeAgree, PTL

-----------------------------------------------------------------------------
(***************************************************************************)
(* The end of a loop keeps the work, for every number of edits and of ends *)
(* that overlap.  What the invariant adds: as long as nothing has gone     *)
(* wrong, a cancelled loop stays inactive, its session stopped and its     *)
(* work committed from the abort on, so that the second removal, by        *)
(* loop-cancel, finds nothing to lose; and loop-cancel never goes unheard. *)
(***************************************************************************)
Ending == [pc : {"free", "aborting", "clearing", "stopping", "over"},
           reason : {"none", "cancelled"} \cup Interruptions \cup Verdicts, own : BOOLEAN]

EndingTypes ==
  /\ active \in BOOLEAN /\ mapping \in BOOLEAN
  /\ session \in {"works", "stopped"}
  /\ endings \in [Ends -> Ending]
  /\ cancelling \in [of : Ends \cup {0}, heard : {"nobody", "heard", "unheard", "over"}]
  /\ worktreeDir \in {"there", "removed"}

\* What is removed stays removed, and with nothing uncommitted in it.
RemovedEmpty ==
  /\ worktreeDir = "removed" => uncommitted = {}
  /\ \A e \in Ends : endings[e].pc = "clearing" => worktreeDir = "removed"
  /\ graphCache = "deleted" => worktreeDir = "removed"

\* The loop that a cancel waits for ends as a cancelled one.
CancelHeard ==
  cancelling.heard = "heard" =>
    /\ cancelling.of \in Ends
    /\ endings[cancelling.of].pc # "free" /\ endings[cancelling.of].reason = "cancelled"
    /\ ~active
    /\ endings[cancelling.of].pc # "aborting" => session = "stopped" /\ uncommitted = {}

EndingInv ==
  /\ EndingTypes /\ RemovedEmpty
  /\ lost # {} => excuse # {}
  /\ excuse = {} => /\ active => mapping
                    /\ cancelling.heard # "unheard"
                    /\ CancelHeard

-----------------------------------------------------------------------------
LEMMA EndingInvInit == EndingInit => EndingInv
<1> SUFFICES ASSUME EndingInit PROVE EndingInv
    OBVIOUS
<1>1. NoEnding \in Ending /\ NoEnding.pc = "free"
    BY DEF NoEnding, Ending
<1>2. /\ endings \in [Ends -> Ending]
      /\ \A e \in Ends : endings[e].pc = "free"
    BY <1>1 DEF EndingInit
<1>3. /\ cancelling.heard = "nobody"
      /\ cancelling \in [of : Ends \cup {0}, heard : {"nobody", "heard", "unheard", "over"}]
    BY DEF EndingInit, NoCancel
<1> QED
    BY <1>2, <1>3 DEF EndingInit, EndingInv, EndingTypes, RemovedEmpty, CancelHeard

LEMMA SessionEditsKeeps ==
    ASSUME EndingInv, SessionEdits
    PROVE  EndingInv'
    BY DEF EndingInv, EndingTypes, RemovedEmpty, CancelHeard, SessionEdits, aroundVars

LEMMA HandlerStartsKeeps ==
    ASSUME EndingInv, HandlerStarts
    PROVE  EndingInv'
    BY DEF EndingInv, EndingTypes, RemovedEmpty, CancelHeard, HandlerStarts, workVars, aroundVars

\* The present session has changed: who ends an older one does not own it.
LEMMA DisownedSame ==
    ASSUME endings \in [Ends -> Ending]
    PROVE  /\ Disowned \in [Ends -> Ending]
           /\ \A e \in Ends : /\ Disowned[e].pc = endings[e].pc
                              /\ Disowned[e].reason = endings[e].reason
    BY DEF Disowned, Ending

LEMMA HandlerGoesOnKeeps ==
    ASSUME EndingInv, NEW rotates \in BOOLEAN, HandlerGoesOn(rotates)
    PROVE  EndingInv'
<1>1. /\ endings' \in [Ends -> Ending]
      /\ \A e \in Ends : endings'[e].pc = endings[e].pc /\ endings'[e].reason = endings[e].reason
    BY DisownedSame DEF EndingInv, EndingTypes, HandlerGoesOn
<1>2. EndingTypes' /\ RemovedEmpty'
    BY <1>1 DEF EndingInv, EndingTypes, RemovedEmpty, HandlerGoesOn, workVars, aroundVars
<1>3. excuse' = {} => active /\ excuse = {}
    BY DEF HandlerGoesOn
<1>4. excuse' = {} => mapping' /\ cancelling'.heard # "unheard" /\ cancelling'.heard # "heard"
    BY <1>3 DEF EndingInv, EndingTypes, CancelHeard, HandlerGoesOn
<1>5. lost' # {} => excuse' # {}
    BY DEF EndingInv, HandlerGoesOn, workVars
<1> QED
    BY <1>2, <1>4, <1>5 DEF EndingInv, CancelHeard

LEMMA EndBeginsKeeps ==
    ASSUME EndingInv, NEW e \in Ends,
           NEW reason \in {"cancelled"} \cup Interruptions \cup Verdicts,
           EndBegins(e, reason), UNCHANGED excuse,
           \/ UNCHANGED cancelling
           \/ reason = "cancelled" /\ cancelling' = [of |-> e, heard |-> "heard"]
    PROVE  EndingInv'
<1>1. /\ endings' \in [Ends -> Ending]
      /\ endings'[e].pc = "aborting" /\ endings'[e].reason = reason /\ endings[e].pc = "free"
      /\ \A d \in Ends : d # e => endings'[d] = endings[d]
    BY DEF EndingInv, EndingTypes, EndBegins, Ending
<1>2. EndingTypes' /\ RemovedEmpty' /\ (lost' # {} => excuse' # {})
    <2>1. cancelling' \in [of : Ends \cup {0}, heard : {"nobody", "heard", "unheard", "over"}]
        BY DEF EndingInv, EndingTypes
    <2>2. EndingTypes'
        BY <1>1, <2>1 DEF EndingInv, EndingTypes, EndBegins, workVars
    <2>3. RemovedEmpty'
        BY <1>1 DEF EndingInv, RemovedEmpty, EndBegins, workVars, aroundVars
    <2> QED
        BY <2>2, <2>3 DEF EndingInv, EndBegins, workVars
<1>3. excuse' = {} => cancelling'.heard # "unheard" /\ CancelHeard'
    BY <1>1 DEF EndingInv, EndingTypes, CancelHeard, EndBegins, workVars
<1>4. ~active'
    BY DEF EndBegins
<1> QED
    BY <1>2, <1>3, <1>4 DEF EndingInv

LEMMA CancelCalledKeeps ==
    ASSUME EndingInv, NEW e \in Ends, CancelCalled(e)
    PROVE  EndingInv'
<1>1. CASE mapping
    BY <1>1, EndBeginsKeeps DEF CancelCalled
<1>2. CASE ~mapping
    BY <1>2 DEF CancelCalled, EndingInv, EndingTypes, RemovedEmpty, CancelHeard, workVars,
                aroundVars
<1> QED
    BY <1>1, <1>2

\* The call goes on.
LEMMA TurnsTo ==
    ASSUME endings \in [Ends -> Ending], NEW e \in Ends,
           NEW pc \in {"clearing", "stopping", "over"}
    PROVE  /\ Turns(e, pc) \in [Ends -> Ending]
           /\ Turns(e, pc)[e].pc = pc /\ Turns(e, pc)[e].reason = endings[e].reason
           /\ \A d \in Ends : d # e => Turns(e, pc)[d] = endings[d]
    BY DEF Turns, Ending

LEMMA EndAbortedKeeps ==
    ASSUME EndingInv, NEW e \in Ends, NEW stops \in BOOLEAN, NEW target \in LogTargets,
           NEW commits \in BOOLEAN, NEW removes \in BOOLEAN,
           EndAborted(e, stops, target, commits, removes)
    PROVE  EndingInv'
<1> DEFINE cleans == endings[e].reason \in {"completed", "cancelled"}
           gone == cleans /\ removes /\ worktreeDir = "there"
<1>1. PICK pc \in {"clearing", "stopping"} :
          endings' = Turns(e, pc) /\ (pc = "clearing" <=> gone)
    BY DEF EndAborted, Removed
<1>2. /\ endings' \in [Ends -> Ending] /\ endings[e].pc = "aborting"
      /\ endings'[e].pc = pc /\ endings'[e].reason = endings[e].reason
      /\ \A d \in Ends : d # e => endings'[d] = endings[d]
    BY <1>1, TurnsTo DEF EndingInv, EndingTypes, EndAborted
<1>3. /\ session' \in {"works", "stopped"} /\ (session = "stopped" => session' = "stopped")
      /\ worktreeDir' = IF gone THEN "removed" ELSE worktreeDir
      /\ uncommitted' \subseteq uncommitted
      /\ UNCHANGED <<active, mapping, cancelling, graphCache>>
    BY DEF EndingInv, EndingTypes, EndAborted, Removed
<1>4. gone => uncommitted' = {}
    BY DEF EndAborted, Removed
<1>5. EndingTypes' /\ RemovedEmpty'
    BY <1>1, <1>2, <1>3, <1>4 DEF EndingInv, EndingTypes, RemovedEmpty
<1>6. /\ excuse \subseteq excuse'
      /\ cleans /\ ~commits => excuse' # {}
      /\ session' = "works" => excuse' # {}
    BY DEF EndAborted
<1>7. cleans /\ commits /\ worktreeDir = "there" => uncommitted' = {} /\ lost' = lost
    BY DEF EndAborted, Committed
<1>8. ~gone => lost' = lost
    BY DEF EndAborted, Removed
<1>9. lost' # {} => excuse' # {}
    BY <1>6, <1>7, <1>8 DEF EndingInv
<1>10. ASSUME excuse' = {} PROVE /\ active' => mapping'
                                 /\ cancelling'.heard # "unheard"
                                 /\ CancelHeard'
    <2>1. excuse = {} /\ session' = "stopped" /\ (cleans => commits)
        BY <1>3, <1>6, <1>10
    <2>2. cleans => uncommitted' = {}
        BY <1>3, <1>7, <2>1 DEF EndingInv, EndingTypes, RemovedEmpty
    <2> QED
        BY <1>1, <1>2, <1>3, <2>1, <2>2 DEF EndingInv, CancelHeard
<1> QED
    BY <1>5, <1>9, <1>10 DEF EndingInv

LEMMA EndClearsKeeps ==
    ASSUME EndingInv, NEW e \in Ends, EndClears(e)
    PROVE  EndingInv'
<1>1. /\ endings' \in [Ends -> Ending] /\ endings[e].pc = "clearing"
      /\ endings'[e].pc = "stopping" /\ endings'[e].reason = endings[e].reason
      /\ \A d \in Ends : d # e => endings'[d] = endings[d]
    BY TurnsTo DEF EndingInv, EndingTypes, EndClears
<1> QED
    BY <1>1 DEF EndClears, EndingInv, EndingTypes, RemovedEmpty, CancelHeard, workVars

LEMMA EndFinishesKeeps ==
    ASSUME EndingInv, NEW e \in Ends, NEW stops \in BOOLEAN, EndFinishes(e, stops)
    PROVE  EndingInv'
<1>1. /\ endings' \in [Ends -> Ending] /\ endings[e].pc = "stopping"
      /\ endings'[e].pc = "over" /\ endings'[e].reason = endings[e].reason
      /\ \A d \in Ends : d # e => endings'[d] = endings[d]
    BY TurnsTo DEF EndingInv, EndingTypes, EndFinishes
<1> QED
    BY <1>1 DEF EndFinishes, EndingInv, EndingTypes, RemovedEmpty, CancelHeard, workVars

\* Whatever loop-cancel removes by force has been committed, or there is an excuse.
LEMMA CancelCleansKeeps ==
    ASSUME EndingInv, NEW removes \in BOOLEAN, CancelCleans(removes)
    PROVE  EndingInv'
<1>1. excuse = {} => uncommitted = {}
    BY DEF EndingInv, EndingTypes, CancelHeard, CancelCleans
<1>2. /\ cancelling' \in [of : Ends \cup {0}, heard : {"nobody", "heard", "unheard", "over"}]
      /\ cancelling'.heard = "over"
    BY DEF EndingInv, EndingTypes, CancelCleans
<1>3. lost' # {} => excuse' # {}
    BY <1>1 DEF EndingInv, CancelCleans
<1>4. EndingTypes' /\ RemovedEmpty'
    BY <1>2 DEF EndingInv, EndingTypes, RemovedEmpty, CancelCleans
<1> QED
    BY <1>2, <1>3, <1>4 DEF EndingInv, CancelHeard, CancelCleans

LEMMA LoopRestartsKeeps ==
    ASSUME EndingInv, LoopRestarts
    PROVE  EndingInv'
<1>1. /\ endings' \in [Ends -> Ending]
      /\ \A e \in Ends : endings'[e].pc = endings[e].pc
    BY DisownedSame DEF EndingInv, EndingTypes, LoopRestarts
<1> QED
    BY <1>1 DEF LoopRestarts, EndingInv, EndingTypes, RemovedEmpty, CancelHeard, NoCancel,
                workVars, aroundVars

LEMMA ProcessEndsKeeps ==
    ASSUME EndingInv, ProcessEnds
    PROVE  EndingInv'
<1>1. /\ endings' \in [Ends -> Ending]
      /\ \A e \in Ends : endings'[e].pc # "clearing"
    BY DEF EndingInv, EndingTypes, ProcessEnds, Ending, NoEnding
<1> QED
    BY <1>1 DEF ProcessEnds, EndingInv, EndingTypes, RemovedEmpty, CancelHeard, NoCancel,
                workVars, aroundVars

LEMMA EndingInvStep == EndingInv /\ [EndingNext]_endingVars => EndingInv'
<1> SUFFICES ASSUME EndingInv, [EndingNext]_endingVars PROVE EndingInv'
    OBVIOUS
<1>1. ASSUME NEW e \in Ends, NEW reason \in Verdicts, HandlerEnds(e, reason) PROVE EndingInv'
    BY <1>1, EndBeginsKeeps DEF HandlerEnds
<1>2. ASSUME NEW e \in Ends, NEW reason \in Interruptions, Interrupted(e, reason)
      PROVE  EndingInv'
    BY <1>2, EndBeginsKeeps DEF Interrupted
<1>3. CASE UNCHANGED endingVars
    BY <1>3 DEF endingVars, workVars, aroundVars, EndingInv, EndingTypes, RemovedEmpty,
                CancelHeard
<1> QED
    BY <1>1, <1>2, <1>3, SessionEditsKeeps, HandlerStartsKeeps, HandlerGoesOnKeeps,
       CancelCalledKeeps, EndAbortedKeeps, EndClearsKeeps, EndFinishesKeeps,
       CancelCleansKeeps, LoopRestartsKeeps, ProcessEndsKeeps DEF EndingNext

\* No end of a loop loses work by itself, and no worktree that is there loses
\* its graph cache, however the ends, the cancel, the handlers and restarts
\* overlap (hooks/loop.ts, terminateLoop; tools/loop.ts, loop-cancel).
THEOREM EndsKeepWork == EndingSpec => []WorkKept
<1>1. EndingInv => WorkKept
    BY DEF EndingInv, RemovedEmpty, WorkKept
<1> QED
    BY <1>1, EndingInvInit, EndingInvStep, PTL DEF EndingSpec

-----------------------------------------------------------------------------
(***************************************************************************)
(* No event is lost or counted twice, for every number of events and every *)
(* size of a batch.  An event is recorded once, so that it waits at most   *)
(* once, and one that no failed batch had is not in the table while it     *)
(* waits.                                                                  *)
(***************************************************************************)
Once(batch) == \A i, j \in DOMAIN batch : batch[i] = batch[j] => i = j

TelemetryInv ==
  /\ buffer \in Seq(Events) /\ Once(buffer) /\ ToSet(buffer) \subseteq recorded
  /\ eventRows \in [Events -> Nat]
  /\ recorded \subseteq Events
  /\ \A e \in Events : eventRows[e] > 0 => e \in recorded
  /\ EventsKept

LEMMA TimesOnce ==
    ASSUME NEW batch \in Seq(Events), Once(batch), NEW e
    PROVE  Times(e, batch) = IF e \in ToSet(batch) THEN 1 ELSE 0
<1> DEFINE at == {i \in DOMAIN batch : batch[i] = e}
<1>1. CASE e \in ToSet(batch)
    <2>1. PICK i \in DOMAIN batch : batch[i] = e
        BY <1>1 DEF ToSet
    <2>2. at = {i}
        BY <2>1 DEF Once
    <2> QED
        BY <1>1, <2>2, FS_Singleton DEF Times
<1>2. CASE e \notin ToSet(batch)
    <2>1. at = {}
        BY <1>2 DEF ToSet
    <2> QED
        BY <1>2, <2>1, FS_EmptySet DEF Times
<1> QED
    BY <1>1, <1>2

LEMMA FirstOnes ==
    ASSUME NEW batch \in Seq(Events), Once(batch), NEW n \in 0 .. Len(batch)
    PROVE  LET first == SubSeq(batch, 1, n)
           IN  /\ first \in Seq(Events) /\ Once(first)
               /\ ToSet(first) \subseteq ToSet(batch)
               /\ n = Len(batch) => ToSet(first) = ToSet(batch)
<1>1. PICK first : first = SubSeq(batch, 1, n)
    OBVIOUS
<1>2. /\ first \in Seq(Events) /\ DOMAIN first = 1 .. n
      /\ \A i \in 1 .. n : first[i] = batch[i]
    BY <1>1
<1>3. DOMAIN batch = 1 .. Len(batch) /\ Len(batch) \in Nat
    OBVIOUS
<1>4. Once(first)
    BY <1>2, <1>3 DEF Once
<1>5. \A s, x : x \in ToSet(s) <=> \E i \in DOMAIN s : x = s[i]
    BY DEF ToSet
<1>6. ToSet(first) \subseteq ToSet(batch)
    BY <1>2, <1>3, <1>5
<1>7. n = Len(batch) => ToSet(first) = ToSet(batch)
    BY <1>2, <1>3, <1>5
<1> QED
    BY <1>1, <1>2, <1>4, <1>6, <1>7

\* What a flush of a batch does for the events that are kept.
LEMMA FlushKeeps ==
    ASSUME TelemetryInv, NEW batch \in Seq(Events), Once(batch), FlushBatch(batch),
           recorded' = recorded \cup ToSet(batch), goneEvents' = goneEvents,
           ToSet(buffer) \subseteq ToSet(batch),
           \A e \in ToSet(batch) : e \in ToSet(buffer) \/ e \notin recorded
    PROVE  TelemetryInv'
<1>1. PICK n \in 0 .. Len(batch) :
        /\ eventRows' = Inserted(batch, n)
        /\ IF n = Len(batch) THEN buffer' = <<>> /\ UNCHANGED refused
           ELSE buffer' = batch /\ refused' = refused \cup ToSet(batch)
    BY DEF FlushBatch
<1>2. PICK first : first = SubSeq(batch, 1, n)
    OBVIOUS
<1>3. /\ first \in Seq(Events) /\ Once(first) /\ ToSet(first) \subseteq ToSet(batch)
      /\ n = Len(batch) => ToSet(first) = ToSet(batch)
    BY <1>2, FirstOnes
<1>4. \A e \in Events : eventRows'[e] = eventRows[e] + IF e \in ToSet(first) THEN 1 ELSE 0
    BY <1>1, <1>2, <1>3, TimesOnce DEF Inserted
<1>5. eventRows' \in [Events -> Nat]
    BY SMTT(30), <1>1, <1>2, <1>3, <1>4, TimesOnce DEF TelemetryInv, Inserted
<1>6. ToSet(batch) \subseteq Events
    BY DEF ToSet
<1>7. ToSet(<<>>) = {} /\ <<>> \in Seq(Events) /\ Once(<<>>)
    BY DEF ToSet, Once
<1>8. \A e : /\ Times(e, buffer) = IF e \in ToSet(buffer) THEN 1 ELSE 0
             /\ Times(e, batch) = IF e \in ToSet(batch) THEN 1 ELSE 0
             /\ Times(e, <<>>) = 0
    BY <1>7, TimesOnce DEF TelemetryInv
<1>9. buffer' \in Seq(Events) /\ Once(buffer') /\ ToSet(buffer') \subseteq ToSet(batch)
    BY <1>1, <1>7
<1>10. ASSUME NEW e \in recorded' \ goneEvents'
       PROVE  /\ e \in ToSet(buffer') \/ eventRows'[e] > 0
              /\ e \notin refused' => eventRows'[e] + Times(e, buffer') = 1
    <2>1. e \in Events
        BY <1>6 DEF TelemetryInv
    <2>2. CASE e \in ToSet(batch)
        <3>1. eventRows[e] \in Nat /\ (e \notin refused => eventRows[e] = 0)
            BY <1>8, <2>1, <2>2 DEF TelemetryInv, EventsKept
        <3>2. CASE n = Len(batch)
            <4>1. eventRows'[e] = eventRows[e] + 1 /\ buffer' = <<>> /\ refused' = refused
                BY <1>1, <1>3, <1>4, <2>1, <2>2, <3>2
            <4> QED
                BY <1>8, <3>1, <4>1
        <3>3. CASE n # Len(batch)
            BY <1>1, <2>2, <3>3
        <3> QED
            BY <3>2, <3>3
    <2>3. CASE e \notin ToSet(batch)
        <3>1. /\ e \in recorded \ goneEvents /\ e \notin ToSet(buffer) /\ e \notin ToSet(buffer')
              /\ eventRows'[e] = eventRows[e] /\ eventRows[e] \in Nat
            BY <1>3, <1>4, <1>9, <2>1, <2>3 DEF TelemetryInv
        <3>2. eventRows[e] > 0 /\ (e \notin refused => eventRows[e] = 1)
            BY <1>8, <3>1 DEF TelemetryInv, EventsKept
        <3>3. Times(e, buffer') = 0
            BY <1>1, <1>8, <2>3
        <3> QED
            BY <1>1, <3>1, <3>2, <3>3
    <2> QED
        BY <2>2, <2>3
<1>11. EventsKept'
    BY <1>10 DEF EventsKept
<1>12. \A e \in Events : eventRows'[e] > 0 => e \in recorded'
    BY <1>3, <1>4 DEF TelemetryInv
<1> QED
    BY <1>5, <1>6, <1>9, <1>11, <1>12 DEF TelemetryInv

LEMMA TelemetryInvInit == TelemetryInit => TelemetryInv
  BY DEF TelemetryInit, TelemetryInv, EventsKept, Once, ToSet

LEMMA RecordEventKeeps ==
    ASSUME TelemetryInv, NEW e \in Events \ recorded, RecordEvent(e)
    PROVE  TelemetryInv'
<1>1. PICK batch : batch = Append(buffer, e)
    OBVIOUS
<1>2. /\ batch \in Seq(Events) /\ DOMAIN batch = 1 .. Len(buffer) + 1
      /\ \A i \in 1 .. Len(buffer) : batch[i] = buffer[i]
      /\ batch[Len(buffer) + 1] = e /\ Len(buffer) \in Nat
      /\ DOMAIN buffer = 1 .. Len(buffer)
    BY <1>1 DEF TelemetryInv
<1>3. ToSet(batch) = ToSet(buffer) \cup {e}
    BY <1>2 DEF ToSet
<1>4. e \notin ToSet(buffer)
    BY DEF TelemetryInv
<1>5. Once(batch)
    <2>1. \A i \in 1 .. Len(buffer) : buffer[i] # e
        BY <1>2, <1>4 DEF ToSet
    <2>2. \A i, j \in 1 .. Len(buffer) : buffer[i] = buffer[j] => i = j
        BY <1>2 DEF TelemetryInv, Once
    <2>3. ASSUME NEW i \in DOMAIN batch, NEW j \in DOMAIN batch, batch[i] = batch[j]
          PROVE  i = j
        <3>1. i \in 1 .. Len(buffer) \/ i = Len(buffer) + 1
            BY <1>2
        <3>2. j \in 1 .. Len(buffer) \/ j = Len(buffer) + 1
            BY <1>2
        <3> QED
            BY <1>2, <2>1, <2>2, <2>3, <3>1, <3>2
    <2> QED
        BY <2>3 DEF Once
<1>6. CASE FlushBatch(batch)
    <2>1. recorded' = recorded \cup ToSet(batch)
        BY <1>3 DEF RecordEvent, TelemetryInv
    <2> QED
        BY <1>2, <1>3, <1>5, <1>6, <2>1, FlushKeeps DEF RecordEvent
<1>7. CASE buffer' = batch /\ UNCHANGED <<eventRows, refused>>
    <2>1. recorded' = recorded \cup {e} /\ goneEvents' = goneEvents
        BY DEF RecordEvent
    <2>2. \A d : /\ Times(d, buffer) = IF d \in ToSet(buffer) THEN 1 ELSE 0
                 /\ Times(d, batch) = IF d \in ToSet(batch) THEN 1 ELSE 0
        BY <1>2, <1>5, TimesOnce DEF TelemetryInv
    <2>3. eventRows[e] = 0
        BY DEF TelemetryInv
    <2>4. ASSUME NEW d \in recorded' \ goneEvents'
          PROVE  /\ d \in ToSet(buffer') \/ eventRows'[d] > 0
                 /\ d \notin refused' => eventRows'[d] + Times(d, buffer') = 1
        <3>1. CASE d = e
            BY <1>3, <1>7, <2>2, <2>3, <3>1
        <3>2. CASE d # e
            BY <1>3, <1>7, <2>1, <2>2, <3>2 DEF TelemetryInv, EventsKept
        <3> QED
            BY <3>1, <3>2
    <2>5. EventsKept'
        BY <2>4 DEF EventsKept
    <2>6. /\ eventRows' \in [Events -> Nat]
          /\ \A d \in Events : eventRows'[d] > 0 => d \in recorded'
        BY <1>7, <2>1 DEF TelemetryInv
    <2>7. buffer' \in Seq(Events) /\ Once(buffer') /\ ToSet(buffer') \subseteq recorded'
        BY <1>2, <1>3, <1>5, <1>7, <2>1 DEF TelemetryInv
    <2> QED
        BY <2>1, <2>5, <2>6, <2>7 DEF TelemetryInv
<1> QED
    BY <1>1, <1>6, <1>7 DEF RecordEvent

\* A cleanup removes rows of events that are gone from then on.
LEMMA StartKeeps == TelemetryInv /\ CollectorStarts => TelemetryInv'
<1> SUFFICES ASSUME TelemetryInv, CollectorStarts PROVE TelemetryInv'
    OBVIOUS
<1>1. UNCHANGED <<buffer, recorded, refused>>
    BY DEF CollectorStarts
<1>2. CASE UNCHANGED <<eventRows, goneEvents>>
    BY <1>1, <1>2 DEF TelemetryInv, EventsKept, Once
<1>3. ASSUME NEW old, eventRows' = Retained(old), goneEvents' = goneEvents \cup old
      PROVE  TelemetryInv'
    <2>1. /\ eventRows' \in [Events -> Nat]
          /\ \A e \in Events : eventRows'[e] = IF e \in old THEN 0 ELSE eventRows[e]
        BY <1>3 DEF Retained, TelemetryInv
    <2>2. EventsKept'
        BY <1>1, <1>3, <2>1 DEF EventsKept, TelemetryInv
    <2> QED
        BY <1>1, <2>1, <2>2 DEF TelemetryInv, Once
<1> QED
    BY <1>2, <1>3 DEF CollectorStarts

LEMMA EndKeeps == TelemetryInv /\ CollectorEnds => TelemetryInv'
<1> SUFFICES ASSUME TelemetryInv, CollectorEnds PROVE TelemetryInv'
    OBVIOUS
<1>1. /\ buffer' = <<>> /\ goneEvents' = goneEvents \cup ToSet(buffer)
      /\ UNCHANGED <<eventRows, recorded, refused>>
    BY DEF CollectorEnds
<1>2. /\ ToSet(<<>>) = {} /\ <<>> \in Seq(Events) /\ Once(<<>>)
    BY DEF ToSet, Once
<1>3. \A e : /\ Times(e, buffer) = IF e \in ToSet(buffer) THEN 1 ELSE 0
             /\ Times(e, <<>>) = 0
    BY <1>2, TimesOnce DEF TelemetryInv
<1>4. EventsKept'
    BY <1>1, <1>3 DEF EventsKept, TelemetryInv
<1> QED
    BY <1>1, <1>2, <1>4 DEF TelemetryInv

LEMMA TelemetryInvStep == TelemetryInv /\ [TelemetryNext]_telemetryVars => TelemetryInv'
<1> SUFFICES ASSUME TelemetryInv, [TelemetryNext]_telemetryVars PROVE TelemetryInv'
    OBVIOUS
<1>1. CASE UNCHANGED telemetryVars
    BY <1>1 DEF TelemetryInv, EventsKept, Once, telemetryVars
<1>2. ASSUME FlushBatch(buffer), UNCHANGED <<recorded, goneEvents>> PROVE TelemetryInv'
    <2>1. recorded' = recorded \cup ToSet(buffer)
        BY <1>2 DEF TelemetryInv
    <2> QED
        BY <1>2, <2>1, FlushKeeps DEF TelemetryInv
<1>3. CASE EventsFlushed
    BY <1>2, <1>3 DEF EventsFlushed
<1>4. CASE CollectorCloses
    <2>1. CASE UNCHANGED <<buffer, eventRows, refused, recorded, goneEvents>>
        BY <2>1 DEF TelemetryInv, EventsKept, Once
    <2> QED
        BY <1>2, <1>4, <2>1 DEF CollectorCloses
<1> QED
    BY <1>1, <1>3, <1>4, StartKeeps, EndKeeps, RecordEventKeeps DEF TelemetryNext

\* No event is lost but with its process, and none counts twice unless a batch
\* failed, in whatever order events, flushes, failures, closes and restarts come
\* (runtime/telemetry.ts:143-165).
THEOREM EventsAreKept == TelemetrySpec => []EventsKept
<1>1. TelemetryInv => EventsKept
    BY DEF TelemetryInv
<1> QED
    BY <1>1, TelemetryInvInit, TelemetryInvStep, PTL DEF TelemetrySpec

-----------------------------------------------------------------------------
(***************************************************************************)
(* ServersAccounted holds for every number of clients, of servers they     *)
(* start and of restarts. It is not inductive: what may be let go depends  *)
(* on who still remembers it. The invariant LspInv says that every server  *)
(* that runs is owned: by the pool, by a caller that has not finished      *)
(* starting it, or by the list of the strays; and that the clients are     *)
(* started one after the other, so that a new one is nobody's yet.         *)
(***************************************************************************)
Call == [pc : {"idle", "starting", "waiting"}, client : 0 .. MaxClients,
         entry : [client : 0 .. MaxClients, restarts : 0 .. MAX_RESTARTS]]

\* The clients are named in the order of their start.
StartedInOrder ==
  \E n \in 0 .. MaxClients : \A i \in Clients : servers[i] = "none" <=> i > n

\* A server that runs has an owner who will still decide about it.
Owned(i) ==
  \/ i = pooled.client \/ i \in strays
  \/ \E c \in Callers : callers[c].pc = "starting" /\ callers[c].client = i

LspInv ==
  /\ LspTypeOK
  /\ callers \in [Callers -> Call]
  /\ StartedInOrder
  /\ \A c \in Callers : callers[c].pc = "starting" => callers[c].client \in Clients
  /\ \A c \in Callers : callers[c].pc = "waiting" => Running(callers[c].client)
  /\ \A i \in Clients : Running(i) => Owned(i)

FirstFree(j) == servers[j] = "none" /\ \A k \in 1 .. j - 1 : servers[k] # "none"

LEMMA SomeFirstFree ==
  ASSUME LspInv, servers[MaxClients] = "none"
  PROVE  \E j \in Clients : FirstFree(j)
<1>1. PICK n \in 0 .. MaxClients : \A k \in Clients : servers[k] = "none" <=> k > n
  BY DEF LspInv, StartedInOrder
<1>2. MaxClients \in Clients /\ n + 1 \in Clients
  BY <1>1, LspAssumption DEF Clients
<1>3. FirstFree(n + 1)
  BY <1>1, <1>2, LspAssumption DEF Clients, FirstFree
<1> QED
  BY <1>2, <1>3

LEMMA OthersStarted ==
  ASSUME LspInv, NEW i \in Clients, FirstFree(i)
  PROVE  \A k \in Clients : servers[k] = "none" <=> k > i - 1
<1>1. PICK n \in 0 .. MaxClients : \A k \in Clients : servers[k] = "none" <=> k > n
  BY DEF LspInv, StartedInOrder
<1>2. i \in Nat /\ n \in Nat /\ i > n /\ i <= MaxClients
  BY <1>1, LspAssumption DEF Clients, FirstFree
<1>3. CASE i > n + 1
  <2>1. n + 1 \in 1 .. i - 1 /\ n + 1 \in Clients
    BY <1>2, <1>3, LspAssumption DEF Clients
  <2> QED
    BY <1>1, <1>2, <2>1 DEF FirstFree
<1>4. CASE i = n + 1
  <2>1. i - 1 = n
    BY <1>2, <1>4
  <2> QED
    BY <1>1, <2>1
<1> QED
  BY <1>2, <1>3, <1>4

LEMMA CallTyped ==
  ASSUME NEW i \in 0 .. MaxClients, NEW pc \in {"idle", "starting", "waiting"}
  PROVE  [Idle EXCEPT !.pc = pc, !.client = i] \in Call /\ Idle \in Call
<1>1. NotPooled \in [client : 0 .. MaxClients, restarts : 0 .. MAX_RESTARTS]
  BY LspAssumption DEF NotPooled
<1>2. Idle \in Call
  BY <1>1, LspAssumption DEF Idle, Call
<1> QED
  BY <1>2 DEF Call

LEMMA LspStep ==
  ASSUME LspInv, [LspNext]_lspVars
  PROVE  LspInv'
<1> USE LspAssumption
<1>1. ASSUME NEW c \in Callers, CallSent(c) PROVE LspInv'
  <2>1. LspTypeOK' /\ callers' \in [Callers -> Call]
    <3>1. LspTypeOK'
      BY SMTT(30), <1>1 DEF CallSent, ClientAlive, Idle, NotPooled, Clients, LspInv, LspTypeOK, Call
    <3>2. callers' \in [Callers -> Call]
      <4>1. pooled.client \in 0 .. MaxClients
        BY SMTT(30), <1>1 DEF CallSent, LspInv, LspTypeOK, Call
      <4>2. [Idle EXCEPT !.pc = "waiting", !.client = pooled.client] \in Call
        BY <4>1, CallTyped
      <4> QED
        BY <1>1, <4>2 DEF CallSent, LspInv
    <3> QED
      BY <3>1, <3>2
  <2>2. StartedInOrder'
    BY <1>1 DEF CallSent, ClientAlive, Idle, NotPooled, Clients, LspInv, LspTypeOK, StartedInOrder, Running
  <2>3. \A d \in Callers : callers'[d].pc = "starting" => callers'[d].client \in Clients
    BY <1>1 DEF CallSent, ClientAlive, Idle, NotPooled, Clients, LspInv, Call
  <2>4. \A d \in Callers : callers'[d].pc = "waiting" => servers'[callers'[d].client] = "running"
    BY <1>1 DEF CallSent, ClientAlive, Idle, NotPooled, Clients, LspInv, LspTypeOK, Call, Running
  <2>5. ASSUME NEW j \in Clients, Running(j)' PROVE Owned(j)'
    <3>1. Owned(j)
      BY <1>1, <2>5 DEF CallSent, ClientAlive, Idle, NotPooled, Clients, LspInv, LspTypeOK, Running
    <3> QED
      BY <1>1, <2>5, <3>1 DEF CallSent, ClientAlive, Idle, NotPooled, Clients, LspInv, LspTypeOK, Call, Running, Owned
  <2> QED
    BY <2>1, <2>2, <2>3, <2>4, <2>5 DEF LspInv, Running
<1>2. ASSUME NEW c \in Callers, StartEnds(c) PROVE LspInv'
  <2>1. LspTypeOK' /\ callers' \in [Callers -> Call]
    <3>1. LspTypeOK'
      BY ZenonT(30), <1>2 DEF StartEnds, Idle, NotPooled, Clients, LspInv, LspTypeOK, Call
    <3>2. callers' \in [Callers -> Call]
      <4>1. callers[c].client \in 0 .. MaxClients
        BY <1>2 DEF StartEnds, LspInv, LspTypeOK, Call
      <4>2. [Idle EXCEPT !.pc = "waiting", !.client = callers[c].client] \in Call
        BY <4>1, CallTyped
      <4> QED
        BY <1>2, <4>2 DEF StartEnds, LspInv
    <3> QED
      BY <3>1, <3>2
  <2>2. StartedInOrder'
    BY <1>2 DEF StartEnds, Idle, NotPooled, Clients, LspInv, LspTypeOK, StartedInOrder, Running
  <2>3. \A d \in Callers : callers'[d].pc = "starting" => callers'[d].client \in Clients
    BY <1>2 DEF StartEnds, Idle, NotPooled, Clients, LspInv, Call
  <2>4. \A d \in Callers : callers'[d].pc = "waiting" => servers'[callers'[d].client] = "running"
    BY <1>2 DEF StartEnds, Idle, NotPooled, Clients, LspInv, LspTypeOK, Call, Running
  <2>5. ASSUME NEW j \in Clients, Running(j)' PROVE Owned(j)'
    <3>1. Owned(j)
      BY <1>2, <2>5 DEF StartEnds, Idle, NotPooled, Clients, LspInv, LspTypeOK, Running
    <3> QED
      BY <1>2, <2>5, <3>1 DEF StartEnds, Idle, NotPooled, Clients, LspInv, LspTypeOK, Call, Running, Owned
  <2> QED
    BY <2>1, <2>2, <2>3, <2>4, <2>5 DEF LspInv, Running
<1>3. ASSUME NEW c \in Callers, StartFails(c) PROVE LspInv'
  <2>1. LspTypeOK' /\ callers' \in [Callers -> Call]
    <3>1. LspTypeOK'
      BY <1>3 DEF StartFails, Idle, NotPooled, Clients, LspInv, LspTypeOK, Call
    <3>2. callers' \in [Callers -> Call]
      BY <1>3 DEF StartFails, Idle, NotPooled, Clients, LspInv, LspTypeOK, Call
    <3> QED
      BY <3>1, <3>2
  <2>2. StartedInOrder'
    BY <1>3 DEF StartFails, Idle, NotPooled, Clients, LspInv, LspTypeOK, StartedInOrder, Running
  <2>3. \A d \in Callers : callers'[d].pc = "starting" => callers'[d].client \in Clients
    BY <1>3 DEF StartFails, Idle, NotPooled, Clients, LspInv, Call
  <2>4. \A d \in Callers : callers'[d].pc = "waiting" => servers'[callers'[d].client] = "running"
    BY <1>3 DEF StartFails, Idle, NotPooled, Clients, LspInv, LspTypeOK, Call, Running
  <2>5. ASSUME NEW j \in Clients, Running(j)' PROVE Owned(j)'
    <3>1. Owned(j)
      BY <1>3, <2>5 DEF StartFails, Idle, NotPooled, Clients, LspInv, LspTypeOK, Running
    <3> QED
      BY <1>3, <2>5, <3>1 DEF StartFails, Idle, NotPooled, Clients, LspInv, LspTypeOK, Call, Running, Owned
  <2> QED
    BY <2>1, <2>2, <2>3, <2>4, <2>5 DEF LspInv, Running
<1>4. ASSUME NEW c \in Callers, CallEnds(c) PROVE LspInv'
  <2>1. LspTypeOK' /\ callers' \in [Callers -> Call]
    <3>1. LspTypeOK'
      BY <1>4 DEF CallEnds, Idle, NotPooled, Clients, LspInv, LspTypeOK, Call
    <3>2. callers' \in [Callers -> Call]
      BY <1>4 DEF CallEnds, Idle, NotPooled, Clients, LspInv, LspTypeOK, Call
    <3> QED
      BY <3>1, <3>2
  <2>2. StartedInOrder'
    BY <1>4 DEF CallEnds, Idle, NotPooled, Clients, LspInv, LspTypeOK, StartedInOrder, Running
  <2>3. \A d \in Callers : callers'[d].pc = "starting" => callers'[d].client \in Clients
    BY <1>4 DEF CallEnds, Idle, NotPooled, Clients, LspInv, Call
  <2>4. \A d \in Callers : callers'[d].pc = "waiting" => servers'[callers'[d].client] = "running"
    BY <1>4 DEF CallEnds, Idle, NotPooled, Clients, LspInv, LspTypeOK, Call, Running
  <2>5. ASSUME NEW j \in Clients, Running(j)' PROVE Owned(j)'
    <3>1. Owned(j)
      BY <1>4, <2>5 DEF CallEnds, Idle, NotPooled, Clients, LspInv, LspTypeOK, Running
    <3> QED
      BY <1>4, <2>5, <3>1 DEF CallEnds, Idle, NotPooled, Clients, LspInv, LspTypeOK, Call, Running, Owned
  <2> QED
    BY <2>1, <2>2, <2>3, <2>4, <2>5 DEF LspInv, Running
<1>5. ASSUME NEW c \in Callers, NEW kept \in 0 .. MAX_RESTARTS, NEW spawned \in BOOLEAN,
             StartClient(c, kept, spawned)
      PROVE  LspInv'
  <2> DEFINE i == CHOOSE j \in Clients : servers[j] = "none" /\ \A k \in 1 .. j - 1 : servers[k] # "none"
             entry == IF pooled.client = 0 THEN NotPooled ELSE [pooled EXCEPT !.restarts = kept + 1]
             state == IF spawned THEN "running" ELSE "failed"
  <2>1. /\ callers[c].pc = "idle" /\ entry.restarts <= MAX_RESTARTS
        /\ servers[MaxClients] = "none"
        /\ servers' = [servers EXCEPT ![i] = state]
        /\ clients' = [clients EXCEPT ![i].proc = TRUE]
        /\ pooled' = entry
        /\ callers' = [d \in Callers |->
             IF d = c THEN [pc |-> "starting", client |-> i, entry |-> entry]
             ELSE IF callers[d].pc = "starting" /\ callers[d].entry.client = pooled.client
               THEN [callers[d] EXCEPT !.entry = entry] ELSE callers[d]]
        /\ UNCHANGED <<closing, strays>>
    BY <1>5 DEF StartClient
  <2>2. /\ i \in Clients /\ servers[i] = "none"
        /\ \A k \in Clients : servers[k] = "none" <=> k > i - 1
    <3>1. i = CHOOSE j \in Clients : FirstFree(j)
      BY DEF FirstFree
    <3>2. i \in Clients /\ FirstFree(i)
      BY <2>1, <3>1, SomeFirstFree
    <3> HIDE DEF i
    <3> QED
      BY <3>2, OthersStarted DEF FirstFree
  <2> HIDE DEF i
  <2>3. entry \in [client : 0 .. MaxClients, restarts : 0 .. MAX_RESTARTS] /\ entry.client = pooled.client
    BY <2>1 DEF LspInv, LspTypeOK, NotPooled
  <2> HIDE DEF entry
  <2>4. state \in {"running", "failed"}
    OBVIOUS
  <2> HIDE DEF state
  <2>5a. LspTypeOK'
    <3>1. servers' \in [Clients -> {"none", "running", "failed", "exited"}]
      BY <2>1, <2>4 DEF LspInv, LspTypeOK
    <3>2. clients' \in [Clients -> [proc : BOOLEAN, initialized : BOOLEAN]]
      BY <2>1 DEF LspInv, LspTypeOK
    <3>3. \A d \in Callers : callers'[d].pc \in {"idle", "starting", "waiting"}
      BY <2>1 DEF LspInv, LspTypeOK, Call
    <3> QED
      BY <2>1, <2>3, <3>1, <3>2, <3>3 DEF LspInv, LspTypeOK
  <2>5b. \A d \in Callers : callers'[d] \in Call
    BY <2>1, <2>2, <2>3 DEF LspInv, Call, Clients
  <2>5. LspTypeOK' /\ callers' \in [Callers -> Call]
    BY <2>1, <2>5a, <2>5b
  <2>6. StartedInOrder'
    <3>1. \A k \in Clients : servers'[k] = "none" <=> k > i
      BY <2>1, <2>2, <2>4 DEF LspInv, LspTypeOK, Clients
    <3> QED
      BY <2>2, <3>1 DEF StartedInOrder, Clients
  <2>7. \A d \in Callers : callers'[d].pc = "starting" => callers'[d].client \in Clients
    BY <2>1, <2>2 DEF LspInv, Call
  <2>8. \A d \in Callers : d # c => callers'[d].pc = callers[d].pc /\ callers'[d].client = callers[d].client
    BY <2>1 DEF LspInv, Call
  <2>9. \A d \in Callers : callers'[d].pc = "waiting" => Running(callers[d].client)' /\ d # c
    BY <2>1, <2>2, <2>8 DEF LspInv, LspTypeOK, Running
  <2>10. ASSUME NEW k \in Clients, Running(k)' PROVE Owned(k)'
    <3>1. CASE k = i
      BY <2>1, <3>1 DEF Owned
    <3>2. CASE k # i
      <4>1. Owned(k)
        BY <2>1, <2>2, <2>10, <3>2 DEF LspInv, LspTypeOK, Running
      <4> QED
        BY <2>1, <2>3, <2>8, <4>1 DEF Owned
    <3> QED
      BY <3>1, <3>2
  <2> QED
    BY <2>5, <2>6, <2>7, <2>8, <2>9, <2>10 DEF LspInv, Running
<1>6. ASSUME NEW i \in Clients, ServerExits(i) PROVE LspInv'
  <2>1. LspTypeOK' /\ callers' \in [Callers -> Call]
    <3>1. LspTypeOK'
      BY <1>6 DEF ServerExits, Idle, NotPooled, Clients, LspInv, LspTypeOK, Call
    <3>2. callers' \in [Callers -> Call]
      BY <1>6 DEF ServerExits, Idle, NotPooled, Clients, LspInv, LspTypeOK, Call
    <3> QED
      BY <3>1, <3>2
  <2>2. StartedInOrder'
    BY <1>6 DEF ServerExits, Idle, NotPooled, Clients, LspInv, LspTypeOK, StartedInOrder, Running
  <2>3. \A d \in Callers : callers'[d].pc = "starting" => callers'[d].client \in Clients
    BY <1>6 DEF ServerExits, Idle, NotPooled, Clients, LspInv, Call
  <2>4. \A d \in Callers : callers'[d].pc = "waiting" => servers'[callers'[d].client] = "running"
    BY <1>6 DEF ServerExits, Idle, NotPooled, Clients, LspInv, LspTypeOK, Call, Running
  <2>5. ASSUME NEW j \in Clients, Running(j)' PROVE Owned(j)'
    <3>1. Owned(j)
      BY <1>6, <2>5 DEF ServerExits, Idle, NotPooled, Clients, LspInv, LspTypeOK, Running
    <3> QED
      BY <1>6, <2>5, <3>1 DEF ServerExits, Idle, NotPooled, Clients, LspInv, LspTypeOK, Call, Running, Owned
  <2> QED
    BY <2>1, <2>2, <2>3, <2>4, <2>5 DEF LspInv, Running
<1>7. CASE CloseBegins
  <2>1. LspTypeOK' /\ callers' \in [Callers -> Call]
    <3>1. LspTypeOK'
      BY <1>7 DEF CloseBegins, Clients, LspInv, LspTypeOK, Call
    <3>2. callers' \in [Callers -> Call]
      BY <1>7 DEF CloseBegins, Clients, LspInv, LspTypeOK, Call
    <3> QED
      BY <3>1, <3>2
  <2>2. StartedInOrder'
    BY <1>7 DEF CloseBegins, Clients, LspInv, LspTypeOK, StartedInOrder, Running
  <2>3. \A d \in Callers : callers'[d].pc = "starting" => callers'[d].client \in Clients
    BY <1>7 DEF CloseBegins, Clients, LspInv, Call
  <2>4. \A d \in Callers : callers'[d].pc = "waiting" => servers'[callers'[d].client] = "running"
    BY <1>7 DEF CloseBegins, Clients, LspInv, LspTypeOK, Call, Running
  <2>5. ASSUME NEW j \in Clients, Running(j)' PROVE Owned(j)'
    <3>1. Owned(j)
      BY <1>7, <2>5 DEF CloseBegins, Clients, LspInv, LspTypeOK, Running
    <3> QED
      BY <1>7, <2>5, <3>1 DEF CloseBegins, Clients, LspInv, LspTypeOK, Call, Running, Owned
  <2> QED
    BY <2>1, <2>2, <2>3, <2>4, <2>5 DEF LspInv, Running
<1>8. CASE StopEnds
  <2>1. LspTypeOK' /\ callers' \in [Callers -> Call]
    <3>1. LspTypeOK'
      <4>1. clients' \in [Clients -> [proc : BOOLEAN, initialized : BOOLEAN]]
        BY <1>8 DEF StopEnds, LspInv, LspTypeOK
      <4>2. closing' \in [pc : {"no", "stopping", "stopped"}, client : 0 .. MaxClients]
        BY <1>8 DEF StopEnds
      <4>3. strays' \subseteq Clients
        BY <1>8 DEF StopEnds, LspInv, LspTypeOK
      <4> QED
        BY <1>8, <4>1, <4>2, <4>3 DEF StopEnds, LspInv, LspTypeOK
    <3>2. callers' \in [Callers -> Call]
      BY <1>8 DEF StopEnds, Clients, LspInv, LspTypeOK, Call
    <3> QED
      BY <3>1, <3>2
  <2>2. StartedInOrder'
    BY <1>8 DEF StopEnds, Clients, LspInv, LspTypeOK, StartedInOrder, Running
  <2>3. \A d \in Callers : callers'[d].pc = "starting" => callers'[d].client \in Clients
    BY <1>8 DEF StopEnds, Clients, LspInv, Call
  <2>4. \A d \in Callers : callers'[d].pc = "waiting" => servers'[callers'[d].client] = "running"
    BY <1>8 DEF StopEnds, Clients, LspInv, LspTypeOK, Call, Running
  <2>5. ASSUME NEW j \in Clients, Running(j)' PROVE Owned(j)'
    <3>1. Owned(j)
      BY <1>8, <2>5 DEF StopEnds, Clients, LspInv, LspTypeOK, Running
    <3> QED
      BY <1>8, <2>5, <3>1 DEF StopEnds, Clients, LspInv, LspTypeOK, Call, Running, Owned
  <2> QED
    BY <2>1, <2>2, <2>3, <2>4, <2>5 DEF LspInv, Running
<1>9. CASE PoolCleared
  <2>1. LspTypeOK' /\ callers' \in [Callers -> Call]
    <3>1. LspTypeOK'
      <4>1. closing' \in [pc : {"no", "stopping", "stopped"}, client : 0 .. MaxClients]
        BY <1>9 DEF PoolCleared, NotClosing
      <4>2. pooled' \in [client : 0 .. MaxClients, restarts : 0 .. MAX_RESTARTS]
        BY <1>9 DEF PoolCleared, NotPooled
      <4>3. strays' \subseteq Clients
        BY <1>9 DEF PoolCleared, LspInv, LspTypeOK
      <4> QED
        BY <1>9, <4>1, <4>2, <4>3 DEF PoolCleared, LspInv, LspTypeOK
    <3>2. callers' \in [Callers -> Call]
      BY <1>9 DEF PoolCleared, NotPooled, NotClosing, Clients, LspInv, LspTypeOK, Call
    <3> QED
      BY <3>1, <3>2
  <2>2. StartedInOrder'
    BY <1>9 DEF PoolCleared, NotPooled, NotClosing, Clients, LspInv, LspTypeOK, StartedInOrder, Running
  <2>3. \A d \in Callers : callers'[d].pc = "starting" => callers'[d].client \in Clients
    BY <1>9 DEF PoolCleared, NotPooled, NotClosing, Clients, LspInv, Call
  <2>4. \A d \in Callers : callers'[d].pc = "waiting" => servers'[callers'[d].client] = "running"
    BY <1>9 DEF PoolCleared, NotPooled, NotClosing, Clients, LspInv, LspTypeOK, Call, Running
  <2>5. ASSUME NEW j \in Clients, Running(j)' PROVE Owned(j)'
    <3>1. Owned(j)
      BY <1>9, <2>5 DEF PoolCleared, NotPooled, NotClosing, Clients, LspInv, LspTypeOK, Running
    <3> QED
      BY <1>9, <2>5, <3>1 DEF PoolCleared, NotPooled, NotClosing, Clients, LspInv, LspTypeOK, Call, Running, Owned
  <2> QED
    BY <2>1, <2>2, <2>3, <2>4, <2>5 DEF LspInv, Running
<1>10. CASE UNCHANGED lspVars
  <2>1. LspTypeOK' /\ callers' \in [Callers -> Call]
    <3>1. LspTypeOK'
      BY <1>10 DEF lspVars, Clients, LspInv, LspTypeOK, Call
    <3>2. callers' \in [Callers -> Call]
      BY <1>10 DEF lspVars, Clients, LspInv, LspTypeOK, Call
    <3> QED
      BY <3>1, <3>2
  <2>2. StartedInOrder'
    BY <1>10 DEF lspVars, Clients, LspInv, LspTypeOK, StartedInOrder, Running
  <2>3. \A d \in Callers : callers'[d].pc = "starting" => callers'[d].client \in Clients
    BY <1>10 DEF lspVars, Clients, LspInv, Call
  <2>4. \A d \in Callers : callers'[d].pc = "waiting" => servers'[callers'[d].client] = "running"
    BY <1>10 DEF lspVars, Clients, LspInv, LspTypeOK, Call, Running
  <2>5. ASSUME NEW j \in Clients, Running(j)' PROVE Owned(j)'
    <3>1. Owned(j)
      BY <1>10, <2>5 DEF lspVars, Clients, LspInv, LspTypeOK, Running
    <3> QED
      BY <1>10, <2>5, <3>1 DEF lspVars, Clients, LspInv, LspTypeOK, Call, Running, Owned
  <2> QED
    BY <2>1, <2>2, <2>3, <2>4, <2>5 DEF LspInv, Running
<1> QED
  BY <1>1, <1>2, <1>3, <1>4, <1>5, <1>6, <1>7, <1>8, <1>9, <1>10 DEF LspNext

(***************************************************************************)
(* No server and no request is forgotten (lsp/pool.ts, lsp/client.ts): no  *)
(* caller waits for a process that has exited, and a process that runs is  *)
(* the pool's, is being started by a caller, or has strayed in one of the  *)
(* known ways.                                                             *)
(***************************************************************************)
THEOREM ServersAreAccounted == LspSpec => [](LspTypeOK /\ ServersAccounted)
<1>1. LspInit => LspInv
  <2> SUFFICES ASSUME LspInit PROVE LspInv
    OBVIOUS
  <2>1. StartedInOrder
    BY LspAssumption DEF LspInit, StartedInOrder, Clients
  <2> QED
    BY <2>1, LspAssumption DEF LspInit, LspInv, LspTypeOK, Call, Owned, Running, Idle, NotPooled, NotClosing, Clients
<1>2. LspInv /\ [LspNext]_lspVars => LspInv'
  BY LspStep
<1>3. LspInv => LspTypeOK /\ ServersAccounted
  BY DEF LspInv, ServersAccounted, Owned
<1> QED
  BY <1>1, <1>2, <1>3, PTL DEF LspSpec
-----------------------------------------------------------------------------
(***************************************************************************)
(* The cuts of a file cover it, for every file and every size.  The state  *)
(* holds any file; what has to be proved is what the loops of chunker.ts   *)
(* make of it, and these are recursive functions.  Recurses shows, by the  *)
(* least argument without a value, that such a function exists, and        *)
(* Inducts that what a step keeps holds at the end: SplitCovers for the    *)
(* pieces of a chunk, SymbolsCover and LinesCover for the two ways to cut, *)
(* each joining the cuts of neighbouring lines (CutsJoin), RollupCovers    *)
(* for the merging.                                                        *)
(***************************************************************************)
\* Every set of natural numbers has a least member.
LEMMA LeastOf ==
  ASSUME NEW T \in SUBSET Nat, T # {}
  PROVE  \E m \in T : \A y \in T : m <= y
<1>1. T \subseteq Nat
  OBVIOUS
<1>2. PICK m \in T : \A y \in T : ~(<<y, m>> \in OpToRel(<, Nat))
  BY <1>1, NatLessThanWellFounded, WFMin
<1>3. \A y \in T : ~(y < m)
  BY <1>1, <1>2 DEF OpToRel
<1> QED
  BY <1>1, <1>3

\* Induction up to n over the members of a set.
LEMMA Inducts ==
  ASSUME NEW n \in Nat, NEW T, 0 \in T, \A k \in 0 .. n - 1 : k \in T => k + 1 \in T
  PROVE  \A k \in 0 .. n : k \in T
<1> DEFINE Bad == {k \in 0 .. n : k \notin T}
<1>1. SUFFICES ASSUME Bad # {} PROVE FALSE
  OBVIOUS
<1>2. Bad \in SUBSET Nat
  OBVIOUS
<1>3. PICK m \in Bad : \A y \in Bad : m <= y
  <2> HIDE DEF Bad
  <2> QED
    BY <1>1, <1>2, LeastOf
<1>4. m # 0 /\ m - 1 \in 0 .. n - 1 /\ ~(m <= m - 1)
  OBVIOUS
<1>5. m - 1 \in T
  BY <1>3, <1>4
<1>6. m - 1 + 1 = m
  BY <1>4
<1> QED
  BY <1>4, <1>5, <1>6

\* A function with the given step from its value at a smaller argument.
Stepwise(n, S, s, jump, step) ==
  \E f \in [0 .. n -> S] : f[0] = s /\ \A k \in 1 .. n : f[k] = step[k][f[jump[k]]]

\* There is one.
LEMMA Recurses ==
  ASSUME NEW n \in Nat, NEW S, NEW s \in S,
         NEW jump \in [1 .. n -> Nat], \A k \in 1 .. n : jump[k] < k,
         NEW step \in [1 .. n -> [S -> S]]
  PROVE  Stepwise(n, S, s, jump, step)
<1> DEFINE T == {m \in 0 .. n : \E f \in [0 .. m -> S] :
                   f[0] = s /\ \A k \in 1 .. m : f[k] = step[k][f[jump[k]]]}
<1>1. 0 \in T
  <2> DEFINE g == [k \in 0 .. 0 |-> s]
  <2>1. g \in [0 .. 0 -> S] /\ g[0] = s /\ 0 \in 0 .. n
    OBVIOUS
  <2>2. \A k \in 1 .. 0 : g[k] = step[k][g[jump[k]]]
    OBVIOUS
  <2> QED
    BY <2>1, <2>2
<1>2. ASSUME NEW m \in 0 .. n - 1, m \in T PROVE m + 1 \in T
  <2>1. PICK f \in [0 .. m -> S] : f[0] = s /\ \A k \in 1 .. m : f[k] = step[k][f[jump[k]]]
    BY <1>2
  <2> DEFINE g == [k \in 0 .. m + 1 |-> IF k = m + 1 THEN step[m + 1][f[jump[m + 1]]] ELSE f[k]]
  <2>2. m + 1 \in 1 .. n /\ jump[m + 1] \in 0 .. m
    OBVIOUS
  <2>3. step[m + 1] \in [S -> S] /\ f[jump[m + 1]] \in S
    BY <2>2
  <2>4. step[m + 1][f[jump[m + 1]]] \in S
    BY <2>3
  <2>5. g \in [0 .. m + 1 -> S]
    BY <2>4
  <2>6. g[0] = s
    BY <2>1
  <2>7. ASSUME NEW k \in 1 .. m + 1 PROVE g[k] = step[k][g[jump[k]]]
    <3>1. jump[k] \in 0 .. k - 1
      BY <2>2
    <3>2. g[jump[k]] = f[jump[k]]
      BY <3>1
    <3> QED
      BY <2>1, <3>2
  <2>8. m + 1 \in 0 .. n
    BY <2>2
  <2>9. \E h \in [0 .. m + 1 -> S] : h[0] = s /\ \A k \in 1 .. m + 1 : h[k] = step[k][h[jump[k]]]
    <3> HIDE DEF g
    <3> QED
      BY <2>5, <2>6, <2>7
  <2> QED
    BY <2>8, <2>9
<1>3. \A k \in 0 .. n : k \in T
  <2> HIDE DEF T
  <2> QED
    BY <1>1, <1>2, Inducts
<1> QED
  BY <1>3 DEF Stepwise

\* The chunks of any file.
Chunk == [first : Nat \ {0}, last : Nat, upto : Nat]

\* The lines from a to b are added up one by one.
AddedUp(lines, a, b) ==
  \E sum \in [a - 1 .. b -> Nat] :
    /\ sum[a - 1] = 0
    /\ \A i \in a .. b : sum[i] = sum[i - 1] + lines[i] + (IF i = a THEN 0 ELSE 1)
    /\ TextLength(lines, a, b) = sum[b]

\* The recursive function of TextLength exists.
LEMMA TextLengthIs ==
  ASSUME NEW lines \in Seq(Nat), NEW a \in Nat \ {0}, NEW b \in Nat, a <= b, b <= Len(lines)
  PROVE  AddedUp(lines, a, b)
<1> DEFINE n == b - a + 1
           jump == [k \in 1 .. n |-> k - 1]
           step == [k \in 1 .. n |-> [v \in Nat |-> v + lines[a + k - 1] + (IF a + k - 1 = a THEN 0 ELSE 1)]]
<1>1. n \in Nat /\ jump \in [1 .. n -> Nat] /\ \A k \in 1 .. n : jump[k] < k
  OBVIOUS
<1>2. step \in [1 .. n -> [Nat -> Nat]]
  <2>1. \A k \in 1 .. n : lines[a + k - 1] \in Nat
    OBVIOUS
  <2> QED
    BY <2>1
<1>3. PICK f \in [0 .. n -> Nat] : f[0] = 0 /\ \A k \in 1 .. n : f[k] = step[k][f[jump[k]]]
  <2>1. Stepwise(n, Nat, 0, jump, step)
    <3>1. 0 \in Nat
      OBVIOUS
    <3> HIDE DEF n, jump, step
    <3> QED
      BY <1>1, <1>2, <3>1, Recurses, Zenon
  <2> QED
    BY <2>1 DEF Stepwise
<1> DEFINE Is(g) == g = [i \in a - 1 .. b |-> IF i < a THEN 0
                                               ELSE g[i - 1] + lines[i] + (IF i = a THEN 0 ELSE 1)]
           found == [i \in a - 1 .. b |-> f[i - (a - 1)]]
<1>4. Is(found)
  <2>1. ASSUME NEW i \in a .. b
        PROVE  found[i] = found[i - 1] + lines[i] + (IF i = a THEN 0 ELSE 1)
    <3>1. i - (a - 1) \in 1 .. n /\ a + (i - (a - 1)) - 1 = i /\ i - 1 \in a - 1 .. b
          /\ (i - (a - 1)) - 1 = i - 1 - (a - 1)
      OBVIOUS
    <3>2. f[i - (a - 1)] = step[i - (a - 1)][f[jump[i - (a - 1)]]]
      BY <1>3, <3>1
    <3>3. f[jump[i - (a - 1)]] = found[i - 1] /\ found[i - 1] \in Nat
      BY <3>1
    <3>4. step[i - (a - 1)][found[i - 1]] = found[i - 1] + lines[i] + (IF i = a THEN 0 ELSE 1)
      BY <3>1, <3>3
    <3> QED
      BY <3>2, <3>3, <3>4
  <2>2. \A i \in a - 1 .. b : i < a => i = a - 1 /\ found[i] = 0
    BY <1>3
  <2>3. \A i \in a - 1 .. b : ~(i < a) => i \in a .. b
    OBVIOUS
  <2>4. \A i \in a - 1 .. b : found[i] = IF i < a THEN 0
                      ELSE found[i - 1] + lines[i] + (IF i = a THEN 0 ELSE 1)
    BY <2>1, <2>2, <2>3
  <2> QED
    BY <2>4, Zenon
<1> DEFINE sum[i \in a - 1 .. b] == IF i < a THEN 0
                                    ELSE sum[i - 1] + lines[i] + (IF i = a THEN 0 ELSE 1)
<1>5. Is(sum)
  BY <1>4
<1>6. TextLength(lines, a, b) = sum[b]
  <2>1. ~(b < a)
    OBVIOUS
  <2> QED
    BY <2>1 DEF TextLength
<1>7. \A i \in a - 1 .. b : sum[i] = IF i < a THEN 0
                      ELSE sum[i - 1] + lines[i] + (IF i = a THEN 0 ELSE 1)
  <2> HIDE DEF sum
  <2> QED
    BY <1>5
<1> HIDE DEF sum
<1>8. \A k \in 0 .. n : k \in {j \in 0 .. n : sum[a - 1 + j] \in Nat}
  <2> DEFINE T == {j \in 0 .. n : sum[a - 1 + j] \in Nat}
  <2>1. 0 \in T
    BY SMTT(30), <1>7
  <2>2. ASSUME NEW k \in 0 .. n - 1, k \in T PROVE k + 1 \in T
    <3>1. a - 1 + (k + 1) \in a .. b /\ a - 1 + (k + 1) - 1 = a - 1 + k /\ k + 1 \in 0 .. n
      OBVIOUS
    <3>2. lines[a - 1 + (k + 1)] \in Nat /\ sum[a - 1 + k] \in Nat
      BY SMTT(30), <2>2, <3>1
    <3>3. sum[a - 1 + (k + 1)] = sum[a - 1 + k] + lines[a - 1 + (k + 1)]
                                  + (IF a - 1 + (k + 1) = a THEN 0 ELSE 1)
      BY <1>7, <3>1
    <3>4. sum[a - 1 + (k + 1)] \in Nat
      <4>1. PICK i \in a .. b : i = a - 1 + (k + 1)
        BY <3>1
      <4>2. PICK e \in Nat : e = IF a - 1 + (k + 1) = a THEN 0 ELSE 1
        OBVIOUS
      <4>3. sum[i] = sum[a - 1 + k] + lines[i] + e
        BY <3>3, <4>1, <4>2, Zenon
      <4>4. sum[i] \in Nat
        BY SMTT(30), <3>2, <4>1, <4>3
      <4> QED
        BY <4>1, <4>4
    <3> QED
      BY <3>1, <3>4
  <2> HIDE DEF T
  <2>3. \A k \in 0 .. n : k \in T
    BY <1>1, <2>1, <2>2, Inducts
  <2> QED
    BY <2>3 DEF T
<1>9. \A i \in a - 1 .. b : sum[i] \in Nat
  <2>1. \A i \in a - 1 .. b : i - (a - 1) \in 0 .. n /\ a - 1 + (i - (a - 1)) = i
    OBVIOUS
  <2> QED
    BY <1>8, <2>1
<1>10. sum = [i \in a - 1 .. b |-> sum[i]]
  BY <1>5
<1>11. sum \in [a - 1 .. b -> Nat]
  BY <1>9, <1>10
<1>12. sum[a - 1] = 0
  BY <1>7
<1>13. \A i \in a .. b : sum[i] = sum[i - 1] + lines[i] + (IF i = a THEN 0 ELSE 1)
  BY <1>7
<1> QED
  BY <1>6, <1>11, <1>12, <1>13 DEF AddedUp


\* A length is a number, and that of no lines is 0.
LEMMA TextLengthType ==
  ASSUME NEW lines \in Seq(Nat), NEW a \in Nat \ {0}, NEW b \in Nat, b <= Len(lines)
  PROVE  TextLength(lines, a, b) \in Nat /\ (b < a => TextLength(lines, a, b) = 0)
<1>1. CASE b < a
  BY <1>1 DEF TextLength
<1>2. CASE ~(b < a)
  <2>1. a <= b
    BY <1>2
  <2>2. PICK sum \in [a - 1 .. b -> Nat] : TextLength(lines, a, b) = sum[b]
    <3>1. AddedUp(lines, a, b)
      BY <2>1, TextLengthIs
    <3> QED
      BY <3>1, Zenon DEF AddedUp
  <2>3. b \in a - 1 .. b
    BY <2>1
  <2> QED
    BY <1>2, <2>2, <2>3
<1> QED
  BY <1>1, <1>2

\* Two neighbours have the length of both and a newline.
LEMMA TextLengthAdds ==
  ASSUME NEW lines \in Seq(Nat), NEW a \in Nat \ {0}, NEW b \in Nat, NEW c \in Nat,
         a <= b, b < c, c <= Len(lines)
  PROVE  TextLength(lines, a, c) = TextLength(lines, a, b) + TextLength(lines, b + 1, c) + 1
<1>1. PICK f \in [a - 1 .. c -> Nat] :
        /\ f[a - 1] = 0
        /\ \A i \in a .. c : f[i] = f[i - 1] + lines[i] + (IF i = a THEN 0 ELSE 1)
        /\ TextLength(lines, a, c) = f[c]
  <2>1. a <= c
    OBVIOUS
  <2>2. AddedUp(lines, a, c)
    BY <2>1, TextLengthIs
  <2> QED
    BY <2>2 DEF AddedUp
<1>2. PICK g \in [a - 1 .. b -> Nat] :
        /\ g[a - 1] = 0
        /\ \A i \in a .. b : g[i] = g[i - 1] + lines[i] + (IF i = a THEN 0 ELSE 1)
        /\ TextLength(lines, a, b) = g[b]
  <2>1. b <= Len(lines)
    OBVIOUS
  <2>2. AddedUp(lines, a, b)
    BY <2>1, TextLengthIs
  <2> QED
    BY <2>2 DEF AddedUp
<1>3. PICK h \in [b .. c -> Nat] :
        /\ h[b] = 0
        /\ \A i \in b + 1 .. c : h[i] = h[i - 1] + lines[i] + (IF i = b + 1 THEN 0 ELSE 1)
        /\ TextLength(lines, b + 1, c) = h[c]
  <2>1. b + 1 <= c /\ b + 1 \in Nat \ {0}
    OBVIOUS
  <2>2. PICK d \in Nat : d = b + 1 /\ d - 1 = b
    OBVIOUS
  <2>3. AddedUp(lines, d, c)
    BY <2>1, <2>2, TextLengthIs
  <2>4. PICK h \in [d - 1 .. c -> Nat] :
          /\ h[d - 1] = 0
          /\ \A i \in d .. c : h[i] = h[i - 1] + lines[i] + (IF i = d THEN 0 ELSE 1)
          /\ TextLength(lines, d, c) = h[c]
    BY <2>3, Zenon DEF AddedUp
  <2>5. h \in [b .. c -> Nat] /\ h[b] = 0
    BY <2>2, <2>4
  <2>6. /\ \A i \in b + 1 .. c : h[i] = h[i - 1] + lines[i] + (IF i = b + 1 THEN 0 ELSE 1)
        /\ TextLength(lines, b + 1, c) = h[c]
    BY <2>2, <2>4, Zenon
  <2> QED
    BY <2>5, <2>6, Zenon
<1>4. f[b] = g[b]
  <2> DEFINE n == b - a + 1
             T == {k \in 0 .. n : f[a - 1 + k] = g[a - 1 + k]}
  <2>1. 0 \in T /\ n \in Nat
    BY <1>1, <1>2
  <2>2. ASSUME NEW k \in 0 .. n - 1, k \in T PROVE k + 1 \in T
    <3>1. PICK i \in a .. b : i = a - 1 + (k + 1) /\ i - 1 = a - 1 + k /\ i \in a .. c
      OBVIOUS
    <3>2. f[i - 1] = g[i - 1]
      BY <2>2, <3>1
    <3>3. f[i] = g[i]
      <4>1. f[i] = f[i - 1] + lines[i] + (IF i = a THEN 0 ELSE 1)
        BY <1>1, <3>1
      <4>2. g[i] = g[i - 1] + lines[i] + (IF i = a THEN 0 ELSE 1)
        BY <1>2, <3>1
      <4> QED
        BY <3>2, <4>1, <4>2, Zenon
    <3>4. k + 1 \in 0 .. n
      OBVIOUS
    <3> QED
      BY <3>1, <3>3, <3>4
  <2>3. n \in T
    <3> HIDE DEF T
    <3>1. \A k \in 0 .. n : k \in T
      <4> HIDE DEF n
      <4> QED
        BY <2>1, <2>2, Inducts
    <3> QED
      BY <2>1, <3>1
  <2> QED
    BY <2>3
<1>5. f[c] = f[b] + h[c] + 1
  <2> DEFINE n == c - b - 1
             T == {k \in 0 .. n : f[b + 1 + k] = f[b] + h[b + 1 + k] + 1}
  <2>1. n \in Nat
    OBVIOUS
  <2>2. 0 \in T
    <3>1. b + 1 \in a .. c /\ b + 1 \in b + 1 .. c /\ b + 1 # a /\ b + 1 - 1 = b
      OBVIOUS
    <3>2. f[b + 1] = f[b + 1 - 1] + lines[b + 1] + 1
      BY <1>1, <3>1
    <3>3. h[b + 1] = h[b + 1 - 1] + lines[b + 1] + 0
      BY <1>3, <3>1
    <3>4. h[b] = 0 /\ f[b] \in Nat /\ lines[b + 1] \in Nat
      <4>1. b \in a - 1 .. c /\ b + 1 \in 1 .. Len(lines)
        OBVIOUS
      <4>2. lines[b + 1] \in Nat
        BY <4>1, ElementOfSeq
      <4> QED
        BY <1>3, <4>1, <4>2
    <3>5. f[b + 1] = f[b] + h[b + 1] + 1
      <4>1. f[b + 1] = f[b] + lines[b + 1] + 1 /\ h[b + 1] = h[b] + lines[b + 1] + 0
        BY <3>1, <3>2, <3>3, Zenon
      <4>2. h[b + 1] = lines[b + 1]
        <5>1. PICK x \in Nat : x = lines[b + 1]
          BY <3>4
        <5>2. h[b] = 0 /\ h[b + 1] = h[b] + x + 0
          BY <3>4, <4>1, <5>1, Zenon
        <5>3. \A y : y = 0 => y + x + 0 = x
          OBVIOUS
        <5>4. h[b] + x + 0 = x
          BY <5>2, <5>3, Zenon
        <5> QED
          BY <5>1, <5>2, <5>4, Zenon
      <4> QED
        BY <4>1, <4>2, Zenon
    <3>6. b + 1 + 0 = b + 1
      OBVIOUS
    <3> QED
      BY <2>1, <3>5, <3>6
  <2>3. ASSUME NEW k \in 0 .. n - 1, k \in T PROVE k + 1 \in T
    <3>1. PICK i \in b + 2 .. c : i = b + 1 + (k + 1) /\ i - 1 = b + 1 + k /\ i # a /\ i # b + 1
                                  /\ i \in a .. c /\ i \in b + 1 .. c /\ k + 1 \in 0 .. n
      BY SMTT(30)
    <3>2. f[i - 1] = f[b] + h[i - 1] + 1
      BY <2>3, <3>1
    <3>3. f[i] = f[i - 1] + lines[i] + 1
      BY <1>1, <3>1
    <3>4. h[i] = h[i - 1] + lines[i] + 1
      BY <1>3, <3>1
    <3>5. f[b] \in Nat /\ h[i - 1] \in Nat /\ lines[i] \in Nat
      <4>1. b \in a - 1 .. c /\ i - 1 \in b .. c /\ i \in 1 .. Len(lines)
        BY <3>1
      <4>2. lines[i] \in Nat
        BY <4>1, ElementOfSeq
      <4> QED
        BY <4>1, <4>2
    <3>6. f[i] = f[b] + h[i] + 1
      <4>1. PICK x \in Nat, y \in Nat, z \in Nat : x = f[b] /\ y = h[i - 1] /\ z = lines[i]
        BY <3>5
      <4>2. f[i] = (x + y + 1) + z + 1 /\ h[i] = y + z + 1
        BY <3>2, <3>3, <3>4, <4>1, Zenon
      <4>3. f[i] = x + h[i] + 1
        BY <4>2
      <4> QED
        BY <4>1, <4>3
    <3> QED
      BY <3>1, <3>6
  <2>4. n \in T
    <3> HIDE DEF T
    <3>1. \A k \in 0 .. n : k \in T
      <4> HIDE DEF n
      <4> QED
        BY <2>1, <2>2, <2>3, Inducts
    <3> QED
      BY <2>1, <3>1
  <2>5. b + 1 + n = c
    OBVIOUS
  <2> QED
    BY <2>4, <2>5
<1> QED
  <2>1. f[b] \in Nat /\ h[c] \in Nat
    OBVIOUS
  <2> QED
    BY <1>1, <1>2, <1>3, <1>4, <1>5, <2>1

\* A bounded set of natural numbers has a greatest member.
LEMMA GreatestOf ==
  ASSUME NEW n \in Nat, NEW K \in SUBSET (0 .. n), K # {}
  PROVE  \E m \in K : \A k \in K : k <= m
<1> DEFINE T == {n - k : k \in K}
<1>1. T \in SUBSET Nat /\ T # {}
  <2>1. \A k \in K : k \in 0 .. n
    OBVIOUS
  <2>2. \A k \in K : n - k \in Nat
    BY <2>1
  <2> QED
    BY <2>2
<1>2. PICK t \in T : \A y \in T : t <= y
  <2> HIDE DEF T
  <2> QED
    BY <1>1, LeastOf
<1>3. PICK m \in K : t = n - m
  OBVIOUS
<1>4. \A k \in K : n - m <= n - k
  BY <1>2, <1>3
<1>5. \A k \in K : k <= m
  BY <1>4
<1> QED
  BY <1>5

\* The chunks of a sequence.
Members(chunks) == {chunks[k] : k \in DOMAIN chunks}

\* The members of sequences of chunks that are joined.
LEMMA MembersOf ==
  ASSUME NEW s \in Seq(Chunk), NEW t \in Seq(Chunk), NEW c \in Chunk
  PROVE  /\ s \o t \in Seq(Chunk) /\ Append(s, c) \in Seq(Chunk) /\ <<c>> \in Seq(Chunk)
         /\ Members(s \o t) = Members(s) \cup Members(t)
         /\ Members(Append(s, c)) = Members(s) \cup {c}
         /\ Members(<<c>>) = {c} /\ Members(<<>>) = {}
<1>1. /\ s \o t \in Seq(Chunk) /\ Append(s, c) \in Seq(Chunk) /\ <<c>> \in Seq(Chunk)
      /\ DOMAIN (s \o t) = 1 .. Len(s) + Len(t) /\ DOMAIN s = 1 .. Len(s) /\ DOMAIN t = 1 .. Len(t)
      /\ Len(s) \in Nat /\ Len(t) \in Nat
      /\ DOMAIN Append(s, c) = 1 .. Len(s) + 1
  OBVIOUS
<1>2. Members(s \o t) = Members(s) \cup Members(t)
  <2>1. ASSUME NEW k \in 1 .. Len(s) + Len(t)
        PROVE  (s \o t)[k] \in Members(s) \cup Members(t)
    <3>1. CASE k <= Len(s)
      BY <1>1, <3>1 DEF Members
    <3>2. CASE ~(k <= Len(s))
      <4>1. k - Len(s) \in 1 .. Len(t) /\ (s \o t)[k] = t[k - Len(s)]
        BY <1>1, <3>2
      <4> QED
        BY <1>1, <4>1 DEF Members
    <3> QED
      BY <3>1, <3>2
  <2>2. ASSUME NEW k \in 1 .. Len(s) PROVE s[k] \in Members(s \o t)
    <3>1. k \in 1 .. Len(s) + Len(t) /\ (s \o t)[k] = s[k]
      BY <1>1
    <3> QED
      BY <1>1, <3>1 DEF Members
  <2>3. ASSUME NEW k \in 1 .. Len(t) PROVE t[k] \in Members(s \o t)
    <3>1. Len(s) + k \in 1 .. Len(s) + Len(t) /\ (s \o t)[Len(s) + k] = t[k]
      BY <1>1
    <3> QED
      BY <1>1, <3>1 DEF Members
  <2>4. Members(s \o t) \subseteq Members(s) \cup Members(t)
    <3>1. \A m \in Members(s \o t) : \E k \in 1 .. Len(s) + Len(t) : m = (s \o t)[k]
      BY <1>1 DEF Members
    <3> QED
      BY <2>1, <3>1
  <2>5. Members(s) \cup Members(t) \subseteq Members(s \o t)
    <3>1. \A m \in Members(s) : \E k \in 1 .. Len(s) : m = s[k]
      BY <1>1 DEF Members
    <3>2. \A m \in Members(t) : \E k \in 1 .. Len(t) : m = t[k]
      BY <1>1 DEF Members
    <3> QED
      BY <2>2, <2>3, <3>1, <3>2
  <2> QED
    BY <2>4, <2>5
<1>3. Members(Append(s, c)) = Members(s) \cup {c}
  <2>1. \A k \in 1 .. Len(s) : Append(s, c)[k] = s[k]
    BY <1>1
  <2>2. Append(s, c)[Len(s) + 1] = c
    BY <1>1
  <2>3. Members(Append(s, c)) = {Append(s, c)[k] : k \in 1 .. Len(s) + 1}
    BY <1>1 DEF Members
  <2>4. Members(s) = {s[k] : k \in 1 .. Len(s)}
    BY <1>1 DEF Members
  <2> QED
    BY <1>1, <2>1, <2>2, <2>3, <2>4
<1>4. Members(<<c>>) = {c} /\ Members(<<>>) = {}
  BY DEF Members
<1> QED
  BY <1>1, <1>2, <1>3, <1>4

\* A line that some chunk holds.
Has(chunks, i) == \E c \in Members(chunks) : i \in c.first .. c.upto

\* A chunk lies where the file has lines, or begins behind its end.
PlacedIn(lines, c) ==
  /\ c \in Chunk /\ c.upto <= Len(lines) /\ c.upto <= c.last
  /\ c.first <= c.upto \/ c.upto = Len(lines)

\* A chunk inside the file, of the size it may have.
Sized(lines, c) ==
  /\ c.first <= c.last /\ c.last = c.upto
  /\ TextLength(lines, c.first, c.upto) <= MaxChunkSize \/ c.first = c.last

\* What the pieces of a chunk have to be.
PiecesOf(lines, chunk, pieces) ==
  /\ pieces \in Seq(Chunk)
  /\ \A c \in Members(pieces) : PlacedIn(lines, c)
  /\ chunk.first <= chunk.last /\ chunk.last = chunk.upto => \A c \in Members(pieces) : Sized(lines, c)
  /\ \A i \in chunk.first .. chunk.upto : Has(pieces, i)

\* Splitting a chunk loses no line of it, and what is cut of a chunk
\* inside the file has the size it may have.
LEMMA SplitCovers ==
  ASSUME NEW lines \in Seq(Nat), NEW chunk \in Chunk, PlacedIn(lines, chunk)
  PROVE  PiecesOf(lines, chunk, SplitIfNeeded(lines, chunk))
<1> DEFINE first == chunk.first
           upto == chunk.upto
           Fits(a, b) == TextLength(lines, a, b) + 1 <= MaxChunkSize
           Part(a) == CHOOSE b \in a .. chunk.upto :
                        /\ b = a \/ Fits(a, b)
                        /\ \A c \in b + 1 .. chunk.upto : ~Fits(a, c)
           Piece(a) == [first |-> a, last |-> Part(a), upto |-> Part(a)]
           Parts[a \in chunk.first .. chunk.upto + 1] ==
             IF a > chunk.upto THEN <<>>
             ELSE <<[first |-> a, last |-> Part(a), upto |-> Part(a)]>> \o Parts[Part(a) + 1]
<1>0. first \in Nat \ {0} /\ upto \in Nat /\ upto <= Len(lines) /\ chunk.last \in Nat
  BY DEF PlacedIn, Chunk
<1>1. CASE TextLength(lines, chunk.first, chunk.upto) <= MaxChunkSize
  <2>1. SplitIfNeeded(lines, chunk) = <<chunk>>
    BY <1>1 DEF SplitIfNeeded
  <2>2. <<chunk>> \in Seq(Chunk) /\ Members(<<chunk>>) = {chunk}
    <3>1. <<>> \in Seq(Chunk)
      OBVIOUS
    <3> QED
      BY <3>1, MembersOf
  <2>3. chunk.first <= chunk.last /\ chunk.last = chunk.upto => Sized(lines, chunk)
    BY <1>1 DEF Sized
  <2> QED
    BY <2>1, <2>2, <2>3 DEF PiecesOf, Has
<1>2. CASE ~(TextLength(lines, chunk.first, chunk.upto) <= MaxChunkSize)
  <2>1. first <= upto
    <3>1. SUFFICES ASSUME upto < first PROVE FALSE
      BY <1>0
    <3>2. TextLength(lines, first, upto) = 0
      BY <1>0, <3>1, TextLengthType
    <3> QED
      BY <1>2, <3>2, ChunkAssumption
  <2>2. SplitIfNeeded(lines, chunk) = Parts[chunk.first]
    BY <1>2 DEF SplitIfNeeded
  <2>3. ASSUME NEW a \in first .. upto
        PROVE  Part(a) \in a .. upto /\ (Part(a) = a \/ Fits(a, Part(a)))
    <3> DEFINE K == {b \in a .. upto : b = a \/ Fits(a, b)}
    <3> HIDE DEF Fits
    <3>1. K \in SUBSET (0 .. upto) /\ a \in K
      BY <1>0
    <3>2. PICK b \in K : \A k \in K : k <= b
      <4> HIDE DEF K
      <4> QED
        BY <1>0, <3>1, GreatestOf
    <3>3. b \in a .. upto /\ (b = a \/ Fits(a, b))
      OBVIOUS
    <3>4. ASSUME NEW c \in b + 1 .. upto, Fits(a, c) PROVE FALSE
      <4>1. c \in K /\ ~(c <= b)
        BY <1>0, <3>3, <3>4
      <4> QED
        BY <3>2, <4>1
    <3>5. \E d \in a .. chunk.upto : (d = a \/ Fits(a, d)) /\ \A c \in d + 1 .. chunk.upto : ~Fits(a, c)
      BY <3>3, <3>4
    <3> QED
      BY <3>5
  <2> DEFINE n == upto + 1 - first
             At(k) == upto + 1 - k
             jump == [k \in 1 .. n |-> upto - Part(At(k))]
             step == [k \in 1 .. n |-> [v \in Seq(Chunk) |-> <<Piece(At(k))>> \o v]]
  <2>4. n \in Nat /\ \A k \in 1 .. n : At(k) \in first .. upto
    BY <1>0, <2>1
  <2>5. ASSUME NEW a \in first .. upto
        PROVE  Piece(a) \in Chunk /\ PlacedIn(lines, Piece(a)) /\ Sized(lines, Piece(a))
    <3> HIDE DEF Part
    <3>1. PICK b \in a .. upto : b = Part(a) /\ (b = a \/ Fits(a, b))
      BY <2>3
    <3>2. Piece(a) = [first |-> a, last |-> b, upto |-> b]
      BY <3>1
    <3>3. Piece(a) \in Chunk /\ Piece(a).first = a /\ Piece(a).last = b /\ Piece(a).upto = b
      BY <1>0, <3>2 DEF Chunk
    <3>4. b \in Nat /\ b <= Len(lines) /\ a <= b /\ a \in Nat \ {0}
      BY <1>0
    <3>5. TextLength(lines, a, b) \in Nat
      BY <3>4, TextLengthType
    <3>6. b = a \/ TextLength(lines, a, b) <= MaxChunkSize
      BY <3>1, <3>5, ChunkAssumption
    <3> HIDE DEF Piece
    <3> QED
      BY <3>3, <3>4, <3>6 DEF PlacedIn, Sized
  <2>6. jump \in [1 .. n -> Nat] /\ \A k \in 1 .. n : jump[k] < k
    <3>1. ASSUME NEW k \in 1 .. n PROVE upto - Part(At(k)) \in Nat /\ upto - Part(At(k)) < k
      <4> HIDE DEF Part
      <4>1. Part(At(k)) \in At(k) .. upto /\ At(k) \in Nat
        BY <1>0, <2>3, <2>4
      <4> QED
        BY <1>0, <2>4, <4>1
    <3> HIDE DEF Part
    <3> QED
      BY <3>1
  <2>7. step \in [1 .. n -> [Seq(Chunk) -> Seq(Chunk)]]
    <3>1. ASSUME NEW k \in 1 .. n, NEW v \in Seq(Chunk) PROVE <<Piece(At(k))>> \o v \in Seq(Chunk)
      <4>1. Piece(At(k)) \in Chunk
        BY <2>4, <2>5
      <4> HIDE DEF Piece
      <4> QED
        BY <4>1, MembersOf
    <3> HIDE DEF Piece
    <3> QED
      BY <3>1
  <2>8. PICK f \in [0 .. n -> Seq(Chunk)] :
          f[0] = <<>> /\ \A k \in 1 .. n : f[k] = step[k][f[jump[k]]]
    <3>1. Stepwise(n, Seq(Chunk), <<>>, jump, step)
      <4>1. <<>> \in Seq(Chunk)
        OBVIOUS
      <4> HIDE DEF n, jump, step
      <4> QED
        BY <2>4, <2>6, <2>7, <4>1, Recurses, Zenon
    <3> HIDE DEF n, jump, step
    <3> QED
      BY <3>1, Zenon DEF Stepwise
  <2> DEFINE Is(g) == g = [a \in chunk.first .. chunk.upto + 1 |->
                             IF a > chunk.upto THEN <<>>
                             ELSE <<[first |-> a, last |-> Part(a), upto |-> Part(a)]>> \o g[Part(a) + 1]]
             found == [a \in chunk.first .. chunk.upto + 1 |-> f[upto + 1 - a]]
  <2>9. Is(found)
    <3>1. ASSUME NEW a \in first .. upto PROVE found[a] = <<Piece(a)>> \o found[Part(a) + 1]
      <4> HIDE DEF Part
      <4>1. PICK k \in 1 .. n : k = upto + 1 - a /\ At(k) = a
        <5>1. \A p, q \in Nat : \A x \in p .. q : q + 1 - x \in 1 .. q + 1 - p /\ q + 1 - (q + 1 - x) = x
          OBVIOUS
        <5>2. upto + 1 - a \in 1 .. n /\ At(upto + 1 - a) = a
          BY <1>0, <5>1
        <5> QED
          BY <5>2
      <4>2. Part(a) \in a .. upto
        BY <2>3
      <4>3. Part(a) + 1 \in first .. upto + 1 /\ upto + 1 - (Part(a) + 1) = upto - Part(a)
        BY SMTT(30), <1>0, <4>2
      <4>4. found[Part(a) + 1] = f[upto - Part(a)]
        BY <4>3
      <4>5. jump[k] = upto - Part(a) /\ jump[k] \in 0 .. n
        <5>1. jump[k] = upto - Part(At(k))
          OBVIOUS
        <5>2. jump[k] = upto - Part(a)
          BY <4>1, <5>1
        <5>3. \A p, q \in Nat : \A x \in p .. q : \A y \in x .. q : q - y \in 0 .. q + 1 - p
          OBVIOUS
        <5>4. upto - Part(a) \in 0 .. n
          BY <1>0, <4>2, <5>3
        <5> QED
          BY <5>2, <5>4
      <4>6. found[a] = f[k]
        BY <1>0, <4>1
      <4>7. f[k] = step[k][f[jump[k]]] /\ f[jump[k]] \in Seq(Chunk)
        BY <2>8, <4>5
      <4>8. step[k][f[jump[k]]] = <<Piece(a)>> \o f[jump[k]]
        <5> HIDE DEF Piece, jump
        <5> QED
          BY <4>1, <4>7
      <4> HIDE DEF step, jump, found, Piece
      <4> QED
        BY <4>4, <4>5, <4>6, <4>7, <4>8, Zenon
    <3>2. found[upto + 1] = <<>>
      <4>1. upto + 1 \in first .. upto + 1 /\ upto + 1 - (upto + 1) = 0
        BY <1>0, <2>1
      <4> QED
        BY <2>8, <4>1
    <3>3. \A a \in first .. upto + 1 : IF a > upto THEN a = upto + 1 ELSE a \in first .. upto
      BY <1>0
    <3>4. \A a \in chunk.first .. chunk.upto + 1 : found[a] =
             IF a > chunk.upto THEN <<>>
             ELSE <<[first |-> a, last |-> Part(a), upto |-> Part(a)]>> \o found[Part(a) + 1]
      <4>1. ASSUME NEW a \in first .. upto + 1
            PROVE  found[a] = IF a > upto THEN <<>> ELSE <<Piece(a)>> \o found[Part(a) + 1]
        <5>1. CASE a > upto
          <6>1. a = upto + 1
            BY <3>3, <5>1
          <6> HIDE DEF Part, Piece, found
          <6> QED
            BY <3>2, <5>1, <6>1
        <5>2. CASE ~(a > upto)
          <6>1. a \in first .. upto
            BY <1>0, <5>2
          <6> HIDE DEF Part, Piece, found
          <6> QED
            BY <3>1, <5>2, <6>1
        <5> HIDE DEF Part, Piece, found
        <5> QED
          BY <5>1, <5>2
      <4> HIDE DEF Part, found
      <4> QED
        BY <4>1, Zenon
    <3>5. found = [a \in chunk.first .. chunk.upto + 1 |-> found[a]]
      OBVIOUS
    <3> HIDE DEF found, Part
    <3> QED
      BY <3>4, <3>5
  <2>10. Is(Parts)
    <3> HIDE DEF Part
    <3> QED
      BY <2>9
  <2>11. /\ Parts[upto + 1] = <<>>
         /\ \A a \in first .. upto : Parts[a] = <<Piece(a)>> \o Parts[Part(a) + 1]
    <3> HIDE DEF Parts, Part
    <3>1. upto + 1 \in first .. upto + 1 /\ upto + 1 > upto
      BY <1>0, <2>1
    <3>2. \A a \in first .. upto : a \in first .. upto + 1 /\ ~(a > upto)
      BY <1>0
    <3> QED
      BY <2>10, <3>1, <3>2
  <2> DEFINE Good(a) == /\ Parts[a] \in Seq(Chunk)
                        /\ \A c \in Members(Parts[a]) : PlacedIn(lines, c) /\ Sized(lines, c)
                        /\ \A i \in a .. upto : Has(Parts[a], i)
             T == {k \in 0 .. n : \A j \in 0 .. k : Good(upto + 1 - j)}
  <2> HIDE DEF Parts, Part
  <2>12. Good(upto + 1)
    <3>1. Members(<<>>) = {} /\ <<>> \in Seq(Chunk)
      BY DEF Members
    <3>2. \A i \in upto + 1 .. upto : FALSE
      BY <1>0
    <3> QED
      BY <2>11, <3>1, <3>2
  <2>13. ASSUME NEW a \in first .. upto, Good(Part(a) + 1) PROVE Good(a)
    <3>1. Parts[a] = <<Piece(a)>> \o Parts[Part(a) + 1] /\ Part(a) \in a .. upto
      BY <2>3, <2>11
    <3>2. Piece(a) \in Chunk /\ PlacedIn(lines, Piece(a)) /\ Sized(lines, Piece(a))
      BY <2>5
    <3>3. Piece(a).first = a /\ Piece(a).upto = Part(a)
      OBVIOUS
    <3>4. /\ Parts[a] \in Seq(Chunk)
          /\ Members(Parts[a]) = {Piece(a)} \cup Members(Parts[Part(a) + 1])
      <4> HIDE DEF Piece
      <4>1. <<Piece(a)>> \in Seq(Chunk) /\ Members(<<Piece(a)>>) = {Piece(a)}
        BY <2>13, <3>2, MembersOf
      <4>2. Parts[Part(a) + 1] \in Seq(Chunk)
        BY <2>13 DEF Good
      <4>3. \A s, t \in Seq(Chunk) : s \o t \in Seq(Chunk) /\ Members(s \o t) = Members(s) \cup Members(t)
        BY <3>2, MembersOf
      <4> QED
        BY <3>1, <4>1, <4>2, <4>3
    <3>5. ASSUME NEW i \in a .. upto PROVE Has(Parts[a], i)
      <4> HIDE DEF Piece
      <4>1. CASE i <= Part(a)
        <5>1. i \in Piece(a).first .. Piece(a).upto
          BY <1>0, <3>1, <3>3, <4>1
        <5> QED
          BY <3>4, <5>1 DEF Has
      <4>2. CASE ~(i <= Part(a))
        <5>1. i \in Part(a) + 1 .. upto
          BY <1>0, <3>1, <4>2
        <5>2. Has(Parts[Part(a) + 1], i)
          BY <2>13, <5>1
        <5> QED
          BY <3>4, <5>2 DEF Has
      <4> QED
        BY <4>1, <4>2
    <3> HIDE DEF Piece
    <3> QED
      BY <2>13, <3>2, <3>4, <3>5
  <2> HIDE DEF Good
  <2>14. 0 \in T
    <3>1. \A j \in 0 .. 0 : upto + 1 - j = upto + 1
      BY <1>0
    <3> QED
      BY <2>4, <2>12, <3>1
  <2>15. ASSUME NEW k \in 0 .. n - 1, k \in T PROVE k + 1 \in T
    <3>1. PICK a \in first .. upto : a = upto + 1 - (k + 1)
      <4>1. \A p, q \in Nat : \A x \in 0 .. q + 1 - p - 1 : q + 1 - (x + 1) \in p .. q
        OBVIOUS
      <4>2. upto + 1 - (k + 1) \in first .. upto
        BY <1>0, <4>1
      <4> QED
        BY <4>2
    <3>2. Part(a) \in a .. upto
      BY <2>3
    <3>3. PICK j \in 0 .. k : upto + 1 - j = Part(a) + 1
      <4>1. upto - Part(a) \in 0 .. k /\ upto + 1 - (upto - Part(a)) = Part(a) + 1
        BY SMTT(30), <1>0, <3>1, <3>2
      <4> QED
        BY <4>1
    <3>4. Good(Part(a) + 1)
      BY <2>15, <3>3
    <3>5. Good(upto + 1 - (k + 1))
      BY <2>13, <3>1, <3>4
    <3>6. \A i \in 0 .. k + 1 : i \in 0 .. k \/ i = k + 1
      OBVIOUS
    <3>7. k + 1 \in 0 .. n
      BY <2>4
    <3> QED
      BY <2>15, <3>5, <3>6, <3>7
  <2>16. n \in T
    <3> HIDE DEF T
    <3>1. \A k \in 0 .. n : k \in T
      <4> HIDE DEF n
      <4> QED
        BY <2>4, <2>14, <2>15, Inducts
    <3> QED
      BY <2>4, <3>1
  <2>17. Good(first)
    <3>1. n \in 0 .. n /\ upto + 1 - n = first
      BY <1>0, <2>4
    <3> QED
      BY <2>16, <3>1
  <2> QED
    BY <2>2, <2>17 DEF Good, PiecesOf
<1> QED
  BY <1>1, <1>2

\* No line from a to b that is not blank is left out.
Covers(lines, chunks, a, b) == \A i \in a .. b : lines[i] > 0 => Has(chunks, i)

\* The chunks of some lines.
CutOf(lines, chunks, a, b) ==
  /\ chunks \in Seq(Chunk)
  /\ \A c \in Members(chunks) : PlacedIn(lines, c)
  /\ Covers(lines, chunks, a, b)

\* Every chunk has the size it may have.
AllSized(lines, chunks) == \A c \in Members(chunks) : Sized(lines, c)

\* The smaller and the larger of two numbers.
LEMMA LeastIs ==
  ASSUME NEW x \in Nat, NEW y \in Nat
  PROVE  /\ Least(x, y) \in Nat /\ Least(x, y) <= x /\ Least(x, y) <= y
         /\ (x <= y => Least(x, y) = x) /\ (y <= x => Least(x, y) = y)
         /\ Larger(x, y) \in Nat /\ x <= Larger(x, y) /\ y <= Larger(x, y)
         /\ Larger(x, y) = x \/ Larger(x, y) = y
BY DEF Least, Larger

\* The lines between two symbols.
LEMMA GapCovers ==
  ASSUME NEW lines \in Seq(Nat), NEW first \in Nat \ {0}, NEW last \in Nat
  PROVE  /\ CutOf(lines, Gap(lines, first, last), first, Least(last, Len(lines)))
         /\ last <= Len(lines) => AllSized(lines, Gap(lines, first, last))
<1> DEFINE upto == Least(last, Len(lines))
           chunk == [first |-> first, last |-> last, upto |-> Least(last, Len(lines))]
<1>0. Len(lines) \in Nat /\ upto \in Nat /\ upto <= last /\ upto <= Len(lines)
  <2>1. Len(lines) \in Nat
    OBVIOUS
  <2> QED
    BY <2>1, LeastIs
<1>1. CASE first > last \/ IsBlank(lines, first, upto)
  <2>1. Gap(lines, first, last) = <<>>
    BY <1>1 DEF Gap
  <2>2. <<>> \in Seq(Chunk) /\ Members(<<>>) = {}
    BY DEF Members
  <2>3. ASSUME NEW i \in first .. upto, lines[i] > 0 PROVE FALSE
    <3>1. ~(first > last)
      BY <1>0
    <3>2. lines[i] = 0
      BY <1>1, <3>1 DEF IsBlank
    <3> QED
      BY <2>3, <3>2
  <2> QED
    BY <2>1, <2>2, <2>3 DEF CutOf, Covers, AllSized
<1>2. CASE ~(first > last \/ IsBlank(lines, first, upto))
  <2>1. Gap(lines, first, last) = SplitIfNeeded(lines, chunk)
    BY <1>2 DEF Gap
  <2>2. chunk \in Chunk /\ chunk.first = first /\ chunk.last = last /\ chunk.upto = upto
    BY <1>0 DEF Chunk
  <2>3. PlacedIn(lines, chunk)
    <3>1. first <= last
      BY <1>2
    <3>2. first <= upto \/ upto = Len(lines)
      <4>1. upto = last \/ upto = Len(lines)
        BY <1>0 DEF Least
      <4> QED
        BY <1>0, <3>1, <4>1
    <3> HIDE DEF chunk, upto
    <3> QED
      BY <1>0, <2>2, <3>2 DEF PlacedIn
  <2>4. PiecesOf(lines, chunk, SplitIfNeeded(lines, chunk))
    BY <2>2, <2>3, SplitCovers
  <2>5. last <= Len(lines) => chunk.first <= chunk.last /\ chunk.last = chunk.upto
    <3>1. first <= last
      BY <1>2
    <3> QED
      BY <1>0, <2>2, <3>1, LeastIs
  <2> HIDE DEF chunk
  <2> QED
    BY <2>1, <2>2, <2>4, <2>5 DEF PiecesOf, CutOf, Covers, AllSized
<1> QED
  BY <1>1, <1>2

\* A symbol, up to the end of the file.
LEMMA SymbolCovers ==
  ASSUME NEW lines \in Seq(Nat), NEW first \in Nat \ {0}, NEW end \in Nat, first <= end,
         NEW upto, upto = Least(end, Len(lines))
  PROVE  /\ CutOf(lines, SplitIfNeeded(lines, [first |-> first, last |-> upto, upto |-> upto]), first, upto)
         /\ end <= Len(lines) =>
              AllSized(lines, SplitIfNeeded(lines, [first |-> first, last |-> upto, upto |-> upto]))
<1> DEFINE chunk == [first |-> first, last |-> upto, upto |-> upto]
<1>0. Len(lines) \in Nat /\ upto \in Nat /\ upto <= Len(lines)
  BY LeastIs
<1>1. chunk \in Chunk /\ chunk.first = first /\ chunk.last = upto /\ chunk.upto = upto
  BY <1>0 DEF Chunk
<1>2. PlacedIn(lines, chunk)
  <2>1. first <= upto \/ upto = Len(lines)
    <3>1. upto = end \/ upto = Len(lines)
      BY <1>0 DEF Least
    <3> QED
      BY <1>0, <3>1
  <2> HIDE DEF chunk
  <2> QED
    BY <1>0, <1>1, <2>1 DEF PlacedIn
<1>3. PiecesOf(lines, chunk, SplitIfNeeded(lines, chunk))
  BY <1>1, <1>2, SplitCovers
<1>4. end <= Len(lines) => chunk.first <= chunk.last /\ chunk.last = chunk.upto
  BY <1>0, <1>1, LeastIs
<1>5. /\ CutOf(lines, SplitIfNeeded(lines, chunk), first, upto)
      /\ end <= Len(lines) => AllSized(lines, SplitIfNeeded(lines, chunk))
  <2> HIDE DEF chunk
  <2> QED
    BY <1>1, <1>3, <1>4 DEF PiecesOf, CutOf, Covers, AllSized
<1> QED
  BY <1>5

\* Two cuts make one of the lines that either has.
LEMMA CutsJoin ==
  ASSUME NEW lines, NEW s, NEW t, NEW a \in Nat, NEW b \in Nat, NEW c \in Nat, NEW d \in Nat,
         NEW e \in Nat, NEW f \in Nat, CutOf(lines, s, a, b), CutOf(lines, t, c, d),
         \A i \in e .. f : i \in a .. b \/ i \in c .. d
  PROVE  /\ CutOf(lines, s \o t, e, f)
         /\ AllSized(lines, s) /\ AllSized(lines, t) => AllSized(lines, s \o t)
<1>1. s \in Seq(Chunk) /\ t \in Seq(Chunk)
  BY DEF CutOf
<1>2. s \o t \in Seq(Chunk) /\ Members(s \o t) = Members(s) \cup Members(t)
  <2>1. PICK x \in Chunk : TRUE
    <3>1. [first |-> 1, last |-> 1, upto |-> 1] \in Chunk
      BY DEF Chunk
    <3> QED
      BY <3>1
  <2> QED
    BY <1>1, <2>1, MembersOf
<1>3. ASSUME NEW i \in e .. f, lines[i] > 0 PROVE Has(s \o t, i)
  <2>1. Has(s, i) \/ Has(t, i)
    BY <1>3 DEF CutOf, Covers
  <2> QED
    BY <1>2, <2>1 DEF Has
<1> QED
  BY <1>2, <1>3 DEF CutOf, Covers, AllSized

\* What the graph tells of a file: symbols that end where they begin or later.
SymbolsOf(symbols) ==
  /\ symbols \in Seq([startLine : Nat \ {0}, endLine : Nat \ {0}])
  /\ \A k \in DOMAIN symbols : symbols[k].startLine <= symbols[k].endLine

\* However the symbols nest and overlap, no line that is not blank is left out.
LEMMA SymbolsCover ==
  ASSUME NEW lines \in Seq(Nat), NEW symbols, SymbolsOf(symbols)
  PROVE  /\ CutOf(lines, ChunkBySymbols(lines, symbols), 1, Len(lines))
         /\ (\A k \in DOMAIN symbols : symbols[k].endLine <= Len(lines)) =>
              AllSized(lines, ChunkBySymbols(lines, symbols))
<1> DEFINE N == Len(lines)
           n == Len(symbols)
           sane == \A k \in DOMAIN symbols : symbols[k].endLine <= Len(lines)
           End(s) == Least(s.endLine, Len(lines))
           Sym(s) == SplitIfNeeded(lines, [first |-> s.startLine, last |-> End(s), upto |-> End(s)])
           Before(last, s) == Gap(lines, last + 1, s.startLine - 1)
           S == [chunks : Seq(Chunk), lastEnd : Nat]
           jump == [k \in 1 .. n |-> k - 1]
           next(k, v) == [chunks |-> v.chunks \o Before(v.lastEnd, symbols[k]) \o Sym(symbols[k]),
                          lastEnd |-> Larger(v.lastEnd, End(symbols[k]))]
           step == [k \in 1 .. n |-> [v \in S |-> next(k, v)]]
           Done[k \in 0 .. Len(symbols)] ==
             IF k = 0 THEN [chunks |-> <<>>, lastEnd |-> 0]
             ELSE LET s == symbols[k]
                  IN  [chunks |-> Done[k - 1].chunks
                         \o Gap(lines, Done[k - 1].lastEnd + 1, s.startLine - 1)
                         \o SplitIfNeeded(lines, [first |-> s.startLine, last |-> End(s), upto |-> End(s)]),
                       lastEnd |-> Larger(Done[k - 1].lastEnd, End(s))]
<1>1. N \in Nat /\ n \in Nat /\ DOMAIN symbols = 1 .. n
  BY DEF SymbolsOf
<1>2. ASSUME NEW k \in 1 .. n
      PROVE  /\ symbols[k].startLine \in Nat \ {0} /\ symbols[k].endLine \in Nat
             /\ symbols[k].startLine <= symbols[k].endLine
             /\ End(symbols[k]) \in Nat /\ End(symbols[k]) <= N
  <2>1. symbols[k] \in [startLine : Nat \ {0}, endLine : Nat \ {0}]
    <3>1. symbols \in Seq([startLine : Nat \ {0}, endLine : Nat \ {0}]) /\ k \in 1 .. Len(symbols)
      BY DEF SymbolsOf
    <3> QED
      BY <3>1, ElementOfSeq
  <2>2. symbols[k].startLine \in Nat \ {0} /\ symbols[k].endLine \in Nat
    BY <2>1
  <2>3. End(symbols[k]) \in Nat /\ End(symbols[k]) <= N
    BY <1>1, <2>2, LeastIs
  <2> QED
    BY <1>1, <2>2, <2>3 DEF SymbolsOf
<1>3. ASSUME NEW k \in 1 .. n, NEW last \in Nat
      PROVE  /\ CutOf(lines, Before(last, symbols[k]), last + 1, Least(symbols[k].startLine - 1, N))
             /\ symbols[k].startLine - 1 <= N => AllSized(lines, Before(last, symbols[k]))
             /\ CutOf(lines, Sym(symbols[k]), symbols[k].startLine, End(symbols[k]))
             /\ symbols[k].endLine <= N => AllSized(lines, Sym(symbols[k]))
  <2>1. last + 1 \in Nat \ {0} /\ symbols[k].startLine - 1 \in Nat
    BY <1>2
  <2>2. /\ CutOf(lines, Before(last, symbols[k]), last + 1, Least(symbols[k].startLine - 1, N))
        /\ symbols[k].startLine - 1 <= N => AllSized(lines, Before(last, symbols[k]))
    BY <2>1, GapCovers
  <2>3. /\ CutOf(lines, Sym(symbols[k]), symbols[k].startLine, End(symbols[k]))
        /\ symbols[k].endLine <= N => AllSized(lines, Sym(symbols[k]))
    BY <1>2, SymbolCovers
  <2> QED
    BY <2>2, <2>3
<1>4. ASSUME NEW k \in 1 .. n, NEW v \in S PROVE next(k, v) \in S
  <2>1. v.chunks \in Seq(Chunk) /\ v.lastEnd \in Nat
    OBVIOUS
  <2>2. Before(v.lastEnd, symbols[k]) \in Seq(Chunk) /\ Sym(symbols[k]) \in Seq(Chunk)
    BY <1>3, <2>1 DEF CutOf
  <2>3. Larger(v.lastEnd, End(symbols[k])) \in Nat
    BY <1>2, <2>1, LeastIs
  <2> HIDE DEF Before, Sym, End
  <2>4. v.chunks \o Before(v.lastEnd, symbols[k]) \o Sym(symbols[k]) \in Seq(Chunk)
    BY <2>1, <2>2
  <2> QED
    BY <2>3, <2>4
<1>5. step \in [1 .. n -> [S -> S]] /\ jump \in [1 .. n -> Nat] /\ \A k \in 1 .. n : jump[k] < k
  <2>1. step \in [1 .. n -> [S -> S]]
    <3> HIDE DEF next, S
    <3> QED
      BY <1>4
  <2> QED
    BY <1>1, <2>1
<1>6. PICK f \in [0 .. n -> S] : f[0] = [chunks |-> <<>>, lastEnd |-> 0]
                                 /\ \A k \in 1 .. n : f[k] = step[k][f[jump[k]]]
  <2>1. [chunks |-> <<>>, lastEnd |-> 0] \in S
    OBVIOUS
  <2>2. Stepwise(n, S, [chunks |-> <<>>, lastEnd |-> 0], jump, step)
    <3> HIDE DEF n, S, jump, step
    <3> QED
      BY <1>1, <1>5, <2>1, Recurses, Zenon
  <2> HIDE DEF n, S, jump, step
  <2> QED
    BY <2>2, Zenon DEF Stepwise
<1>7. ASSUME NEW k \in 1 .. n PROVE f[k - 1] \in S /\ f[k] = next(k, f[k - 1])
  <2>1. jump[k] = k - 1 /\ k - 1 \in 0 .. n
    BY <1>1
  <2>2. f[k - 1] \in S
    BY <2>1
  <2>3. step[k][f[k - 1]] = next(k, f[k - 1])
    <3> HIDE DEF next, S
    <3> QED
      BY <2>2
  <2> HIDE DEF step, jump, next, S
  <2> QED
    BY <1>6, <2>1, <2>2, <2>3
<1> DEFINE Is(g) == g = [k \in 0 .. Len(symbols) |->
             IF k = 0 THEN [chunks |-> <<>>, lastEnd |-> 0]
             ELSE LET s == symbols[k]
                  IN  [chunks |-> g[k - 1].chunks
                         \o Gap(lines, g[k - 1].lastEnd + 1, s.startLine - 1)
                         \o SplitIfNeeded(lines, [first |-> s.startLine, last |-> End(s), upto |-> End(s)]),
                       lastEnd |-> Larger(g[k - 1].lastEnd, End(s))]]
<1>8. Is(f)
  <2>1. f = [k \in 0 .. Len(symbols) |-> f[k]]
    OBVIOUS
  <2>2. \A k \in 0 .. Len(symbols) : f[k] = IF k = 0 THEN [chunks |-> <<>>, lastEnd |-> 0]
                                            ELSE next(k, f[k - 1])
    <3> HIDE DEF next, S
    <3> QED
      BY <1>1, <1>6, <1>7
  <2> QED
    BY <2>1, <2>2, Zenon
<1>9. Is(Done)
  BY <1>8, Zenon
<1>10. /\ Done[0] = [chunks |-> <<>>, lastEnd |-> 0]
       /\ \A k \in 1 .. n : Done[k] = next(k, Done[k - 1])
  <2>1. \A k \in 0 .. n : Done[k] = IF k = 0 THEN [chunks |-> <<>>, lastEnd |-> 0]
                                    ELSE next(k, Done[k - 1])
    <3> HIDE DEF Done
    <3> QED
      BY <1>9, Zenon
  <2>2. 0 \in 0 .. n /\ \A k \in 1 .. n : k \in 0 .. n /\ k # 0
    BY <1>1
  <2> HIDE DEF Done, next
  <2> QED
    BY <2>1, <2>2
<1> HIDE DEF Done
<1> DEFINE Good(v) == /\ v \in S /\ v.lastEnd <= N
                      /\ CutOf(lines, v.chunks, 1, v.lastEnd)
                      /\ sane => AllSized(lines, v.chunks)
           T == {k \in 0 .. n : Good(Done[k])}
<1>11. 0 \in T
  <2>1. <<>> \in Seq(Chunk) /\ Members(<<>>) = {}
    BY DEF Members
  <2>2. \A i \in 1 .. 0 : FALSE
    OBVIOUS
  <2>3. CutOf(lines, <<>>, 1, 0) /\ AllSized(lines, <<>>)
    BY <2>1, <2>2 DEF CutOf, Covers, AllSized
  <2>4. 0 \in 0 .. n /\ Done[0] \in S /\ Done[0].chunks = <<>> /\ Done[0].lastEnd = 0 /\ 0 <= N
    BY <1>1, <1>10, <2>1
  <2> HIDE DEF sane, S
  <2> QED
    BY <2>3, <2>4
<1>12. ASSUME NEW k \in 1 .. n, NEW v, Good(v) PROVE Good(next(k, v))
  <2> DEFINE s == symbols[k]
             low == Least(s.startLine - 1, N)
             mid == Larger(v.lastEnd, low)
             end == Larger(v.lastEnd, End(s))
  <2>0. v \in S /\ v.lastEnd \in Nat /\ v.lastEnd <= N /\ s.startLine \in Nat \ {0} /\ s.endLine \in Nat
        /\ s.startLine <= s.endLine /\ End(s) \in Nat /\ End(s) <= N
    BY <1>2, <1>12
  <2>1. low \in Nat /\ mid \in Nat /\ end \in Nat /\ end <= N /\ s.startLine - 1 \in Nat
    <3>1. s.startLine - 1 \in Nat
      BY <2>0
    <3>2. low \in Nat
      BY <1>1, <3>1, LeastIs
    <3>3. mid \in Nat
      <4> HIDE DEF low
      <4> QED
        BY <2>0, <3>2, LeastIs
    <3>4. end \in Nat /\ end <= N
      <4>1. end = v.lastEnd \/ end = End(s)
        BY DEF Larger
      <4> HIDE DEF s, End, end
      <4> QED
        BY <2>0, <4>1
    <3> QED
      BY <3>1, <3>2, <3>3, <3>4
  <2>2. /\ CutOf(lines, Before(v.lastEnd, s), v.lastEnd + 1, low)
        /\ s.startLine - 1 <= N => AllSized(lines, Before(v.lastEnd, s))
    BY <1>3, <2>0
  <2>3. /\ CutOf(lines, Sym(s), s.startLine, End(s))
        /\ s.endLine <= N => AllSized(lines, Sym(s))
    BY <1>3, <2>0
  <2>4. /\ CutOf(lines, v.chunks \o Before(v.lastEnd, s), 1, mid)
        /\ sane /\ s.startLine - 1 <= N => AllSized(lines, v.chunks \o Before(v.lastEnd, s))
    <3>1. \A i \in 1 .. mid : i \in 1 .. v.lastEnd \/ i \in v.lastEnd + 1 .. low
      <4>1. mid = v.lastEnd \/ mid = low
        BY DEF Larger
      <4> HIDE DEF mid, low, s
      <4> QED
        BY <2>0, <2>1, <4>1
    <3>2. CutOf(lines, v.chunks, 1, v.lastEnd) /\ (sane => AllSized(lines, v.chunks))
      BY <1>12
    <3>3. v.lastEnd + 1 \in Nat /\ 1 \in Nat
      BY <2>0
    <3> HIDE DEF mid, low, s, Before, sane
    <3> QED
      BY <2>0, <2>1, <2>2, <3>1, <3>2, <3>3, CutsJoin
  <2>5. /\ CutOf(lines, v.chunks \o Before(v.lastEnd, s) \o Sym(s), 1, end)
        /\ sane /\ s.startLine - 1 <= N /\ s.endLine <= N =>
             AllSized(lines, v.chunks \o Before(v.lastEnd, s) \o Sym(s))
    <3>1. \A i \in 1 .. end : i \in 1 .. mid \/ i \in s.startLine .. End(s)
      <4>1. end = v.lastEnd \/ end = End(s)
        BY DEF Larger
      <4>2. v.lastEnd <= mid /\ low <= mid
        <5> HIDE DEF low, s
        <5> QED
          BY <2>0, <2>1, LeastIs
      <4>3. low = s.startLine - 1 \/ low = N
        BY DEF Least
      <4>4. End(s) \in Nat /\ End(s) <= N /\ s.startLine \in Nat
        BY <2>0
      <4> HIDE DEF end, mid, low, s, End, N
      <4> QED
        BY SMTT(30), <1>1, <2>0, <2>1, <4>1, <4>2, <4>3, <4>4
    <3>2. 1 \in Nat /\ s.startLine \in Nat
      BY <2>0
    <3> HIDE DEF end, mid, low, s, Before, Sym, sane, End
    <3> QED
      BY <2>0, <2>1, <2>3, <2>4, <3>1, <3>2, CutsJoin
  <2>6. sane => s.startLine - 1 <= N /\ s.endLine <= N
    <3>1. sane => s.endLine <= N
      BY <1>1
    <3> HIDE DEF sane, s
    <3> QED
      BY <1>1, <2>0, <3>1
  <2>7. /\ CutOf(lines, v.chunks \o Before(v.lastEnd, s) \o Sym(s), 1, end)
        /\ sane => AllSized(lines, v.chunks \o Before(v.lastEnd, s) \o Sym(s))
    <3> HIDE DEF end, mid, low, s, Before, Sym, sane, End
    <3> QED
      BY <2>5, <2>6
  <2>8. next(k, v) \in S
    BY <1>4, <2>0
  <2>9. next(k, v).lastEnd = end /\ next(k, v).chunks = v.chunks \o Before(v.lastEnd, s) \o Sym(s)
    OBVIOUS
  <2> HIDE DEF next, end, s, Before, Sym, sane, End, S
  <2> QED
    BY <2>1, <2>7, <2>8, <2>9
<1>13. n \in T
  <2>1. ASSUME NEW k \in 0 .. n - 1, k \in T PROVE k + 1 \in T
    <3>1. k + 1 \in 1 .. n /\ k + 1 - 1 = k /\ k + 1 \in 0 .. n
      BY <1>1
    <3>2. Done[k + 1] = next(k + 1, Done[k])
      <4> HIDE DEF next
      <4> QED
        BY <1>10, <3>1
    <3>3. Good(Done[k])
      BY <2>1
    <3> HIDE DEF Good, next
    <3> QED
      BY <1>12, <3>1, <3>2, <3>3
  <2> HIDE DEF T
  <2>2. \A k \in 0 .. n : k \in T
    <3> HIDE DEF n
    <3> QED
      BY <1>1, <1>11, <2>1, Inducts
  <2> QED
    BY <1>1, <2>2
<1> DEFINE all == Done[n]
           rest == Gap(lines, all.lastEnd + 1, Len(lines))
<1>14. ChunkBySymbols(lines, symbols) = all.chunks \o rest
  BY DEF ChunkBySymbols, Done
<1>15. /\ all \in S /\ all.lastEnd \in Nat /\ all.lastEnd <= N /\ CutOf(lines, all.chunks, 1, all.lastEnd)
       /\ sane => AllSized(lines, all.chunks)
  <2>1. Good(all)
    BY <1>13
  <2> HIDE DEF all
  <2> QED
    BY <2>1
<1>16. CutOf(lines, rest, all.lastEnd + 1, N) /\ AllSized(lines, rest)
  <2>1. all.lastEnd + 1 \in Nat \ {0}
    BY <1>15
  <2>2. Least(N, Len(lines)) = N /\ N <= Len(lines)
    BY <1>1, LeastIs
  <2>3. /\ CutOf(lines, rest, all.lastEnd + 1, Least(N, Len(lines)))
        /\ N <= Len(lines) => AllSized(lines, rest)
    <3> HIDE DEF all
    <3> QED
      BY <1>1, <2>1, GapCovers
  <2> HIDE DEF all, rest
  <2> QED
    BY <2>2, <2>3
<1>17. /\ CutOf(lines, all.chunks \o rest, 1, N)
       /\ sane => AllSized(lines, all.chunks \o rest)
  <2>1. \A i \in 1 .. N : i \in 1 .. all.lastEnd \/ i \in all.lastEnd + 1 .. N
    BY <1>1, <1>15
  <2>2. all.lastEnd + 1 \in Nat /\ 1 \in Nat
    BY <1>15
  <2> HIDE DEF all, rest, sane
  <2> QED
    BY <1>1, <1>15, <1>16, <2>1, <2>2, CutsJoin
<1> QED
  BY <1>14, <1>17

\* Pieces that overlap leave no line between them.
LEMMA LinesCover ==
  ASSUME NEW lines \in Seq(Nat)
  PROVE  /\ CutOf(lines, ChunkByLines(lines), 1, Len(lines))
         /\ AllSized(lines, ChunkByLines(lines))
<1> DEFINE N == Len(lines)
           Behind(k) == Least(N - k + LinesPerChunk, Len(lines))
           Next(k) == IF Behind(k) <= N - k + OverlapLines THEN Behind(k) ELSE Behind(k) - OverlapLines
           jump == [k \in 1 .. N |-> N - Next(k)]
           step == [k \in 1 .. N |-> [v \in Seq(Chunk) |-> Gap(lines, N - k + 1, Behind(k)) \o v]]
           From[n \in 0 .. Len(lines)] ==
             LET i == Len(lines) - n
                 end == Least(i + LinesPerChunk, Len(lines))
                 next == IF end <= i + OverlapLines THEN end ELSE end - OverlapLines
             IN  IF n = 0 THEN <<>> ELSE Gap(lines, i + 1, end) \o From[Len(lines) - next]
<1>1. N \in Nat /\ LinesPerChunk \in Nat \ {0} /\ OverlapLines \in Nat
  BY ChunkAssumption
<1>2. ASSUME NEW k \in 1 .. N
      PROVE  /\ N - k \in Nat /\ Behind(k) \in N - k + 1 .. N
             /\ Next(k) \in N - k + 1 .. Behind(k)
  <2>1. N - k \in Nat /\ N - k + LinesPerChunk \in Nat /\ N - k + 1 <= N
    BY <1>1
  <2>2. Behind(k) = N - k + LinesPerChunk \/ Behind(k) = N
    BY DEF Least
  <2>3. Behind(k) \in Nat /\ Behind(k) <= N
    BY <1>1, <2>1, LeastIs
  <2>4. Behind(k) \in N - k + 1 .. N
    <3> HIDE DEF Behind, N
    <3> QED
      BY <1>1, <2>1, <2>2, <2>3
  <2>5. Next(k) \in N - k + 1 .. Behind(k)
    <3> HIDE DEF Behind, N
    <3> QED
      BY <1>1, <2>1, <2>4
  <2> QED
    BY <2>1, <2>4, <2>5
<1>3. ASSUME NEW k \in 1 .. N
      PROVE  /\ CutOf(lines, Gap(lines, N - k + 1, Behind(k)), N - k + 1, Behind(k))
             /\ AllSized(lines, Gap(lines, N - k + 1, Behind(k)))
  <2> HIDE DEF Behind
  <2>1. N - k + 1 \in Nat \ {0} /\ Behind(k) \in Nat /\ Behind(k) <= N
    BY <1>1, <1>2
  <2>2. Least(Behind(k), N) = Behind(k)
    BY <1>1, <2>1, LeastIs
  <2> QED
    BY <2>1, <2>2, GapCovers
<1>4. jump \in [1 .. N -> Nat] /\ \A k \in 1 .. N : jump[k] < k /\ jump[k] \in 0 .. N
  <2>1. ASSUME NEW k \in 1 .. N PROVE N - Next(k) \in 0 .. N /\ N - Next(k) < k
    <3>1. \A n \in Nat : \A j \in 1 .. n : \A b \in n - j + 1 .. n : \A x \in n - j + 1 .. b :
            n - x \in 0 .. n /\ n - x < j
      OBVIOUS
    <3> HIDE DEF Next, N, Behind
    <3> QED
      BY <1>1, <1>2, <3>1
  <2> HIDE DEF Next
  <2> QED
    BY <1>1, <2>1
<1>5. step \in [1 .. N -> [Seq(Chunk) -> Seq(Chunk)]]
  <2>1. ASSUME NEW k \in 1 .. N, NEW v \in Seq(Chunk)
        PROVE  Gap(lines, N - k + 1, Behind(k)) \o v \in Seq(Chunk)
    <3> HIDE DEF Behind
    <3>1. Gap(lines, N - k + 1, Behind(k)) \in Seq(Chunk)
      BY <1>3 DEF CutOf
    <3> QED
      BY <3>1
  <2> HIDE DEF Behind
  <2> QED
    BY <2>1
<1>6. PICK f \in [0 .. N -> Seq(Chunk)] : f[0] = <<>> /\ \A k \in 1 .. N : f[k] = step[k][f[jump[k]]]
  <2>1. <<>> \in Seq(Chunk) /\ \A k \in 1 .. N : jump[k] < k
    BY <1>4
  <2>2. Stepwise(N, Seq(Chunk), <<>>, jump, step)
    <3> HIDE DEF N, jump, step
    <3> QED
      BY <1>1, <1>4, <1>5, <2>1, Recurses, Zenon
  <2> HIDE DEF N, jump, step
  <2> QED
    BY <2>2, Zenon DEF Stepwise
<1>7. ASSUME NEW k \in 1 .. N
      PROVE  f[k] = Gap(lines, N - k + 1, Behind(k)) \o f[N - Next(k)]
  <2>1. jump[k] = N - Next(k) /\ jump[k] \in 0 .. N
    BY <1>4
  <2>2. f[jump[k]] \in Seq(Chunk)
    BY <2>1
  <2>3. step[k][f[jump[k]]] = Gap(lines, N - k + 1, Behind(k)) \o f[jump[k]]
    <3> HIDE DEF Behind, jump
    <3> QED
      BY <2>2
  <2> HIDE DEF step, jump, Next, Behind
  <2> QED
    BY <1>6, <2>1, <2>3
<1> DEFINE Is(g) == g = [n \in 0 .. Len(lines) |->
             LET i == Len(lines) - n
                 end == Least(i + LinesPerChunk, Len(lines))
                 next == IF end <= i + OverlapLines THEN end ELSE end - OverlapLines
             IN  IF n = 0 THEN <<>> ELSE Gap(lines, i + 1, end) \o g[Len(lines) - next]]
<1>8. Is(f)
  <2>1. f = [n \in 0 .. Len(lines) |-> f[n]]
    OBVIOUS
  <2>2. \A n \in 0 .. Len(lines) : f[n] = IF n = 0 THEN <<>>
                                          ELSE Gap(lines, N - n + 1, Behind(n)) \o f[N - Next(n)]
    <3>1. \A n \in 0 .. Len(lines) : n = 0 \/ n \in 1 .. N
      BY <1>1
    <3>2. f[0] = <<>>
      BY <1>6
    <3> HIDE DEF Next, Behind, N
    <3>3. \A n \in 1 .. N : n # 0
      OBVIOUS
    <3> QED
      BY <1>7, <3>1, <3>2, <3>3, Zenon
  <2> QED
    BY <2>1, <2>2, Zenon
<1>9. Is(From)
  BY <1>8, Zenon
<1>10. From[0] = <<>> /\ \A k \in 1 .. N : From[k] = Gap(lines, N - k + 1, Behind(k)) \o From[N - Next(k)]
  <2>1. \A n \in 0 .. N : From[n] = IF n = 0 THEN <<>>
                                    ELSE Gap(lines, N - n + 1, Behind(n)) \o From[N - Next(n)]
    <3> HIDE DEF From
    <3> QED
      BY <1>9, Zenon
  <2>2. 0 \in 0 .. N /\ \A k \in 1 .. N : k \in 0 .. N /\ k # 0
    BY <1>1
  <2> HIDE DEF From, Next, Behind
  <2> QED
    BY <2>1, <2>2
<1>11. ChunkByLines(lines) = From[N]
  BY DEF ChunkByLines
<1> HIDE DEF From
<1> DEFINE Good(k) == CutOf(lines, From[k], N - k + 1, N) /\ AllSized(lines, From[k])
           T == {k \in 0 .. N : \A j \in 0 .. k : Good(j)}
<1>12. Good(0)
  <2>1. <<>> \in Seq(Chunk) /\ Members(<<>>) = {}
    BY DEF Members
  <2>2. \A i \in N - 0 + 1 .. N : FALSE
    BY <1>1
  <2> QED
    BY <1>10, <2>1, <2>2 DEF CutOf, Covers, AllSized
<1>13. ASSUME NEW k \in 1 .. N, Good(N - Next(k)) PROVE Good(k)
  <2>1. /\ CutOf(lines, Gap(lines, N - k + 1, Behind(k)), N - k + 1, Behind(k))
        /\ AllSized(lines, Gap(lines, N - k + 1, Behind(k)))
    BY <1>3
  <2>2. N - (N - Next(k)) + 1 = Next(k) + 1 /\ Next(k) + 1 \in Nat /\ Next(k) + 1 <= Behind(k) + 1
        /\ Behind(k) \in Nat /\ N - k + 1 \in Nat /\ Behind(k) <= N /\ N - k + 1 <= Next(k)
    <3>1. \A n \in Nat : \A j \in 1 .. n : \A b \in n - j + 1 .. n : \A x \in n - j + 1 .. b :
            /\ n - (n - x) + 1 = x + 1 /\ x + 1 \in Nat /\ x + 1 <= b + 1
            /\ b \in Nat /\ n - j + 1 \in Nat /\ b <= n /\ n - j + 1 <= x
      OBVIOUS
    <3> HIDE DEF Next, Behind, N
    <3> QED
      BY <1>1, <1>2, <3>1
  <2>3. CutOf(lines, From[N - Next(k)], Next(k) + 1, N) /\ AllSized(lines, From[N - Next(k)])
    BY <1>13, <2>2
  <2>4. \A i \in N - k + 1 .. N : i \in N - k + 1 .. Behind(k) \/ i \in Next(k) + 1 .. N
    <3> HIDE DEF Next, Behind, N
    <3> QED
      BY <1>1, <2>2
  <2> DEFINE gap == Gap(lines, N - k + 1, Behind(k))
             low == N - k + 1
  <2>5. CutOf(lines, gap \o From[N - Next(k)], low, N) /\ AllSized(lines, gap \o From[N - Next(k)])
    <3>1. low \in Nat /\ CutOf(lines, gap, low, Behind(k)) /\ AllSized(lines, gap)
      BY <2>1, <2>2
    <3>2. \A i \in low .. N : i \in low .. Behind(k) \/ i \in Next(k) + 1 .. N
      BY <2>4
    <3> HIDE DEF gap, low, Next, Behind, N
    <3> QED
      BY <1>1, <2>2, <2>3, <3>1, <3>2, CutsJoin
  <2> HIDE DEF Next, Behind
  <2> QED
    BY <1>10, <2>5
<1> HIDE DEF Good
<1>14. 0 \in T
  BY <1>1, <1>12
<1>15. ASSUME NEW k \in 0 .. N - 1, k \in T PROVE k + 1 \in T
  <2>1. k + 1 \in 1 .. N /\ k + 1 \in 0 .. N
    BY <1>1
  <2>2. N - Next(k + 1) \in 0 .. k
    <3>1. jump[k + 1] = N - Next(k + 1)
      BY <2>1
    <3> HIDE DEF jump, Next
    <3>2. jump[k + 1] \in 0 .. N /\ jump[k + 1] < k + 1
      BY <1>4, <2>1
    <3> QED
      BY <1>1, <3>1, <3>2
  <2>3. Good(k + 1)
    <3> HIDE DEF Next
    <3> QED
      BY <1>13, <1>15, <2>1, <2>2
  <2>4. \A j \in 0 .. k + 1 : j \in 0 .. k \/ j = k + 1
    OBVIOUS
  <2> QED
    BY <1>15, <2>1, <2>3, <2>4
<1>16. N \in T
  <2> HIDE DEF T
  <2>1. \A k \in 0 .. N : k \in T
    <3> HIDE DEF N
    <3> QED
      BY <1>1, <1>14, <1>15, Inducts
  <2> QED
    BY <1>1, <2>1
<1>17. Good(N)
  BY <1>1, <1>16
<1>18. N - N + 1 = 1
  BY <1>1
<1> QED
  BY <1>11, <1>17, <1>18 DEF Good

\* Division by the characters of a token.
LEMMA Quotients ==
  ASSUME NEW m \in Nat, NEW n \in Nat, NEW p \in Nat \ {0}
  PROVE  /\ m * p \in Nat /\ (m + 1) * p = m * p + p /\ (m + n) * p = m * p + n * p
         /\ m * p < n * p => m < n
         /\ n \div p \in Nat /\ (n \div p) * p <= n /\ n < (n \div p) * p + p
<1>1. m * p \in Nat /\ (m + 1) * p = m * p + p /\ (m + n) * p = m * p + n * p
  OBVIOUS
<1>2. m * p < n * p => m < n
  OBVIOUS
<1>3. n \div p \in Nat /\ n % p \in 0 .. p - 1 /\ n = (p * (n \div p)) + (n % p)
  OBVIOUS
<1>4. p * (n \div p) = (n \div p) * p
  BY <1>3
<1> QED
  BY <1>1, <1>2, <1>3, <1>4

\* Rounding up the sum exceeds the sum of the rounded by one at most.
LEMMA RoundedUp ==
  ASSUME NEW x \in Nat, NEW y \in Nat, NEW c \in Nat \ {0}
  PROVE  /\ (x + c - 1) \div c \in Nat
         /\ (x + y + 1 + c - 1) \div c <= (x + c - 1) \div c + (y + c - 1) \div c + 1
<1> DEFINE q == (x + c - 1) \div c
           r == (y + c - 1) \div c
           t == (x + y + 1 + c - 1) \div c
<1>1. x + c - 1 \in Nat /\ y + c - 1 \in Nat /\ x + y + 1 + c - 1 \in Nat
  OBVIOUS
<1>2. q \in Nat /\ x + c - 1 < q * c + c
  BY <1>1, Quotients
<1>3. r \in Nat /\ y + c - 1 < r * c + c
  BY <1>1, Quotients
<1>4. t \in Nat /\ t * c <= x + y + 1 + c - 1
  BY <1>1, Quotients
<1> HIDE DEF q, r, t
<1>5. q * c \in Nat /\ r * c \in Nat /\ t * c \in Nat
  BY <1>2, <1>3, <1>4, Quotients
<1>6. x <= q * c /\ y <= r * c
  BY <1>2, <1>3, <1>5
<1>7. t * c < q * c + r * c + c + c
  BY <1>4, <1>5, <1>6
<1>8. (q + r + 1 + 1) * c = q * c + r * c + c + c
  <2>1. (q + r) * c = q * c + r * c
    BY <1>2, <1>3, Quotients
  <2>2. q + r \in Nat /\ q + r + 1 \in Nat
    BY <1>2, <1>3
  <2>3. (q + r + 1) * c = (q + r) * c + c /\ (q + r + 1 + 1) * c = (q + r + 1) * c + c
    BY <2>2, Quotients
  <2> QED
    BY <2>1, <2>3
<1>9. t < q + r + 1 + 1
  <2>1. q + r + 1 + 1 \in Nat
    BY <1>2, <1>3
  <2> QED
    BY <1>4, <1>7, <1>8, <2>1, Quotients
<1>10. t <= q + r + 1
  BY <1>2, <1>3, <1>4, <1>9
<1> QED
  BY <1>2, <1>10 DEF q, r, t

\* Putting another chunk in the place of the last.
LEMMA LastReplaced ==
  ASSUME NEW s \in Seq(Chunk), s # <<>>, NEW c \in Chunk, NEW t, t = [s EXCEPT ![Len(s)] = c]
  PROVE  /\ t \in Seq(Chunk) /\ s[Len(s)] \in Members(s)
         /\ c \in Members(t) /\ Members(t) \subseteq Members(s) \cup {c}
         /\ Members(s) \subseteq Members(t) \cup {s[Len(s)]}
<1>1. Len(s) \in Nat \ {0} /\ DOMAIN s = 1 .. Len(s) /\ Len(s) \in 1 .. Len(s)
  BY SMTT(30), EmptySeq
<1>2. t \in Seq(Chunk) /\ DOMAIN t = 1 .. Len(s) /\ t[Len(s)] = c
      /\ \A k \in 1 .. Len(s) : k # Len(s) => t[k] = s[k]
  BY <1>1, ExceptSeq
<1>3. s[Len(s)] \in Members(s)
  BY SMTT(30), <1>1 DEF Members
<1>4. c \in Members(t)
  BY ZenonT(30), <1>1, <1>2 DEF Members
<1>5. Members(t) \subseteq Members(s) \cup {c}
  BY ZenonT(30), <1>1, <1>2 DEF Members
<1>6. Members(s) \subseteq Members(t) \cup {s[Len(s)]}
  BY <1>1, <1>2 DEF Members
<1> QED
  BY <1>2, <1>3, <1>4, <1>5, <1>6

\* A chunk as the merging leaves it: cut so, or within the limit.
MergedFine(lines, chunks, c) ==
  /\ c.first <= c.last /\ c.last = c.upto
  /\ c \in Members(chunks) \/ Tokens(lines, c) <= MaxChunkTokens

\* The tokens of two neighbours as one chunk.
LEMMA TokensOf ==
  ASSUME NEW lines \in Seq(Nat), NEW a \in Chunk, NEW b \in Chunk,
         a.upto <= Len(lines), b.upto <= Len(lines)
  PROVE  /\ Tokens(lines, a) \in Nat
         /\ a.first <= a.upto /\ a.last = a.upto /\ b.first <= b.upto /\ a.last + 1 = b.first =>
              Tokens(lines, [b EXCEPT !.first = a.first]) <= Tokens(lines, a) + Tokens(lines, b) + 1
<1>1. /\ a.first \in Nat \ {0} /\ a.last \in Nat /\ a.upto \in Nat
      /\ b.first \in Nat \ {0} /\ b.last \in Nat /\ b.upto \in Nat
      /\ CharsPerToken \in Nat \ {0}
  BY ChunkAssumption DEF Chunk
<1>2. TextLength(lines, a.first, a.upto) \in Nat /\ TextLength(lines, b.first, b.upto) \in Nat
  BY <1>1, TextLengthType
<1>3. Tokens(lines, a) \in Nat
  BY <1>1, <1>2, RoundedUp DEF Tokens
<1>4. ASSUME a.first <= a.upto, a.last = a.upto, b.first <= b.upto, a.last + 1 = b.first
      PROVE  Tokens(lines, [b EXCEPT !.first = a.first]) <= Tokens(lines, a) + Tokens(lines, b) + 1
  <2> DEFINE both == [b EXCEPT !.first = a.first]
  <2>1. both.first = a.first /\ both.upto = b.upto
    BY DEF Chunk
  <2>2. TextLength(lines, a.first, b.upto)
          = TextLength(lines, a.first, a.upto) + TextLength(lines, b.first, b.upto) + 1
    <3>1. a.upto < b.upto /\ a.upto + 1 = b.first
      BY <1>1, <1>4
    <3>2. TextLength(lines, a.first, b.upto)
            = TextLength(lines, a.first, a.upto) + TextLength(lines, a.upto + 1, b.upto) + 1
      <4>1. \A p \in Nat \ {0} : \A m, n \in Nat : p <= m /\ m < n /\ n <= Len(lines) =>
              TextLength(lines, p, n) = TextLength(lines, p, m) + TextLength(lines, m + 1, n) + 1
        BY TextLengthAdds, Zenon
      <4> QED
        BY ZenonT(30), <1>1, <1>4, <3>1, <4>1
    <3> QED
      BY <3>1, <3>2
  <2>3. PICK x \in Nat, y \in Nat : x = TextLength(lines, a.first, a.upto) /\ y = TextLength(lines, b.first, b.upto)
    BY <1>2
  <2>4. /\ Tokens(lines, both) = (x + y + 1 + CharsPerToken - 1) \div CharsPerToken
        /\ Tokens(lines, a) = (x + CharsPerToken - 1) \div CharsPerToken
        /\ Tokens(lines, b) = (y + CharsPerToken - 1) \div CharsPerToken
    <3> HIDE DEF both
    <3> QED
      BY <2>1, <2>2, <2>3, Zenon DEF Tokens
  <2> HIDE DEF both
  <2>5. Tokens(lines, both) <= Tokens(lines, a) + Tokens(lines, b) + 1
    BY <1>1, <2>4, RoundedUp
  <2> QED
    BY <2>5 DEF both
<1> QED
  BY <1>3, <1>4

\* Merging loses nothing, and what it makes of two chunks is within the limit.
LEMMA RollupCovers ==
  ASSUME NEW lines \in Seq(Nat), NEW chunks, CutOf(lines, chunks, 1, Len(lines))
  PROVE  LET merged == RollupSmallChunks(lines, chunks)
         IN  /\ merged \in Seq(Chunk) /\ Covers(lines, merged, 1, Len(lines))
             /\ AllSized(lines, chunks) => \A c \in Members(merged) : MergedFine(lines, chunks, c)
<1> DEFINE n == Len(chunks)
           N == Len(lines)
           S == Seq(Chunk)
           Joined(v, c) == v # <<>> /\ Merges(lines, v[Len(v)], c)
           With(v, c) == IF Joined(v, c)
                         THEN [v EXCEPT ![Len(v)] = [c EXCEPT !.first = v[Len(v)].first]]
                         ELSE Append(v, c)
           jump == [k \in 1 .. n |-> k - 1]
           step == [k \in 1 .. n |-> [v \in S |-> With(v, chunks[k])]]
           Out[k \in 0 .. Len(chunks)] ==
             IF k = 0 THEN <<>>
             ELSE LET out == Out[k - 1]
                      tail == out[Len(out)]
                  IN  IF out # <<>> /\ Merges(lines, tail, chunks[k])
                      THEN [out EXCEPT ![Len(out)] = [chunks[k] EXCEPT !.first = tail.first]]
                      ELSE Append(out, chunks[k])
<1>1. n \in Nat /\ N \in Nat /\ chunks \in Seq(Chunk) /\ DOMAIN chunks = 1 .. n
  BY DEF CutOf
<1>2. ASSUME NEW k \in 1 .. n PROVE chunks[k] \in Chunk /\ PlacedIn(lines, chunks[k]) /\ chunks[k] \in Members(chunks)
  <2>1. chunks[k] \in Chunk /\ chunks[k] \in Members(chunks)
    BY <1>1 DEF Members
  <2> QED
    BY <2>1 DEF CutOf
<1>3. ASSUME NEW v \in S, NEW c \in Chunk
      PROVE  /\ With(v, c) \in S
             /\ Joined(v, c) =>
                  /\ v[Len(v)] \in Members(v) /\ v[Len(v)] \in Chunk
                  /\ [c EXCEPT !.first = v[Len(v)].first] \in Members(With(v, c))
                  /\ Members(With(v, c)) \subseteq Members(v) \cup {[c EXCEPT !.first = v[Len(v)].first]}
                  /\ Members(v) \subseteq Members(With(v, c)) \cup {v[Len(v)]}
             /\ ~Joined(v, c) => Members(With(v, c)) = Members(v) \cup {c}
  <2>1. CASE Joined(v, c)
    <3>1. v # <<>> /\ With(v, c) = [v EXCEPT ![Len(v)] = [c EXCEPT !.first = v[Len(v)].first]]
      BY <2>1
    <3>2. v[Len(v)] \in Chunk
      BY <3>1, EmptySeq
    <3>3. [c EXCEPT !.first = v[Len(v)].first] \in Chunk
      BY <3>2 DEF Chunk
    <3> DEFINE c2 == [c EXCEPT !.first = v[Len(v)].first]
    <3>4. /\ With(v, c) \in S /\ v[Len(v)] \in Members(v)
          /\ c2 \in Members(With(v, c)) /\ Members(With(v, c)) \subseteq Members(v) \cup {c2}
          /\ Members(v) \subseteq Members(With(v, c)) \cup {v[Len(v)]}
      <4>1. c2 \in Chunk /\ With(v, c) = [v EXCEPT ![Len(v)] = c2]
        BY <3>1, <3>3
      <4> HIDE DEF With, Joined, c2
      <4> QED
        BY <3>1, <4>1, LastReplaced
    <3> HIDE DEF With, Joined
    <3> QED
      BY <2>1, <3>2, <3>4
  <2>2. CASE ~Joined(v, c)
    <3>1. With(v, c) = Append(v, c)
      BY <2>2
    <3> HIDE DEF With, Joined
    <3> QED
      BY <2>2, <3>1, MembersOf
  <2> HIDE DEF With, Joined
  <2> QED
    BY <2>1, <2>2
<1>4. step \in [1 .. n -> [S -> S]] /\ jump \in [1 .. n -> Nat] /\ \A k \in 1 .. n : jump[k] < k
  <2> HIDE DEF With, S
  <2>1. step \in [1 .. n -> [S -> S]]
    BY <1>2, <1>3
  <2> QED
    BY <1>1, <2>1
<1>5. PICK f \in [0 .. n -> S] : f[0] = <<>> /\ \A k \in 1 .. n : f[k] = step[k][f[jump[k]]]
  <2>1. <<>> \in S
    OBVIOUS
  <2>2. Stepwise(n, S, <<>>, jump, step)
    <3> HIDE DEF n, S, jump, step
    <3> QED
      BY <1>1, <1>4, <2>1, Recurses, Zenon
  <2> HIDE DEF n, S, jump, step
  <2> QED
    BY <2>2, Zenon DEF Stepwise
<1>6. ASSUME NEW k \in 1 .. n PROVE f[k - 1] \in S /\ f[k] = With(f[k - 1], chunks[k])
  <2>1. jump[k] = k - 1 /\ k - 1 \in 0 .. n
    BY <1>1
  <2>2. f[k - 1] \in S
    BY <2>1
  <2>3. step[k][f[k - 1]] = With(f[k - 1], chunks[k])
    <3> HIDE DEF With, S
    <3> QED
      BY <2>2
  <2> HIDE DEF step, jump, With, S
  <2> QED
    BY <1>5, <2>1, <2>2, <2>3
<1> DEFINE Is(g) == g = [k \in 0 .. Len(chunks) |->
             IF k = 0 THEN <<>>
             ELSE LET out == g[k - 1]
                      tail == out[Len(out)]
                  IN  IF out # <<>> /\ Merges(lines, tail, chunks[k])
                      THEN [out EXCEPT ![Len(out)] = [chunks[k] EXCEPT !.first = tail.first]]
                      ELSE Append(out, chunks[k])]
<1>7. Is(f)
  <2>1. f = [k \in 0 .. Len(chunks) |-> f[k]]
    OBVIOUS
  <2>2. \A k \in 0 .. Len(chunks) : f[k] = IF k = 0 THEN <<>> ELSE With(f[k - 1], chunks[k])
    <3>1. \A k \in 0 .. Len(chunks) : k = 0 \/ k \in 1 .. n
      BY <1>1
    <3>2. f[0] = <<>> /\ \A k \in 1 .. n : k # 0
      BY <1>5
    <3> HIDE DEF With, n
    <3> QED
      BY <1>6, <3>1, <3>2, Zenon
  <2> QED
    BY <2>1, <2>2, Zenon
<1>8. Is(Out)
  BY <1>7, Zenon
<1>9. Out[0] = <<>> /\ \A k \in 1 .. n : Out[k] = With(Out[k - 1], chunks[k])
  <2>1. \A k \in 0 .. n : Out[k] = IF k = 0 THEN <<>> ELSE With(Out[k - 1], chunks[k])
    <3> HIDE DEF Out
    <3> QED
      BY <1>8, Zenon
  <2>2. 0 \in 0 .. n /\ \A k \in 1 .. n : k \in 0 .. n /\ k # 0
    BY <1>1
  <2> HIDE DEF Out, With
  <2> QED
    BY <2>1, <2>2
<1>10. RollupSmallChunks(lines, chunks) = Out[n]
  BY DEF RollupSmallChunks
<1> HIDE DEF Out
<1> DEFINE Good(k, v) ==
             /\ v \in S
             /\ \A c \in Members(v) : PlacedIn(lines, c)
             /\ \A i \in Nat : (\E j \in 1 .. k : i \in chunks[j].first .. chunks[j].upto) => Has(v, i)
             /\ AllSized(lines, chunks) => \A c \in Members(v) : MergedFine(lines, chunks, c)
           T == {k \in 0 .. n : Good(k, Out[k])}
<1>11. Good(0, <<>>)
  <2>1. <<>> \in S /\ Members(<<>>) = {}
    BY DEF Members
  <2>2. \A j \in 1 .. 0 : FALSE
    OBVIOUS
  <2> HIDE DEF S
  <2> QED
    BY <2>1, <2>2
<1>12. ASSUME NEW k \in 1 .. n, NEW v, Good(k - 1, v)
       PROVE  Good(k, With(v, chunks[k]))
  <2> DEFINE c == chunks[k]
             tail == v[Len(v)]
             both == [c EXCEPT !.first = tail.first]
             w == With(v, c)
  <2>0. v \in S /\ c \in Chunk /\ PlacedIn(lines, c) /\ c \in Members(chunks)
    BY <1>2, <1>12
  <2>1. c.first \in Nat /\ c.upto \in Nat /\ c.last \in Nat /\ c.upto <= N /\ c.upto <= c.last
        /\ (c.first <= c.upto \/ c.upto = N)
    BY <2>0 DEF PlacedIn, Chunk
  <2>2. w \in S
    <3> HIDE DEF w, S
    <3> QED
      BY <1>3, <2>0 DEF w
  <2>3. \A j \in 1 .. k : j \in 1 .. k - 1 \/ j = k
    BY <1>1
  <2>4. CASE ~Joined(v, c)
    <3>1. Members(w) = Members(v) \cup {c}
      <4> HIDE DEF With, Joined
      <4> QED
        BY <1>3, <2>0, <2>4
    <3>2. \A x \in Members(w) : PlacedIn(lines, x)
      <4> HIDE DEF w, c, S
      <4> QED
        BY <1>12, <2>0, <2>1, <3>1
    <3>3. ASSUME NEW i \in Nat, NEW j \in 1 .. k, i \in chunks[j].first .. chunks[j].upto PROVE Has(w, i)
      <4>1. CASE j = k
        <5> HIDE DEF w
        <5> QED
          BY <3>1, <3>3, <4>1 DEF Has
      <4>2. CASE j \in 1 .. k - 1
        <5>1. Has(v, i)
          BY <1>12, <3>3, <4>2
        <5> HIDE DEF w
        <5> QED
          BY <3>1, <5>1 DEF Has
      <4> QED
        BY <2>3, <4>1, <4>2
    <3>4. ASSUME AllSized(lines, chunks), NEW x \in Members(w) PROVE MergedFine(lines, chunks, x)
      <4>1. CASE x \in Members(v)
        BY <1>12, <3>4, <4>1
      <4>2. CASE x = c
        <5> HIDE DEF c
        <5> QED
          BY <2>0, <3>4, <4>2 DEF AllSized, Sized, MergedFine
      <4> HIDE DEF w
      <4> QED
        BY <3>1, <4>1, <4>2
    <3> HIDE DEF w, S
    <3> QED
      BY <2>2, <3>2, <3>3, <3>4 DEF w
  <2>5. CASE Joined(v, c)
    <3>1. /\ tail \in Members(v) /\ tail \in Chunk /\ both \in Members(w)
          /\ Members(w) \subseteq Members(v) \cup {both}
          /\ Members(v) \subseteq Members(w) \cup {tail}
      <4> HIDE DEF With, Joined
      <4> QED
        BY <1>3, <2>0, <2>5
    <3>2. tail.last + 1 = c.first /\ Tokens(lines, tail) + Tokens(lines, c) + 1 <= MaxChunkTokens
      BY <2>5 DEF Merges
    <3>3. /\ tail.first \in Nat \ {0} /\ tail.last \in Nat /\ tail.upto \in Nat
          /\ tail.upto <= N /\ tail.upto <= tail.last /\ (tail.first <= tail.upto \/ tail.upto = N)
      <4> HIDE DEF tail
      <4> QED
        BY <1>12, <3>1 DEF Chunk, PlacedIn
    <3>4. both \in Chunk /\ both.first = tail.first /\ both.last = c.last /\ both.upto = c.upto
      <4> HIDE DEF tail, c
      <4> QED
        BY <2>0, <3>3 DEF Chunk
    <3>5. tail.upto <= c.upto
      <4> HIDE DEF tail, c
      <4> QED
        BY <2>1, <3>2, <3>3
    <3>6. \A x \in Members(w) : PlacedIn(lines, x)
      <4>1. both.first <= both.upto \/ both.upto = N
        <5> HIDE DEF c, both, tail
        <5> QED
          BY SMTT(30), <1>1, <2>1, <3>2, <3>3, <3>4
      <4>2. PlacedIn(lines, both)
        <5> HIDE DEF c, both, tail
        <5> QED
          BY <2>1, <3>4, <4>1 DEF PlacedIn
      <4> HIDE DEF w, c, S, both
      <4> QED
        BY <1>12, <3>1, <4>2
    <3>7. ASSUME NEW i \in Nat, NEW j \in 1 .. k, i \in chunks[j].first .. chunks[j].upto PROVE Has(w, i)
      <4>1. CASE j = k
        <5>1. i \in both.first .. both.upto
          <6>1. i \in c.first .. c.upto
            BY <3>7, <4>1
          <6> HIDE DEF c, both, tail
          <6> QED
            BY SMTT(30), <1>1, <2>1, <3>2, <3>3, <3>4, <6>1
        <5> HIDE DEF w, both
        <5> QED
          BY <3>1, <5>1 DEF Has
      <4>2. CASE j \in 1 .. k - 1
        <5>1. PICK x \in Members(v) : i \in x.first .. x.upto
          BY <1>12, <3>7, <4>2 DEF Has
        <5>2. CASE x \in Members(w)
          BY <5>1, <5>2 DEF Has
        <5>3. CASE x = tail
          <6>1. i \in both.first .. both.upto
            <7> HIDE DEF c, both, tail
            <7> QED
              BY <2>1, <3>3, <3>4, <3>5, <5>1, <5>3
          <6> HIDE DEF w, both
          <6> QED
            BY <3>1, <6>1 DEF Has
        <5> HIDE DEF w, tail
        <5> QED
          BY <3>1, <5>2, <5>3
      <4> QED
        BY <2>3, <4>1, <4>2
    <3>8. ASSUME AllSized(lines, chunks), NEW x \in Members(w) PROVE MergedFine(lines, chunks, x)
      <4>1. CASE x \in Members(v)
        BY <1>12, <3>8, <4>1
      <4>2. CASE x = both
        <5>1. tail.first <= tail.last /\ tail.last = tail.upto
          <6> HIDE DEF tail
          <6> QED
            BY <1>12, <3>1, <3>8 DEF MergedFine
        <5>2. c.first <= c.last /\ c.last = c.upto
          <6> HIDE DEF c
          <6> QED
            BY <2>0, <3>8 DEF AllSized, Sized
        <5>3. Tokens(lines, both) <= Tokens(lines, tail) + Tokens(lines, c) + 1
              /\ Tokens(lines, tail) \in Nat /\ Tokens(lines, c) \in Nat
          <6> HIDE DEF tail, c
          <6> QED
            BY <2>0, <2>1, <3>1, <3>2, <3>3, <5>1, <5>2, TokensOf
        <5>4. Tokens(lines, both) \in Nat
          <6> HIDE DEF both
          <6> QED
            BY <2>0, <2>1, <3>4, TokensOf
        <5>5. Tokens(lines, both) <= MaxChunkTokens
          <6> HIDE DEF both, tail, c
          <6> QED
            BY SMTT(30), <3>2, <5>3, <5>4, ChunkAssumption
        <5>6. both.first <= both.last /\ both.last = both.upto
          <6> HIDE DEF both, tail, c
          <6> QED
            BY <2>1, <3>2, <3>3, <3>4, <5>1, <5>2
        <5> HIDE DEF both
        <5> QED
          BY <4>2, <5>5, <5>6 DEF MergedFine
      <4> HIDE DEF w, both
      <4> QED
        BY <3>1, <4>1, <4>2
    <3> HIDE DEF w, S
    <3> QED
      BY <2>2, <3>6, <3>7, <3>8 DEF w
  <2> QED
    BY <2>4, <2>5
<1>13. n \in T
  <2>1. 0 \in T
    <3>1. Good(0, Out[0]) /\ 0 \in 0 .. n
      <4> HIDE DEF Good
      <4> QED
        BY <1>1, <1>9, <1>11
    <3> HIDE DEF Good
    <3> QED
      BY <3>1
  <2>2. ASSUME NEW k \in 0 .. n - 1, k \in T PROVE k + 1 \in T
    <3>1. k + 1 \in 1 .. n /\ k + 1 - 1 = k /\ k + 1 \in 0 .. n
      BY <1>1
    <3>2. Out[k + 1] = With(Out[k], chunks[k + 1])
      <4> HIDE DEF With
      <4> QED
        BY <1>9, <3>1
    <3>3. Good(k, Out[k])
      BY <2>2
    <3> HIDE DEF Good, With
    <3> QED
      BY <1>12, <3>1, <3>2, <3>3
  <2> HIDE DEF T
  <2>3. \A k \in 0 .. n : k \in T
    <3> HIDE DEF n
    <3> QED
      BY <1>1, <2>1, <2>2, Inducts
  <2> QED
    BY <1>1, <2>3
<1>14. Good(n, Out[n])
  BY <1>13
<1>15. ASSUME NEW i \in 1 .. N, lines[i] > 0 PROVE Has(Out[n], i)
  <2>1. Has(chunks, i)
    BY <1>15 DEF CutOf, Covers
  <2>2. \E j \in 1 .. n : i \in chunks[j].first .. chunks[j].upto
    BY <1>1, <2>1 DEF Has, Members
  <2>3. i \in Nat
    BY <1>1
  <2> QED
    BY <1>14, <2>2, <2>3
<1> QED
  BY <1>10, <1>14, <1>15 DEF Covers

\* What FileChunked makes.
ChunkedFile == chunkedFile.lines \in Seq(Nat) /\ SymbolsOf(chunkedFile.symbols)

\* The file that is cut is always one of lengths, with symbols in their form.
LEMMA ChunkedFileKept == ChunksSpec => []ChunkedFile
<1>1. ChunksInit => ChunkedFile
  <2>1. <<>> \in Seq(Nat) /\ <<>> \in Seq([startLine : Nat \ {0}, endLine : Nat \ {0}]) /\ DOMAIN <<>> = {}
    OBVIOUS
  <2>2. ChunksInit => chunkedFile.lines = <<>> /\ chunkedFile.symbols = <<>>
    BY DEF ChunksInit, NoFile
  <2> QED
    BY <2>1, <2>2 DEF ChunkedFile, SymbolsOf
<1>2. ChunkedFile /\ [FileChunked]_chunkedFile => ChunkedFile'
  <2>1. ASSUME FileChunked PROVE ChunkedFile'
    <3>1. PICK n \in 1 .. MaxLines : \E lines \in [1 .. n -> 0 .. MaxLength], symbols \in SortedSymbols :
            chunkedFile' = [lines |-> lines, symbols |-> symbols]
      BY <2>1 DEF FileChunked
    <3>2. PICK lines \in [1 .. n -> 0 .. MaxLength], symbols \in SortedSymbols :
            chunkedFile' = [lines |-> lines, symbols |-> symbols]
      BY <3>1
    <3>3. lines \in Seq(Nat)
      <4>1. n \in Nat /\ MaxLength \in Nat /\ MaxLines \in Nat
        BY ChunkAssumption
      <4>2. lines \in Seq(0 .. MaxLength)
        BY <4>1
      <4>3. 0 .. MaxLength \subseteq Nat
        BY <4>1
      <4> QED
        BY <4>2, <4>3, SeqMonotonic
    <3>4. SymbolsOf(symbols)
      <4>1. PICK m \in 0 .. MaxSymbols : symbols \in [1 .. m -> SymbolInfos]
        BY DEF SortedSymbols
      <4>2. symbols \in Seq(SymbolInfos)
        BY <4>1, ChunkAssumption
      <4>3. SymbolInfos \subseteq [startLine : Nat \ {0}, endLine : Nat \ {0}]
        <5>1. 1 .. MaxLines + 1 \subseteq Nat \ {0}
          BY ChunkAssumption
        <5> QED
          BY <5>1 DEF SymbolInfos
      <4>4. \A k \in DOMAIN symbols : symbols[k].startLine <= symbols[k].endLine
        BY DEF SortedSymbols
      <4> QED
        BY <4>2, <4>3, <4>4, SeqMonotonic DEF SymbolsOf
    <3> QED
      BY <3>2, <3>3, <3>4 DEF ChunkedFile
  <2>2. ASSUME ChunkedFile, UNCHANGED chunkedFile PROVE ChunkedFile'
    BY <2>2 DEF ChunkedFile
  <2> QED
    BY <2>1, <2>2
<1> QED
  BY <1>1, <1>2, PTL DEF ChunksSpec

\* And such a file is covered.
LEMMA ChunkedFileCovered == ChunkedFile => ChunksCover
<1> SUFFICES ASSUME ChunkedFile PROVE ChunksCover
  OBVIOUS
<1> DEFINE lines == chunkedFile.lines
           symbols == chunkedFile.symbols
           cut == ChunkFile(chunkedFile)
           merged == RollupSmallChunks(lines, cut)
           inside == \A k \in DOMAIN symbols : symbols[k].endLine <= Len(lines)
           Covered(chunks) == \A i \in DOMAIN lines : lines[i] > 0 =>
                                \E k \in DOMAIN chunks : i \in chunks[k].first .. chunks[k].upto
<1>1. lines \in Seq(Nat) /\ SymbolsOf(symbols) /\ DOMAIN lines = 1 .. Len(lines)
  BY DEF ChunkedFile
<1>2. CutOf(lines, cut, 1, Len(lines)) /\ (inside => AllSized(lines, cut))
  <2>1. CASE symbols = <<>>
    <3>1. cut = ChunkByLines(lines)
      BY <2>1 DEF ChunkFile
    <3> HIDE DEF cut, lines
    <3> QED
      BY <1>1, <3>1, LinesCover
  <2>2. CASE symbols # <<>>
    <3>1. cut = ChunkBySymbols(lines, symbols)
      BY <2>2 DEF ChunkFile
    <3> HIDE DEF cut, lines, symbols
    <3> QED
      BY <1>1, <3>1, SymbolsCover
  <2> QED
    BY <2>1, <2>2
<1>3. /\ merged \in Seq(Chunk) /\ Covers(lines, merged, 1, Len(lines))
      /\ AllSized(lines, cut) => \A c \in Members(merged) : MergedFine(lines, cut, c)
  <2> HIDE DEF cut, lines
  <2> QED
    BY <1>1, <1>2, RollupCovers
<1> HIDE DEF lines, symbols, cut, merged
<1>4. Covered(cut) /\ Covered(merged)
  BY <1>1, <1>2, <1>3 DEF CutOf, Covers, Has, Members
<1>5. ASSUME inside, NEW k \in DOMAIN cut
      PROVE  /\ cut[k].first <= cut[k].last /\ cut[k].last = cut[k].upto
             /\ \/ TextLength(lines, cut[k].first, cut[k].upto) <= MaxChunkSize
                \/ cut[k].first = cut[k].last
  <2>1. cut[k] \in Members(cut)
    BY DEF Members
  <2>2. Sized(lines, cut[k])
    BY <1>2, <1>5, <2>1 DEF AllSized
  <2> QED
    BY <2>2 DEF Sized
<1>6. ASSUME inside, NEW k \in DOMAIN merged
      PROVE  \/ \E j \in DOMAIN cut : cut[j] = merged[k]
             \/ Tokens(lines, merged[k]) <= MaxChunkTokens
  <2>1. merged[k] \in Members(merged)
    BY DEF Members
  <2>2. MergedFine(lines, cut, merged[k])
    BY <1>2, <1>3, <1>6, <2>1
  <2> QED
    BY <2>2 DEF MergedFine, Members
<1> HIDE DEF Covered
<1> QED
  BY <1>4, <1>5, <1>6 DEF ChunksCover, Covered, lines, symbols, cut, merged

(***************************************************************************)
(* The search loses nothing of a file (chunkFile and rollupSmallChunks of  *)
(* runtime/embeddings/chunker.ts): whatever the lines of a file, and       *)
(* however its symbols nest, overlap or lie behind its end, every line     *)
(* that is not blank is in a chunk before and after the merging; and with  *)
(* symbols inside the file no chunk is longer than it may be, nor does     *)
(* merging make one that exceeds its limit.                                *)
(***************************************************************************)
THEOREM EveryLineIsCovered == ChunksSpec => []ChunksCover
<1> QED
  BY ChunkedFileKept, ChunkedFileCovered, PTL

-----------------------------------------------------------------------------
(***************************************************************************)
(* SkipsOnlyUnchanged, for every tree and any two scans of it.  A path is  *)
(* its directory and its name, so lines of two scans that are equal are of *)
(* the same file or subdirectory.  The rest is an induction from the       *)
(* deepest directories up (HashesTell): a directory has the hash of the    *)
(* last scan exactly when the files below it are the same (SameBelow).     *)
(* That the hashes exist at all rests on the tree being finite: no path is *)
(* longer than some number (PathsEnd, RollupExists).                       *)
(***************************************************************************)
\* Paths and the directories above them.
Paths == Seq(PathNames)

LEMMA StartOf ==
  ASSUME NEW path \in Paths, NEW i \in 0 .. Len(path)
  PROVE  /\ SubSeq(path, 1, i) \in Paths /\ Len(SubSeq(path, 1, i)) = i
         /\ \A k \in 1 .. i : SubSeq(path, 1, i)[k] = path[k]
BY SubSeqProperties DEF Paths

LEMMA PathParts ==
  ASSUME NEW path \in Paths, path # <<>>
  PROVE  /\ ParentDir(path) \in Paths /\ Len(ParentDir(path)) = Len(path) - 1
         /\ \A i \in 1 .. Len(path) - 1 : ParentDir(path)[i] = path[i]
<1>1. Len(path) \in Nat /\ Len(path) # 0
  BY EmptySeq DEF Paths
<1>2. Len(path) - 1 \in 0 .. Len(path)
  BY <1>1
<1> QED
  BY <1>2, StartOf DEF ParentDir

LEMMA SamePath ==
  ASSUME NEW p \in Paths, NEW q \in Paths, p # <<>>, q # <<>>,
         ParentDir(p) = ParentDir(q), NameIn(p) = NameIn(q)
  PROVE  p = q
<1>1. Len(p) \in Nat /\ Len(q) \in Nat /\ Len(p) = Len(q)
  BY PathParts DEF Paths
<1>2. \A i \in 1 .. Len(p) : p[i] = q[i]
  BY <1>1, PathParts DEF NameIn
<1> QED
  BY <1>1, <1>2, SeqEqual DEF Paths

LEMMA AboveIs ==
  ASSUME NEW path \in Paths, path # <<>>
  PROVE  /\ \A d \in Ancestors(path) : d \in Paths /\ Len(d) < Len(path) /\ d = SubSeq(path, 1, Len(d))
         /\ ParentDir(path) \in Ancestors(path)
<1>1. Len(path) \in Nat /\ Len(path) # 0
  BY EmptySeq DEF Paths
<1>2. ASSUME NEW d \in Ancestors(path)
      PROVE  d \in Paths /\ Len(d) < Len(path) /\ d = SubSeq(path, 1, Len(d))
  <2>1. PICK i \in 0 .. Len(path) - 1 : d = SubSeq(path, 1, i)
    BY DEF Ancestors
  <2>2. i \in 0 .. Len(path) /\ i < Len(path)
    BY <1>1
  <2> QED
    BY <2>1, <2>2, StartOf
<1>3. ParentDir(path) \in Ancestors(path)
  BY SMTT(30), <1>1 DEF ParentDir, Ancestors
<1> QED
  BY <1>2, <1>3

LEMMA StartOfStart ==
  ASSUME NEW path \in Paths, NEW i \in 0 .. Len(path), i # 0
  PROVE  /\ ParentDir(SubSeq(path, 1, i)) = SubSeq(path, 1, i - 1)
         /\ SubSeq(path, 1, i) # <<>>
<1> DEFINE p == SubSeq(path, 1, i)
           q == SubSeq(path, 1, i - 1)
<1>1. Len(path) \in Nat /\ i - 1 \in 0 .. Len(path) /\ i \in Nat
  BY DEF Paths
<1>2. p \in Paths /\ Len(p) = i /\ \A k \in 1 .. i : p[k] = path[k]
  BY StartOf
<1>3. q \in Paths /\ Len(q) = i - 1 /\ \A k \in 1 .. i - 1 : q[k] = path[k]
  BY <1>1, StartOf
<1> HIDE DEF p, q
<1>4. p # <<>>
  BY <1>1, <1>2, EmptySeq
<1>5. /\ ParentDir(p) \in Paths /\ Len(ParentDir(p)) = i - 1
      /\ \A k \in 1 .. i - 1 : ParentDir(p)[k] = p[k]
  BY <1>2, <1>4, PathParts
<1>6. \A k \in 1 .. i - 1 : ParentDir(p)[k] = q[k]
  BY <1>1, <1>2, <1>3, <1>5
<1>7. ParentDir(p) = q
  BY <1>3, <1>5, <1>6, SeqEqual DEF Paths
<1> QED
  BY <1>4, <1>7 DEF p, q

\* Above a file, the directories follow one another.
LEMMA AboveGoesUp ==
  ASSUME NEW path \in Paths, path # <<>>, NEW s \in Ancestors(path), s # <<>>
  PROVE  ParentDir(s) \in Ancestors(path) /\ Len(s) = Len(ParentDir(s)) + 1
<1> DEFINE i == Len(s)
<1>1. s \in Paths /\ i < Len(path) /\ s = SubSeq(path, 1, i) /\ Len(path) \in Nat /\ i \in Nat /\ i # 0
  BY AboveIs, EmptySeq DEF Paths
<1> HIDE DEF i
<1>2. i \in 0 .. Len(path) /\ i - 1 \in 0 .. Len(path) - 1
  BY <1>1
<1>3. ParentDir(s) = SubSeq(path, 1, i - 1)
  BY <1>1, <1>2, StartOfStart
<1>4. ParentDir(s) \in Ancestors(path)
  BY <1>2, <1>3 DEF Ancestors
<1>5. Len(ParentDir(s)) = i - 1
  BY <1>1, PathParts DEF i
<1>6. i = i - 1 + 1
  BY <1>1
<1> QED
  BY <1>4, <1>5, <1>6 DEF i

LEMMA NextBelow ==
  ASSUME NEW path \in Paths, NEW j \in 1 .. Len(path) - 1
  PROVE  /\ SubSeq(path, 1, j) \in Ancestors(path) /\ SubSeq(path, 1, j) # <<>>
         /\ ParentDir(SubSeq(path, 1, j)) = SubSeq(path, 1, j - 1)
<1>1. Len(path) \in Nat
  BY DEF Paths
<1>2. j \in 0 .. Len(path) /\ j # 0 /\ j \in 0 .. Len(path) - 1
  BY <1>1
<1> QED
  BY <1>2, StartOfStart DEF Ancestors

LEMMA AboveGoesDown ==
  ASSUME NEW path \in Paths, path # <<>>, NEW d \in Ancestors(path), d # ParentDir(path)
  PROVE  \E s \in Ancestors(path) : s # <<>> /\ ParentDir(s) = d
<1> DEFINE i == Len(d)
<1>1. d \in Paths /\ i < Len(path) /\ d = SubSeq(path, 1, i) /\ Len(path) \in Nat /\ i \in Nat
  BY AboveIs DEF Paths
<1>2. i # Len(path) - 1
  BY <1>1 DEF ParentDir
<1> HIDE DEF i
<1> DEFINE j == i + 1
<1>3. j \in 1 .. Len(path) - 1 /\ j - 1 = i
  BY <1>1, <1>2
<1> HIDE DEF j
<1> QED
  BY <1>1, <1>3, NextBelow

-----------------------------------------------------------------------------
\* No path of the tree is longer than some number.
LongestOf(T) == \E n \in Nat : \A path \in T : Len(path) <= n

LEMMA PathsEnd ==
  ASSUME NEW S, NEW T \in SUBSET Seq(S), IsFiniteSet(T)
  PROVE  LongestOf(T)
<1> DEFINE P == {n \in Nat : \A U \in SUBSET Seq(S) : IsFiniteSet(U) /\ Cardinality(U) = n => LongestOf(U)}
           m == Cardinality(T)
<1>1. m \in Nat
  BY FS_CardinalityType
<1>2. 0 \in P
  <2> SUFFICES ASSUME NEW U \in SUBSET Seq(S), IsFiniteSet(U), Cardinality(U) = 0 PROVE LongestOf(U)
    OBVIOUS
  <2>1. U = {}
    BY FS_EmptySet
  <2> QED
    BY <2>1 DEF LongestOf
<1>3. ASSUME NEW k \in 0 .. m - 1, k \in P PROVE k + 1 \in P
  <2>1. k \in Nat /\ k + 1 \in Nat /\ k + 1 # 0 /\ k + 1 - 1 = k
    BY <1>1
  <2>2. ASSUME NEW U \in SUBSET Seq(S), IsFiniteSet(U), Cardinality(U) = k + 1 PROVE LongestOf(U)
    <3>1. PICK path \in U : TRUE
      <4>1. U # {}
        BY <2>1, <2>2, FS_EmptySet
      <4> QED
        BY <4>1
    <3> DEFINE rest == U \ {path}
    <3>2. IsFiniteSet(rest) /\ Cardinality(rest) = k
      <4>1. IsFiniteSet(rest) /\ Cardinality(rest) = Cardinality(U) - 1
        BY <2>2, <3>1, FS_RemoveElement
      <4> QED
        BY <2>1, <2>2, <4>1
    <3>3. rest \in SUBSET Seq(S)
      OBVIOUS
    <3>4. LongestOf(rest)
      <4> HIDE DEF rest
      <4> QED
        BY <1>3, <3>2, <3>3
    <3>5. PICK n \in Nat : \A q \in rest : Len(q) <= n
      BY <3>4 DEF LongestOf
    <3>6. path \in Seq(S) /\ Len(path) \in Nat /\ \A q \in U : Len(q) \in Nat
      BY <3>1
    <3> DEFINE more == n + Len(path)
    <3>7. more \in Nat
      BY <3>6
    <3>8. \A q \in U : Len(q) <= more
      BY <3>5, <3>6
    <3> HIDE DEF more
    <3> QED
      BY <3>7, <3>8 DEF LongestOf
  <2> QED
    BY <2>1, <2>2
<1>4. m \in P
  <2>1. \A k \in 0 .. m : k \in P
    <3> HIDE DEF P, m
    <3> QED
      BY <1>1, <1>2, <1>3, Inducts
  <2>2. m \in 0 .. m
    BY <1>1
  <2> QED
    BY <2>1, <2>2
<1> QED
  BY <1>4

\* A directory's hash, from those of its subdirectories.
LinesOfDir(f, content, dir) ==
  FileLines(content, dir) \cup {<<"dir", NameIn(d), f[d]>> : d \in SubDirs(content, dir)}

RollsUp(f, content) == \A dir \in Dirs(content) : f[dir] = LinesOfDir(f, content, dir)

LEMMA SameLines ==
  ASSUME NEW content, NEW dir, NEW f, NEW g, \A d \in SubDirs(content, dir) : f[d] = g[d]
  PROVE  LinesOfDir(f, content, dir) = LinesOfDir(g, content, dir)
BY DEF LinesOfDir

\* The directories are paths shorter than the longest file.
DirsWithin(content, n) ==
  /\ \A d \in Dirs(content) : d \in Paths /\ Len(d) <= n
  /\ \A d \in Dirs(content) : \A s \in SubDirs(content, d) : s \in Dirs(content) /\ Len(s) = Len(d) + 1

LEMMA DirsAre ==
  ASSUME NEW content
  PROVE  \E n \in Nat : DirsWithin(content, n)
<1>1. Tree \in SUBSET Seq(PathNames) /\ IsFiniteSet(Tree) /\ <<>> \notin Tree
  BY PathAssumption
<1>2. PICK n \in Nat : \A f \in Tree : Len(f) <= n
  BY <1>1, PathsEnd DEF LongestOf
<1>3. ASSUME NEW d \in Dirs(content) PROVE d \in Paths /\ Len(d) <= n
  <2>1. CASE d = <<>>
    BY <2>1, EmptySeq DEF Paths
  <2>2. CASE d # <<>>
    <3>1. PICK f \in Tree : d \in Ancestors(f)
      BY <2>2 DEF Dirs, Tracked
    <3>2. f \in Paths /\ f # <<>> /\ Len(f) \in Nat /\ Len(f) <= n
      BY <1>1, <1>2 DEF Paths
    <3>3. d \in Paths /\ Len(d) < Len(f)
      BY <3>1, <3>2, AboveIs
    <3>4. Len(d) \in Nat
      BY <3>3 DEF Paths
    <3> QED
      BY <3>2, <3>3, <3>4
  <2> QED
    BY <2>1, <2>2
<1>4. ASSUME NEW d \in Dirs(content), NEW s \in SubDirs(content, d)
      PROVE  s \in Dirs(content) /\ Len(s) = Len(d) + 1
  <2>1. s \in Dirs(content) /\ s # <<>> /\ ParentDir(s) = d
    BY DEF SubDirs
  <2>2. s \in Paths /\ Len(s) \in Nat
    BY <1>3, <2>1 DEF Paths
  <2>3. Len(d) = Len(s) - 1
    BY <2>1, <2>2, PathParts
  <2> QED
    BY <2>1, <2>2, <2>3
<1> QED
  BY <1>2, <1>3, <1>4 DEF DirsWithin

LEMMA RollupExists ==
  ASSUME NEW content
  PROVE  \E f : f = [dir \in Dirs(content) |-> LinesOfDir(f, content, dir)]
<1> DEFINE D == Dirs(content)
<1>1. PICK n \in Nat : DirsWithin(content, n)
  BY DirsAre
<1>2. /\ \A d \in D : Len(d) \in Nat /\ Len(d) <= n
      /\ \A d \in D : \A s \in SubDirs(content, d) : s \in D /\ Len(s) = Len(d) + 1
  BY <1>1 DEF DirsWithin, Paths
<1> DEFINE Upto(f, k) == \A d \in D : n + 1 - Len(d) <= k => f[d] = LinesOfDir(f, content, d)
           T == {k \in Nat : \E f : Upto(f, k)}
<1>3. 0 \in T
  <2>1. \A d \in D : ~(n + 1 - Len(d) <= 0)
    BY <1>2
  <2>2. Upto(<<>>, 0)
    BY <2>1
  <2> QED
    BY <2>2
<1>4. ASSUME NEW k \in 0 .. n, k \in T PROVE k + 1 \in T
  <2>1. k \in Nat /\ k + 1 \in Nat
    OBVIOUS
  <2>2. PICK f : Upto(f, k)
    BY <1>4
  <2> DEFINE g == [d \in D |-> IF n + 1 - Len(d) = k + 1 THEN LinesOfDir(f, content, d) ELSE f[d]]
  <2>3. ASSUME NEW d \in D, n + 1 - Len(d) <= k + 1 PROVE g[d] = LinesOfDir(g, content, d)
    <3>1. ASSUME NEW s \in SubDirs(content, d) PROVE g[s] = f[s]
      <4>1. s \in D /\ Len(s) = Len(d) + 1 /\ Len(d) \in Nat
        BY <1>2
      <4>2. n + 1 - Len(s) # k + 1
        BY <2>1, <2>3, <4>1
      <4> QED
        BY <4>1, <4>2
    <3> HIDE DEF g
    <3>2. LinesOfDir(g, content, d) = LinesOfDir(f, content, d)
      BY <3>1, SameLines
    <3>3. g[d] = IF n + 1 - Len(d) = k + 1 THEN LinesOfDir(f, content, d) ELSE f[d]
      BY DEF g
    <3>4. n + 1 - Len(d) # k + 1 => n + 1 - Len(d) <= k
      BY <1>2, <2>1, <2>3
    <3>5. n + 1 - Len(d) # k + 1 => f[d] = LinesOfDir(f, content, d)
      BY <2>2, <3>4
    <3> QED
      BY <3>2, <3>3, <3>5
  <2> HIDE DEF g
  <2>4. Upto(g, k + 1)
    BY <2>3
  <2> QED
    BY <2>1, <2>4
<1>5. n + 1 \in T
  <2>1. \A k \in 0 .. n + 1 : k \in T
    <3>1. n + 1 \in Nat /\ n + 1 - 1 = n
      OBVIOUS
    <3> HIDE DEF T
    <3> QED
      BY <1>3, <1>4, <3>1, Inducts
  <2>2. n + 1 \in 0 .. n + 1
    OBVIOUS
  <2> HIDE DEF T
  <2> QED
    BY <2>1, <2>2
<1>6. PICK f : Upto(f, n + 1)
  BY <1>5
<1>7. \A d \in D : f[d] = LinesOfDir(f, content, d)
  BY <1>2, <1>6
<1> DEFINE h == [d \in D |-> f[d]]
<1>8. ASSUME NEW d \in D PROVE h[d] = LinesOfDir(h, content, d)
  <2>1. \A s \in SubDirs(content, d) : h[s] = f[s]
    BY <1>2
  <2>2. h[d] = f[d]
    OBVIOUS
  <2> HIDE DEF h
  <2>3. LinesOfDir(h, content, d) = LinesOfDir(f, content, d)
    BY <2>1, SameLines
  <2> QED
    BY <1>7, <2>2, <2>3
<1>9. h = [d \in D |-> LinesOfDir(h, content, d)]
  <2> HIDE DEF D
  <2> QED
    BY <1>8, Zenon
<1> QED
  BY <1>9

LEMMA RollupIs ==
  ASSUME NEW content
  PROVE  RollsUp(Rollup(content), content)
<1> DEFINE D == Dirs(content)
           Is(g) == g = [dir \in D |->
              FileLines(content, dir) \cup {<<"dir", NameIn(d), g[d]>> : d \in SubDirs(content, dir)}]
           Hash[dir \in D] ==
              FileLines(content, dir) \cup {<<"dir", NameIn(d), Hash[d]>> : d \in SubDirs(content, dir)}
<1>1. PICK f : f = [dir \in D |-> LinesOfDir(f, content, dir)]
  BY RollupExists
<1>2. Is(f)
  BY <1>1 DEF LinesOfDir
<1>3. Is(Hash)
  BY <1>2
<1>4. Rollup(content) = Hash
  BY DEF Rollup
<1> HIDE DEF Hash
<1>5. \A dir \in D : Hash[dir] =
        FileLines(content, dir) \cup {<<"dir", NameIn(d), Hash[d]>> : d \in SubDirs(content, dir)}
  <2> HIDE DEF D
  <2> QED
    BY <1>3, Zenon
<1> QED
  BY <1>4, <1>5 DEF RollsUp, LinesOfDir

-----------------------------------------------------------------------------
\* Two scans that find the same below a directory.
SameBelow(old, new, dir) == \A f \in Tree : dir \in Ancestors(f) => old[f] = new[f]

\* What is told apart by a directory's hash: its files and its subdirectories.
LEMMA SameFiles ==
  ASSUME NEW old, NEW new, NEW dir, NEW u, NEW v,
         LinesOfDir(u, old, dir) \subseteq LinesOfDir(v, new, dir),
         NEW f \in FilesIn(old, dir)
  PROVE  f \in FilesIn(new, dir) /\ old[f] = new[f]
<1>1. f \in Tree /\ ParentDir(f) = dir
  BY DEF FilesIn, Tracked
<1>2. <<"file", NameIn(f), old[f]>> \in LinesOfDir(v, new, dir)
  BY DEF LinesOfDir, FileLines
<1>3. PICK g \in FilesIn(new, dir) : <<"file", NameIn(f), old[f]>> = <<"file", NameIn(g), new[g]>>
  <2>1. \A d : <<"file", NameIn(f), old[f]>> # <<"dir", NameIn(d), v[d]>>
    OBVIOUS
  <2> QED
    BY <1>2, <2>1 DEF LinesOfDir, FileLines
<1>4. NameIn(f) = NameIn(g) /\ old[f] = new[g]
  BY <1>3
<1>5. g \in Tree /\ ParentDir(g) = dir
  BY DEF FilesIn, Tracked
<1>6. f \in Paths /\ g \in Paths /\ f # <<>> /\ g # <<>>
  BY <1>1, <1>5, PathAssumption DEF Paths
<1>7. f = g
  BY <1>1, <1>4, <1>5, <1>6, SamePath
<1> QED
  BY <1>4, <1>7

LEMMA SameSubDirs ==
  ASSUME NEW old, NEW new, NEW dir, NEW u, NEW v,
         LinesOfDir(u, old, dir) \subseteq LinesOfDir(v, new, dir),
         NEW s \in SubDirs(old, dir)
  PROVE  s \in SubDirs(new, dir) /\ u[s] = v[s]
<1>1. s \in Dirs(old) /\ s # <<>> /\ ParentDir(s) = dir
  BY DEF SubDirs
<1>2. <<"dir", NameIn(s), u[s]>> \in LinesOfDir(v, new, dir)
  BY DEF LinesOfDir
<1>3. PICK d \in SubDirs(new, dir) : <<"dir", NameIn(s), u[s]>> = <<"dir", NameIn(d), v[d]>>
  <2>1. \A f : <<"dir", NameIn(s), u[s]>> # <<"file", NameIn(f), new[f]>>
    OBVIOUS
  <2> QED
    BY <1>2, <2>1 DEF LinesOfDir, FileLines
<1>4. NameIn(s) = NameIn(d) /\ u[s] = v[d]
  BY <1>3
<1>5. d \in Dirs(new) /\ d # <<>> /\ ParentDir(d) = dir
  BY DEF SubDirs
<1>6. s \in Paths /\ d \in Paths
  BY <1>1, <1>5, DirsAre DEF DirsWithin
<1>7. s = d
  BY <1>1, <1>4, <1>5, <1>6, SamePath
<1> QED
  BY <1>4, <1>7

\* Below a file's directory is the file; below the others is a subdirectory that
\* is above the file.
LEMMA DirAbove ==
  ASSUME NEW content, NEW dir, NEW f \in Tree, content[f] # NotTracked, dir \in Ancestors(f)
  PROVE  f \in FilesIn(content, dir) \/ \E s \in SubDirs(content, dir) : s \in Ancestors(f)
<1>1. f \in Paths /\ f # <<>>
  BY PathAssumption DEF Paths
<1>2. f \in Tracked(content)
  BY DEF Tracked
<1>3. CASE ParentDir(f) = dir
  BY <1>2, <1>3 DEF FilesIn
<1>4. CASE ParentDir(f) # dir
  <2>1. PICK s \in Ancestors(f) : s # <<>> /\ ParentDir(s) = dir
    BY <1>1, <1>4, AboveGoesDown
  <2>2. s \in SubDirs(content, dir)
    BY <1>2, <2>1 DEF SubDirs, Dirs
  <2> QED
    BY <2>2
<1> QED
  BY <1>3, <1>4

\* A subdirectory is above what it is above, and so is its directory.
LEMMA SubDirAbove ==
  ASSUME NEW content, NEW dir, NEW s \in SubDirs(content, dir), NEW f \in Tree, s \in Ancestors(f)
  PROVE  dir \in Ancestors(f)
<1>1. f \in Paths /\ f # <<>>
  BY PathAssumption DEF Paths
<1>2. s # <<>> /\ ParentDir(s) = dir
  BY DEF SubDirs
<1> QED
  BY <1>1, <1>2, AboveGoesUp

\* One scan has what the other has below a directory that looks the same.
LEMMA SeenAlike ==
  ASSUME NEW old, NEW new, NEW dir, NEW u, NEW v, RollsUp(u, old), RollsUp(v, new),
         dir \in Dirs(old), dir \in Dirs(new), u[dir] = v[dir],
         \A s \in SubDirs(old, dir) \cap SubDirs(new, dir) : u[s] = v[s] => SameBelow(old, new, s),
         NEW f \in Tree, dir \in Ancestors(f), old[f] # NotTracked
  PROVE  old[f] = new[f]
<1>1. LinesOfDir(u, old, dir) = LinesOfDir(v, new, dir)
  BY DEF RollsUp
<1>2. CASE f \in FilesIn(old, dir)
  BY <1>1, <1>2, SameFiles
<1>3. CASE \E s \in SubDirs(old, dir) : s \in Ancestors(f)
  <2>1. PICK s \in SubDirs(old, dir) : s \in Ancestors(f)
    BY <1>3
  <2>2. s \in SubDirs(new, dir) /\ u[s] = v[s]
    BY <1>1, SameSubDirs
  <2>3. SameBelow(old, new, s)
    BY <2>2
  <2> QED
    BY <2>1, <2>3 DEF SameBelow
<1> QED
  BY <1>2, <1>3, DirAbove

\* A directory that has the same below has the same in it.
LEMMA SameInside ==
  ASSUME NEW old, NEW new, NEW dir, SameBelow(old, new, dir)
  PROVE  FileLines(old, dir) \subseteq FileLines(new, dir) /\ SubDirs(old, dir) \subseteq SubDirs(new, dir)
<1>1. ASSUME NEW f \in FilesIn(old, dir) PROVE f \in FilesIn(new, dir) /\ old[f] = new[f]
  <2>1. f \in Tree /\ ParentDir(f) = dir /\ old[f] # NotTracked
    BY DEF FilesIn, Tracked
  <2>2. dir \in Ancestors(f)
    BY <2>1, PathAssumption, AboveIs DEF Paths
  <2>3. old[f] = new[f]
    BY <2>1, <2>2 DEF SameBelow
  <2> QED
    BY <2>1, <2>3 DEF FilesIn, Tracked
<1>2. ASSUME NEW s \in SubDirs(old, dir) PROVE s \in SubDirs(new, dir)
  <2>1. s \in Dirs(old) /\ s # <<>> /\ ParentDir(s) = dir
    BY DEF SubDirs
  <2>2. PICK f \in Tree : old[f] # NotTracked /\ s \in Ancestors(f)
    BY <2>1 DEF Dirs, Tracked
  <2>3. dir \in Ancestors(f)
    BY <2>2, SubDirAbove
  <2>4. new[f] # NotTracked
    BY <2>2, <2>3 DEF SameBelow
  <2>5. s \in Dirs(new)
    BY <2>2, <2>4 DEF Dirs, Tracked
  <2> QED
    BY <2>1, <2>5 DEF SubDirs
<1>3. FileLines(old, dir) \subseteq FileLines(new, dir)
  BY <1>1 DEF FileLines
<1> QED
  BY <1>2, <1>3

\* A directory has the hash of the last scan exactly when it has the same below.
HashTells(old, new, dir) ==
  Rollup(old)[dir] = Rollup(new)[dir] <=> SameBelow(old, new, dir)

LEMMA HashTellsUp ==
  ASSUME NEW old, NEW new, NEW dir \in Dirs(old) \cap Dirs(new),
         \A s \in SubDirs(old, dir) \cap SubDirs(new, dir) : HashTells(old, new, s)
  PROVE  HashTells(old, new, dir)
<1> DEFINE u == Rollup(old)
           v == Rollup(new)
<1>1. RollsUp(u, old) /\ RollsUp(v, new)
  BY RollupIs
<1>2. \A s \in SubDirs(old, dir) \cap SubDirs(new, dir) : u[s] = v[s] <=> SameBelow(old, new, s)
  BY DEF HashTells
<1> HIDE DEF u, v
<1>3. ASSUME u[dir] = v[dir] PROVE SameBelow(old, new, dir)
  <2> SUFFICES ASSUME NEW f \in Tree, dir \in Ancestors(f) PROVE old[f] = new[f]
    BY DEF SameBelow
  <2>1. CASE old[f] # NotTracked
    BY ZenonT(30), <1>1, <1>2, <1>3, <2>1, SeenAlike
  <2>2. CASE new[f] # NotTracked
    <3>1. \A s \in SubDirs(new, dir) \cap SubDirs(old, dir) : v[s] = u[s] => SameBelow(new, old, s)
      BY <1>2 DEF SameBelow
    <3>2. new[f] = old[f]
      BY <1>1, <1>3, <2>2, <3>1, SeenAlike
    <3> QED
      BY <3>2
  <2> QED
    BY <2>1, <2>2
<1>4. ASSUME SameBelow(old, new, dir) PROVE u[dir] = v[dir]
  <2>1. SameBelow(new, old, dir)
    BY <1>4 DEF SameBelow
  <2>2. FileLines(old, dir) = FileLines(new, dir) /\ SubDirs(old, dir) = SubDirs(new, dir)
    <3>1. FileLines(old, dir) \subseteq FileLines(new, dir) /\ SubDirs(old, dir) \subseteq SubDirs(new, dir)
      BY <1>4, SameInside
    <3>2. FileLines(new, dir) \subseteq FileLines(old, dir) /\ SubDirs(new, dir) \subseteq SubDirs(old, dir)
      BY <2>1, SameInside
    <3> QED
      BY <3>1, <3>2
  <2>3. ASSUME NEW s \in SubDirs(old, dir) PROVE u[s] = v[s]
    <3>1. SameBelow(old, new, s)
      BY <1>4, SubDirAbove DEF SameBelow
    <3> QED
      BY <1>2, <2>2, <3>1
  <2>4. LinesOfDir(u, old, dir) = LinesOfDir(v, old, dir)
    BY <2>3, SameLines
  <2>5. LinesOfDir(v, old, dir) = LinesOfDir(v, new, dir)
    BY <2>2 DEF LinesOfDir
  <2> QED
    BY <1>1, <2>4, <2>5 DEF RollsUp
<1> QED
  BY <1>3, <1>4 DEF HashTells, u, v

LEMMA HashesTell ==
  ASSUME NEW old, NEW new
  PROVE  \A dir \in Dirs(old) \cap Dirs(new) : HashTells(old, new, dir)
<1>1. PICK n \in Nat : DirsWithin(old, n)
  BY DirsAre
<1>2. /\ \A d \in Dirs(old) : Len(d) \in Nat /\ Len(d) <= n
      /\ \A d \in Dirs(old) : \A s \in SubDirs(old, d) : s \in Dirs(old) /\ Len(s) = Len(d) + 1
  BY <1>1 DEF DirsWithin, Paths
<1> DEFINE Bad == {k \in Nat : \E dir \in Dirs(old) \cap Dirs(new) : k = n - Len(dir) /\ ~HashTells(old, new, dir)}
<1>3. SUFFICES ASSUME Bad # {} PROVE FALSE
  <2>1. \A dir \in Dirs(old) \cap Dirs(new) : n - Len(dir) \in Nat
    BY <1>2
  <2> QED
    BY <2>1
<1>4. PICK k \in Bad : \A j \in Bad : k <= j
  <2>1. Bad \in SUBSET Nat
    OBVIOUS
  <2> HIDE DEF Bad
  <2> QED
    BY <1>3, <2>1, LeastOf
<1>5. PICK dir \in Dirs(old) \cap Dirs(new) : k = n - Len(dir) /\ ~HashTells(old, new, dir)
  BY <1>4
<1>6. ASSUME NEW s \in SubDirs(old, dir) \cap SubDirs(new, dir) PROVE HashTells(old, new, s)
  <2>1. s \in Dirs(old) /\ s \in Dirs(new) /\ Len(s) = Len(dir) + 1 /\ Len(s) \in Nat /\ Len(s) <= n
    BY <1>2 DEF SubDirs
  <2>2. n - Len(s) \in Nat /\ ~(k <= n - Len(s))
    BY <1>2, <1>5, <2>1
  <2>3. n - Len(s) \notin Bad
    BY <1>4, <2>2
  <2> QED
    BY <2>1, <2>2, <2>3
<1>7. HashTells(old, new, dir)
  BY <1>6, HashTellsUp
<1> QED
  BY <1>5, <1>7

LEMMA SkipsOnlyWhatIsUnchanged == SkipsOnlyUnchanged
<1>1. \A d \in Dirs(before) \cap Dirs(after) : d \in UnchangedDirs <=> SameBelow(before, after, d)
  BY HashesTell DEF UnchangedDirs, HashTells
<1>2. ASSUME NEW f \in Tracked(after), Skippable(f, UnchangedDirs) PROVE before[f] = after[f]
  <2>1. PICK d \in Ancestors(f) : d \in UnchangedDirs
    BY <1>2 DEF Skippable
  <2>2. d \in Dirs(before) \cap Dirs(after)
    BY <2>1 DEF UnchangedDirs
  <2> QED
    BY <1>1, <2>1, <2>2 DEF SameBelow, Tracked
<1> QED
  BY <1>1, <1>2 DEF SkipsOnlyUnchanged, SameBelow

(***************************************************************************)
(* A file that is skipped has the content of the last scan, and a          *)
(* directory counts as unchanged exactly when everything below it is, for  *)
(* every finite tree, all contents and all changes between the scans:      *)
(* files that come, go or make way for a directory (diffDirRollups and     *)
(* makeSkippablePredicate, dir-merkle.ts 158-209).                         *)
(***************************************************************************)
THEOREM SkippedIsUnchanged == DirsSpec => []SkipsOnlyUnchanged
BY SkipsOnlyWhatIsUnchanged, PTL

-----------------------------------------------------------------------------
(***************************************************************************)
(* The impact of a change is reported at its distance, for every set of    *)
(* files, edges and depth.  The queue of the loop is in the order of the   *)
(* depths and holds no two that differ by more than one, and what has left *)
(* it has met all its dependents one step further at most (WalkInv).  A    *)
(* row is counted when it is queued, so the turns are enough (Counted).    *)
(***************************************************************************)
\* The rows of a statement, each at some place.
LEMMA OrderOf ==
  ASSUME NEW S, IsFiniteSet(S)
  PROVE  /\ SetToSeq(S) \in Seq(S) /\ Len(SetToSeq(S)) = Cardinality(S)
         /\ \A x \in S : \E i \in 1 .. Cardinality(S) : SetToSeq(S)[i] = x
<1> DEFINE n == Cardinality(S)
           order == SetToSeq(S)
<1>1. n \in Nat /\ ExistsBijection(1 .. n, S)
  BY FS_CardinalityType
<1>2. \E f \in [1 .. n -> S] : IsInjective(f)
  BY <1>1 DEF ExistsBijection, Bijection, Injection, IsInjective
<1>3. order \in [1 .. n -> S] /\ IsInjective(order)
  BY <1>2 DEF SetToSeq
<1>4. order \in Injection(1 .. n, S)
  BY <1>3 DEF Injection, IsInjective
<1>5. Cardinality(1 .. n) = n /\ IsFiniteSet(1 .. n)
  BY <1>1, FS_Interval
<1> HIDE DEF order, n
<1>6. order \in Surjection(1 .. n, S)
  BY <1>4, <1>5, FS_Injection DEF n
<1>7. \A x \in S : \E i \in 1 .. n : order[i] = x
  BY <1>6 DEF Surjection
<1>8. order \in Seq(S) /\ Len(order) = n
  BY <1>1, <1>3
<1> QED
  BY <1>7, <1>8 DEF order, n

\* The rows at most k steps away.
Steps(F, next, from, far, near) ==
  /\ near \in [0 .. far -> SUBSET F] /\ near[0] = from
  /\ \A k \in 1 .. far : near[k] = near[k - 1] \cup UNION {next[n] : n \in near[k - 1]}

LEMMA SpreadIs ==
  ASSUME NEW F, NEW next \in [F -> SUBSET F], NEW from \in SUBSET F, NEW far \in Nat
  PROVE  Steps(F, next, from, far, Spread(next, from, far))
<1> DEFINE jump == [k \in 1 .. far |-> k - 1]
           wider == [near \in SUBSET F |-> near \cup UNION {next[n] : n \in near}]
           step == [k \in 1 .. far |-> wider]
<1>1. wider \in [SUBSET F -> SUBSET F]
  OBVIOUS
<1>2. jump \in [1 .. far -> Nat] /\ \A k \in 1 .. far : jump[k] < k
  OBVIOUS
<1>3. step \in [1 .. far -> [SUBSET F -> SUBSET F]]
  <2> HIDE DEF wider
  <2> QED
    BY <1>1
<1>4. Stepwise(far, SUBSET F, from, jump, step)
  <2> HIDE DEF jump, step
  <2> QED
    BY <1>2, <1>3, Recurses, Zenon
<1>5. PICK f \in [0 .. far -> SUBSET F] : f[0] = from /\ \A k \in 1 .. far : f[k] = step[k][f[jump[k]]]
  BY <1>4 DEF Stepwise
<1> DEFINE In[k \in 0 .. far] ==
             IF k = 0 THEN from
             ELSE LET nearer == In[k - 1] IN nearer \cup UNION {next[n] : n \in nearer}
           Is(g) == g = [k \in 0 .. far |->
                           IF k = 0 THEN from
                           ELSE LET nearer == g[k - 1] IN nearer \cup UNION {next[n] : n \in nearer}]
<1>6. \A k \in 1 .. far : f[k] = f[k - 1] \cup UNION {next[n] : n \in f[k - 1]}
  <2> SUFFICES ASSUME NEW k \in 1 .. far PROVE f[k] = f[k - 1] \cup UNION {next[n] : n \in f[k - 1]}
    OBVIOUS
  <2>1. f[k] = step[k][f[jump[k]]]
    BY <1>5
  <2>2. k - 1 \in 0 .. far
    OBVIOUS
  <2>3. f[k - 1] \in SUBSET F
    BY <2>2
  <2>4. jump[k] = k - 1
    OBVIOUS
  <2>5. step[k] = wider
    BY Zenon
  <2>6. f[k] = wider[f[k - 1]]
    BY <2>1, <2>4, <2>5, Zenon
  <2> HIDE DEF step, jump
  <2> QED
    BY <2>3, <2>6
<1>7. \A k \in 0 .. far : f[k] = IF k = 0 THEN from
                                 ELSE f[k - 1] \cup UNION {next[n] : n \in f[k - 1]}
  <2>1. \A k \in 0 .. far : k = 0 \/ k \in 1 .. far
    OBVIOUS
  <2> QED
    BY <1>5, <1>6, <2>1
<1>8. Is(f)
  BY <1>7, Zenon
<1>9. Is(In)
  BY <1>8
<1>10. Spread(next, from, far) = In
  BY DEF Spread
<1> HIDE DEF In
<1>11. \A k \in 0 .. far : In[k] = IF k = 0 THEN from
                                   ELSE In[k - 1] \cup UNION {next[n] : n \in In[k - 1]}
  BY <1>9
<1>12. In[0] = from /\ \A k \in 1 .. far : In[k] = In[k - 1] \cup UNION {next[n] : n \in In[k - 1]}
  <2>1. 0 \in 0 .. far /\ \A k \in 1 .. far : k \in 0 .. far /\ k # 0
    OBVIOUS
  <2> QED
    BY <1>11, <2>1
<1>13. \A k \in 0 .. far : In[k] \in SUBSET F
  <2> DEFINE T == {k \in 0 .. far : In[k] \in SUBSET F}
  <2>1. 0 \in T
    BY <1>12
  <2>2. ASSUME NEW k \in 0 .. far - 1, k \in T PROVE k + 1 \in T
    <3>1. k + 1 \in 1 .. far /\ k + 1 - 1 = k /\ k + 1 \in 0 .. far
      OBVIOUS
    <3>2. In[k + 1] = In[k] \cup UNION {next[n] : n \in In[k]}
      BY <1>12, <3>1
    <3>3. In[k] \in SUBSET F
      BY <2>2
    <3> QED
      BY <3>1, <3>2, <3>3
  <2>3. \A k \in 0 .. far : k \in T
    <3> HIDE DEF T
    <3> QED
      BY <2>1, <2>2, Inducts
  <2> QED
    BY <2>3
<1>14. In = [k \in 0 .. far |-> In[k]]
  BY <1>9
<1> QED
  BY <1>10, <1>12, <1>13, <1>14 DEF Steps

-----------------------------------------------------------------------------
WalkState(F) == [seen : [F -> Int], queue : Seq(F)]

InWalk(F, next, from, limit) ==
  /\ IsFiniteSet(F) /\ next \in [F -> SUBSET F] /\ from \in SUBSET F /\ limit \in Nat

\* What is found on a turn.
LEMMA FoundIs ==
  ASSUME NEW F, NEW next, NEW from, NEW limit, InWalk(F, next, from, limit),
         NEW w \in WalkState(F), NEW n \in F
  PROVE  /\ Found(next, limit, w, n) \in SUBSET next[n]
         /\ Found(next, limit, w, n) \in SUBSET F
         /\ IsFiniteSet(Found(next, limit, w, n))
         /\ SetToSeq(Found(next, limit, w, n)) \in Seq(F)
         /\ \A m \in Found(next, limit, w, n) : w.seen[m] = Unseen /\ w.seen[n] < limit
         /\ w.seen[n] < limit => \A m \in next[n] \ Found(next, limit, w, n) : w.seen[m] # Unseen
<1> DEFINE found == Found(next, limit, w, n)
<1>1. w.seen[n] \in Int /\ limit \in Int /\ next[n] \in SUBSET F
  BY DEF InWalk, WalkState
<1>2. found \in SUBSET next[n]
  BY DEF Found
<1>3. \A m \in found : w.seen[m] = Unseen /\ w.seen[n] < limit
  BY <1>1 DEF Found
<1>4. w.seen[n] < limit => \A m \in next[n] \ found : w.seen[m] # Unseen
  BY <1>1 DEF Found
<1> HIDE DEF found
<1>5. found \in SUBSET F
  BY <1>1, <1>2
<1>6. IsFiniteSet(found)
  BY <1>5, FS_Subset DEF InWalk
<1>7. SetToSeq(found) \in Seq(F)
  <2>1. SetToSeq(found) \in Seq(found)
    BY <1>6, OrderOf
  <2> HIDE DEF found
  <2> QED
    BY <1>5, <2>1
<1> QED
  BY <1>2, <1>3, <1>4, <1>5, <1>6, <1>7 DEF found

LEMMA StartedTyped ==
  ASSUME NEW F, NEW next, NEW from, NEW limit, InWalk(F, next, from, limit)
  PROVE  /\ Started(next, from) \in WalkState(F)
         /\ \A n \in F : Started(next, from).seen[n] = IF n \in from THEN 0 ELSE Unseen
         /\ Started(next, from).queue = SetToSeq(from)
<1>1. SetToSeq(from) \in Seq(from) /\ from \in SUBSET F
  BY OrderOf, FS_Subset DEF InWalk
<1>2. SetToSeq(from) \in Seq(F)
  BY <1>1
<1>3. DOMAIN next = F
  BY DEF InWalk
<1> QED
  BY <1>2, <1>3 DEF Started, WalkState, Unseen

\* A turn takes the first row from the queue and puts what it finds at the end.
TurnFrom(F, n, found, w, v) ==
  /\ n \in F /\ v \in WalkState(F)
  /\ v.queue = Tail(w.queue) \o SetToSeq(found)
  /\ \A m \in F : v.seen[m] = IF m \in found THEN w.seen[n] + 1 ELSE w.seen[m]

LEMMA TurnIs ==
  ASSUME NEW F, NEW next, NEW from, NEW limit, InWalk(F, next, from, limit),
         NEW w \in WalkState(F), w.queue # <<>>
  PROVE  TurnFrom(F, Head(w.queue), Found(next, limit, w, Head(w.queue)), w, Turned(next, limit, w))
<1> DEFINE n == Head(w.queue)
           found == Found(next, limit, w, n)
<1>1. w.queue \in Seq(F) /\ w.seen \in [F -> Int]
  BY DEF WalkState
<1>2. n \in F /\ Tail(w.queue) \in Seq(F)
  BY <1>1
<1>3. SetToSeq(found) \in Seq(F)
  BY <1>2, FoundIs
<1>4. Turned(next, limit, w) = [seen |-> Marked(w, n, found), queue |-> Tail(w.queue) \o SetToSeq(found)]
  BY DEF Turned
<1> HIDE DEF n, found
<1>5. Tail(w.queue) \o SetToSeq(found) \in Seq(F)
  BY <1>2, <1>3
<1>6. /\ Marked(w, n, found) \in [F -> Int]
      /\ \A m \in F : Marked(w, n, found)[m] = IF m \in found THEN w.seen[n] + 1 ELSE w.seen[m]
  BY <1>1, <1>2 DEF Marked
<1> QED
  BY <1>2, <1>4, <1>5, <1>6 DEF n, found, WalkState, TurnFrom

LEMMA TurnTyped ==
  ASSUME NEW F, NEW next, NEW from, NEW limit, InWalk(F, next, from, limit),
         NEW w \in WalkState(F)
  PROVE  Turned(next, limit, w) \in WalkState(F)
<1>1. CASE w.queue = <<>>
  BY <1>1 DEF Turned
<1>2. CASE w.queue # <<>>
  BY <1>2, TurnIs DEF TurnFrom
<1> QED
  BY <1>1, <1>2

\* The states of the loop, one turn after the other.
WalkTurns(next, from, limit, turns, f) ==
  /\ f[0] = Started(next, from)
  /\ \A k \in 1 .. turns : f[k] = Turned(next, limit, f[k - 1])
  /\ WalkFrom(next, from, limit) = f[turns].seen

LEMMA WalkIs ==
  ASSUME NEW F, NEW next, NEW from, NEW limit, InWalk(F, next, from, limit)
  PROVE  \E f \in [0 .. Cardinality(F) -> WalkState(F)] :
           WalkTurns(next, from, limit, Cardinality(F), f)
<1> DEFINE turns == Cardinality(F)
           jump == [k \in 1 .. turns |-> k - 1]
           turn == [w \in WalkState(F) |-> Turned(next, limit, w)]
           step == [k \in 1 .. turns |-> turn]
<1>1. turns \in Nat /\ DOMAIN next = F
  BY FS_CardinalityType DEF InWalk
<1>2. turn \in [WalkState(F) -> WalkState(F)]
  <2>1. \A w \in WalkState(F) : Turned(next, limit, w) \in WalkState(F)
    BY TurnTyped
  <2> QED
    BY <2>1
<1>3. Started(next, from) \in WalkState(F)
  BY StartedTyped
<1> HIDE DEF turns
<1>4. jump \in [1 .. turns -> Nat] /\ \A k \in 1 .. turns : jump[k] < k
  BY <1>1
<1>5. step \in [1 .. turns -> [WalkState(F) -> WalkState(F)]]
  <2> HIDE DEF turn
  <2> QED
    BY <1>2
<1>6. Stepwise(turns, WalkState(F), Started(next, from), jump, step)
  <2> HIDE DEF jump, step
  <2> QED
    BY <1>1, <1>3, <1>4, <1>5, Recurses, Zenon
<1>7. PICK f \in [0 .. turns -> WalkState(F)] :
        f[0] = Started(next, from) /\ \A k \in 1 .. turns : f[k] = step[k][f[jump[k]]]
  BY <1>6 DEF Stepwise
<1>8. \A k \in 1 .. turns : f[k] = Turned(next, limit, f[k - 1])
  <2> SUFFICES ASSUME NEW k \in 1 .. turns PROVE f[k] = Turned(next, limit, f[k - 1])
    OBVIOUS
  <2>1. f[k] = step[k][f[jump[k]]]
    BY <1>7
  <2>2. k - 1 \in 0 .. turns
    BY <1>1
  <2>3. f[k - 1] \in WalkState(F)
    BY <2>2
  <2>4. jump[k] = k - 1
    OBVIOUS
  <2>5. step[k] = turn
    BY Zenon
  <2>6. f[k] = turn[f[k - 1]]
    BY <2>1, <2>4, <2>5, Zenon
  <2> QED
    BY <2>3, <2>6, Zenon
<1> DEFINE After[k \in 0 .. turns] ==
             IF k = 0 THEN Started(next, from) ELSE Turned(next, limit, After[k - 1])
           Is(g) == g = [k \in 0 .. turns |->
                           IF k = 0 THEN Started(next, from) ELSE Turned(next, limit, g[k - 1])]
<1>9. \A k \in 0 .. turns : f[k] = IF k = 0 THEN Started(next, from)
                                   ELSE Turned(next, limit, f[k - 1])
  <2>1. \A k \in 0 .. turns : k = 0 \/ k \in 1 .. turns
    BY <1>1
  <2> QED
    BY <1>7, <1>8, <2>1
<1>10. Is(f)
  BY <1>9, Zenon
<1>11. Is(After)
  BY <1>10
<1>12. WalkFrom(next, from, limit) = After[turns].seen
  BY <1>1, Zenon DEF WalkFrom, turns
<1> HIDE DEF After
<1>13. \A k \in 0 .. turns : After[k] = IF k = 0 THEN Started(next, from)
                                        ELSE Turned(next, limit, After[k - 1])
  BY <1>11, Zenon
<1>14. After[0] = Started(next, from) /\ \A k \in 1 .. turns : After[k] = Turned(next, limit, After[k - 1])
  <2>1. 0 \in 0 .. turns /\ \A k \in 1 .. turns : k \in 0 .. turns /\ k # 0
    BY <1>1
  <2> QED
    BY <1>13, <2>1
<1>15. \A k \in 0 .. turns : After[k] \in WalkState(F)
  <2> DEFINE T == {k \in 0 .. turns : After[k] \in WalkState(F)}
  <2>1. 0 \in T
    BY <1>1, <1>3, <1>14
  <2>2. ASSUME NEW k \in 0 .. turns - 1, k \in T PROVE k + 1 \in T
    <3>1. k + 1 \in 1 .. turns /\ k + 1 - 1 = k /\ k + 1 \in 0 .. turns
      BY <1>1
    <3>2. After[k + 1] = Turned(next, limit, After[k])
      BY <1>14, <3>1
    <3>3. After[k] \in WalkState(F)
      BY <2>2
    <3> QED
      BY <3>1, <3>2, <3>3, TurnTyped
  <2>3. \A k \in 0 .. turns : k \in T
    <3> HIDE DEF T
    <3> QED
      BY <1>1, <2>1, <2>2, Inducts
  <2> QED
    BY <2>3
<1>16. After = [k \in 0 .. turns |-> After[k]]
  BY <1>11
<1>17. After \in [0 .. turns -> WalkState(F)]
  BY <1>15, <1>16
<1> QED
  BY <1>12, <1>14, <1>17 DEF turns, WalkTurns

-----------------------------------------------------------------------------
\* A row that has met all that lies one step further.
Expanded(next, w, n) == \A m \in next[n] : w.seen[m] # Unseen /\ w.seen[m] <= w.seen[n] + 1

WalkInv(F, next, from, limit, near, w) ==
  /\ w \in WalkState(F)
  /\ \A n \in F : w.seen[n] # Unseen => w.seen[n] \in 0 .. limit /\ n \in near[w.seen[n]]
  /\ \A n \in from : w.seen[n] = 0
  /\ \A i \in 1 .. Len(w.queue) : w.seen[w.queue[i]] # Unseen
  /\ \A i, j \in 1 .. Len(w.queue) : i <= j => w.seen[w.queue[i]] <= w.seen[w.queue[j]]
  /\ w.queue # <<>> => \A n \in F : w.seen[n] <= w.seen[Head(w.queue)] + 1
  /\ \A n \in F :
       w.seen[n] # Unseen /\ w.seen[n] < limit
         => (\E i \in 1 .. Len(w.queue) : w.queue[i] = n) \/ Expanded(next, w, n)

LEMMA StartedInv ==
  ASSUME NEW F, NEW next, NEW from, NEW limit, InWalk(F, next, from, limit), NEW near,
         Steps(F, next, from, limit, near)
  PROVE  WalkInv(F, next, from, limit, near, Started(next, from))
<1> DEFINE w == Started(next, from)
<1>1. /\ w \in WalkState(F)
      /\ \A n \in F : w.seen[n] = IF n \in from THEN 0 ELSE Unseen
      /\ w.queue = SetToSeq(from)
  BY StartedTyped
<1> HIDE DEF w
<1>2. limit \in Nat /\ from \in SUBSET F /\ near[0] = from
  BY DEF InWalk, Steps
<1>3. IsFiniteSet(from)
  BY FS_Subset DEF InWalk
<1>4. /\ w.queue \in Seq(from) /\ Len(w.queue) \in Nat
      /\ \A n \in from : \E i \in 1 .. Len(w.queue) : w.queue[i] = n
  BY <1>1, <1>3, OrderOf
<1>5. \A i \in 1 .. Len(w.queue) : w.queue[i] \in from
  BY <1>4
<1>6. \A n \in F : w.seen[n] # Unseen => n \in from /\ w.seen[n] = 0
  BY <1>1
<1>7. \A n \in from : w.seen[n] = 0 /\ w.seen[n] # Unseen
  BY <1>1, <1>2 DEF Unseen
<1>8. \A n \in F : w.seen[n] # Unseen => w.seen[n] \in 0 .. limit /\ n \in near[w.seen[n]]
  BY <1>2, <1>6
<1>9. \A i \in 1 .. Len(w.queue) : w.seen[w.queue[i]] = 0
  BY <1>5, <1>7
<1>10. \A i, j \in 1 .. Len(w.queue) : i <= j => w.seen[w.queue[i]] <= w.seen[w.queue[j]]
  BY <1>9
<1>11. w.queue # <<>> => \A n \in F : w.seen[n] <= w.seen[Head(w.queue)] + 1
  <2> SUFFICES ASSUME w.queue # <<>>, NEW n \in F PROVE w.seen[n] <= w.seen[Head(w.queue)] + 1
    OBVIOUS
  <2>1. Head(w.queue) = w.queue[1] /\ 1 \in 1 .. Len(w.queue)
    BY <1>4
  <2>2. w.seen[Head(w.queue)] = 0
    BY <1>9, <2>1
  <2>3. w.seen[n] = 0 \/ w.seen[n] = -1
    BY <1>1 DEF Unseen
  <2>4. 0 <= 0 + 1 /\ -1 <= 0 + 1
    OBVIOUS
  <2> QED
    BY <2>2, <2>3, <2>4, Zenon
<1>12. \A n \in F : w.seen[n] # Unseen => \E i \in 1 .. Len(w.queue) : w.queue[i] = n
  BY <1>4, <1>6
<1>13. \A i \in 1 .. Len(w.queue) : w.seen[w.queue[i]] # Unseen
  BY <1>5, <1>7
<1> QED
  BY <1>1, <1>7, <1>8, <1>10, <1>11, <1>12, <1>13, Zenon DEF WalkInv, w

LEMMA TurnKeeps ==
  ASSUME NEW F, NEW next, NEW from, NEW limit, InWalk(F, next, from, limit), NEW near,
         Steps(F, next, from, limit, near), NEW w, WalkInv(F, next, from, limit, near, w)
  PROVE  WalkInv(F, next, from, limit, near, Turned(next, limit, w))
<1>1. CASE w.queue = <<>>
  BY <1>1 DEF Turned
<1>2. CASE w.queue # <<>>
  <2> DEFINE h == Head(w.queue)
             found == Found(next, limit, w, h)
             v == Turned(next, limit, w)
             new == SetToSeq(found)
  <2>1. w \in WalkState(F) /\ w.queue \in Seq(F) /\ w.seen \in [F -> Int]
    BY DEF WalkInv, WalkState
  <2>2. /\ h \in F /\ v \in WalkState(F) /\ v.queue = Tail(w.queue) \o new
        /\ \A m \in F : v.seen[m] = IF m \in found THEN w.seen[h] + 1 ELSE w.seen[m]
    <3>1. TurnFrom(F, h, found, w, v)
      BY <1>2, <2>1, TurnIs
    <3> HIDE DEF h, found, v
    <3> QED
      BY <3>1 DEF TurnFrom
  <2>3. /\ found \in SUBSET next[h] /\ found \in SUBSET F /\ IsFiniteSet(found)
        /\ \A m \in found : w.seen[m] = Unseen /\ w.seen[h] < limit
        /\ w.seen[h] < limit => \A m \in next[h] \ found : w.seen[m] # Unseen
    BY <2>1, <2>2, FoundIs
  <2>4. /\ new \in Seq(found) /\ Len(new) \in Nat
        /\ \A x \in found : \E i \in 1 .. Len(new) : new[i] = x
        /\ \A i \in 1 .. Len(new) : new[i] \in found
    <3>1. new \in Seq(found) /\ \A x \in found : \E i \in 1 .. Len(new) : new[i] = x
      <4> HIDE DEF found
      <4> QED
        BY <2>3, OrderOf
    <3> HIDE DEF new
    <3> QED
      BY <3>1
  <2>5. limit \in Nat /\ next \in [F -> SUBSET F] /\ from \in SUBSET F
    BY DEF InWalk
  <2> HIDE DEF found, v, new
  <2>6. h = w.queue[1] /\ Len(w.queue) \in Nat \ {0} /\ 1 \in 1 .. Len(w.queue)
    BY <1>2, <2>1
  <2> HIDE DEF h
  <2>7. w.seen[h] # Unseen /\ w.seen[h] \in 0 .. limit /\ h \in near[w.seen[h]]
    BY <2>2, <2>6 DEF WalkInv
  <2>8. v.seen \in [F -> Int]
    BY <2>2 DEF WalkState
  <2>9. \A m \in F : w.seen[m] # Unseen => v.seen[m] = w.seen[m]
    BY <2>2, <2>3
  <2>10. \A m \in F : v.seen[m] # Unseen => w.seen[m] # Unseen \/ m \in found
    BY <2>2
  <2>11. \A m \in found : v.seen[m] = w.seen[h] + 1 /\ v.seen[m] # Unseen
    BY <2>2, <2>3, <2>7 DEF Unseen
  <2>12. ASSUME NEW n \in F, v.seen[n] # Unseen PROVE v.seen[n] \in 0 .. limit /\ n \in near[v.seen[n]]
    <3>1. CASE w.seen[n] # Unseen
      BY <2>9, <3>1 DEF WalkInv
    <3>2. CASE n \in found
      <4>1. w.seen[h] + 1 \in 1 .. limit /\ w.seen[h] + 1 - 1 = w.seen[h]
        BY <2>3, <2>5, <2>7, <3>2
      <4> DEFINE k == w.seen[h] + 1
      <4>2. near[k] = near[k - 1] \cup UNION {next[x] : x \in near[k - 1]}
        <5> HIDE DEF k
        <5> QED
          BY <4>1, Zenon DEF Steps, k
      <4>3. n \in next[h]
        BY <2>3, <3>2
      <4>4. n \in near[k]
        <5>1. h \in near[k - 1]
          BY <2>7, <4>1
        <5> HIDE DEF k
        <5> QED
          BY <4>2, <4>3, <5>1
      <4> QED
        BY <2>11, <3>2, <4>1, <4>4
    <3> QED
      BY <2>10, <2>12, <3>1, <3>2
  <2>13. \A n \in from : v.seen[n] = 0
    <3>1. \A n \in from : n \in F /\ w.seen[n] = 0
      BY <2>5 DEF WalkInv
    <3> QED
      BY <2>9, <3>1 DEF Unseen
  <2>14. \A i \in 1 .. Len(w.queue) :
           /\ w.queue[i] \in F /\ w.seen[w.queue[i]] # Unseen
           /\ v.seen[w.queue[i]] = w.seen[w.queue[i]]
    <3>1. \A i \in 1 .. Len(w.queue) : w.queue[i] \in F
      BY <2>1
    <3> QED
      BY <2>9, <3>1 DEF WalkInv
  <2>15. /\ Len(v.queue) \in Nat
         /\ Len(v.queue) = Len(w.queue) - 1 + Len(new)
         /\ \A i \in 1 .. Len(w.queue) - 1 : v.queue[i] = w.queue[i + 1]
         /\ \A i \in Len(w.queue) .. Len(v.queue) :
              v.queue[i] = new[i - Len(w.queue) + 1] /\ i - Len(w.queue) + 1 \in 1 .. Len(new)
    <3>1. /\ Tail(w.queue) \in Seq(F) /\ Len(Tail(w.queue)) = Len(w.queue) - 1
          /\ \A i \in 1 .. Len(w.queue) - 1 : Tail(w.queue)[i] = w.queue[i + 1]
      BY <1>2, <2>1
    <3>2. new \in Seq(F)
      BY <2>3, <2>4
    <3> DEFINE old == Tail(w.queue)
    <3> HIDE DEF old
    <3>3. /\ Len(old \o new) = Len(old) + Len(new)
          /\ \A i \in 1 .. Len(old) + Len(new) :
               (old \o new)[i] = IF i <= Len(old) THEN old[i] ELSE new[i - Len(old)]
      BY <3>1, <3>2, ConcatProperties DEF old
    <3>4. v.queue = old \o new
      BY <2>2, Zenon DEF old
    <3>5. Len(old) = Len(w.queue) - 1 /\ \A i \in 1 .. Len(w.queue) - 1 : old[i] = w.queue[i + 1]
      BY <3>1 DEF old
    <3>6. Len(v.queue) = Len(w.queue) - 1 + Len(new) /\ Len(v.queue) \in Nat
      BY <2>4, <2>6, <3>3, <3>4, <3>5
    <3>7. ASSUME NEW i \in 1 .. Len(w.queue) - 1 PROVE v.queue[i] = w.queue[i + 1]
      <4>1. i \in 1 .. Len(old) + Len(new) /\ i <= Len(old)
        BY <2>4, <2>6, <3>5
      <4> QED
        BY <3>3, <3>4, <3>5, <4>1
    <3>8. ASSUME NEW i \in Len(w.queue) .. Len(v.queue)
          PROVE  v.queue[i] = new[i - Len(w.queue) + 1] /\ i - Len(w.queue) + 1 \in 1 .. Len(new)
      <4>1. i \in 1 .. Len(old) + Len(new) /\ ~(i <= Len(old)) /\ i - Len(old) = i - Len(w.queue) + 1
        BY <2>4, <2>6, <3>5, <3>6
      <4>2. i - Len(w.queue) + 1 \in 1 .. Len(new)
        BY <2>4, <2>6, <3>6
      <4> QED
        BY <3>3, <3>4, <4>1, <4>2
    <3> QED
      BY <3>6, <3>7, <3>8
  <2>16. \A i \in 1 .. Len(v.queue) :
           \/ /\ i < Len(w.queue) /\ i + 1 \in 1 .. Len(w.queue) /\ v.queue[i] = w.queue[i + 1]
              /\ v.seen[v.queue[i]] = w.seen[w.queue[i + 1]]
           \/ i >= Len(w.queue) /\ v.queue[i] \in found /\ v.seen[v.queue[i]] = w.seen[h] + 1
    <3> SUFFICES ASSUME NEW i \in 1 .. Len(v.queue)
                 PROVE  \/ /\ i < Len(w.queue) /\ i + 1 \in 1 .. Len(w.queue)
                           /\ v.queue[i] = w.queue[i + 1]
                           /\ v.seen[v.queue[i]] = w.seen[w.queue[i + 1]]
                        \/ i >= Len(w.queue) /\ v.queue[i] \in found /\ v.seen[v.queue[i]] = w.seen[h] + 1
      OBVIOUS
    <3>1. CASE i < Len(w.queue)
      <4>1. i + 1 \in 1 .. Len(w.queue) /\ i \in 1 .. Len(w.queue) - 1
        BY <2>6, <2>15, <3>1
      <4>2. v.queue[i] = w.queue[i + 1]
        BY <2>15, <4>1
      <4> QED
        BY <2>14, <3>1, <4>1, <4>2
    <3>2. CASE i >= Len(w.queue)
      <4>1. i \in Len(w.queue) .. Len(v.queue)
        BY <2>6, <2>15, <3>2
      <4>2. v.queue[i] = new[i - Len(w.queue) + 1] /\ i - Len(w.queue) + 1 \in 1 .. Len(new)
        BY <2>15, <4>1
      <4>3. v.queue[i] \in found
        BY <2>4, <4>2
      <4> QED
        BY <2>11, <3>2, <4>3
    <3> QED
      BY <2>6, <2>15, <3>1, <3>2
  <2>17. \A i \in 1 .. Len(v.queue) : v.seen[v.queue[i]] # Unseen
    <3>1. \A i \in 1 .. Len(w.queue) : w.seen[w.queue[i]] # Unseen
      BY <2>14
    <3> QED
      BY <2>11, <2>16, <3>1
  <2>18. \A i \in 1 .. Len(w.queue) : w.seen[h] <= w.seen[w.queue[i]] /\ w.seen[w.queue[i]] <= w.seen[h] + 1
    <3>1. \A i \in 1 .. Len(w.queue) : w.seen[w.queue[1]] <= w.seen[w.queue[i]]
      BY <2>6 DEF WalkInv
    <3>2. \A n \in F : w.seen[n] <= w.seen[h] + 1
      BY <1>2 DEF WalkInv, h
    <3> QED
      BY <2>6, <2>14, <3>1, <3>2
  <2>19. ASSUME NEW i \in 1 .. Len(v.queue), NEW j \in 1 .. Len(v.queue), i <= j
         PROVE  v.seen[v.queue[i]] <= v.seen[v.queue[j]]
    <3>1. v.seen[v.queue[i]] <= w.seen[h] + 1
      <4>1. w.seen[h] + 1 <= w.seen[h] + 1
        BY <2>7
      <4> QED
        BY <2>16, <2>18, <4>1
    <3>2. CASE i < Len(w.queue) /\ j < Len(w.queue)
      <4>1. /\ i + 1 \in 1 .. Len(w.queue) /\ j + 1 \in 1 .. Len(w.queue) /\ i + 1 <= j + 1
            /\ v.seen[v.queue[i]] = w.seen[w.queue[i + 1]] /\ v.seen[v.queue[j]] = w.seen[w.queue[j + 1]]
        BY <2>6, <2>15, <2>16, <2>19, <3>2
      <4> QED
        BY <4>1 DEF WalkInv
    <3>3. CASE j >= Len(w.queue)
      <4>1. v.seen[v.queue[j]] = w.seen[h] + 1
        BY <2>6, <2>15, <2>16, <3>3
      <4> QED
        BY <3>1, <4>1
    <3> QED
      BY <2>6, <2>15, <2>19, <3>2, <3>3
  <2>20. ASSUME v.queue # <<>>, NEW n \in F PROVE v.seen[n] <= v.seen[Head(v.queue)] + 1
    <3>1. v.queue \in Seq(F)
      BY <2>2 DEF WalkState
    <3>2. Head(v.queue) = v.queue[1] /\ 1 \in 1 .. Len(v.queue)
      BY <2>20, <3>1
    <3>3. w.seen[h] <= v.seen[v.queue[1]]
      <4>1. w.seen[h] <= w.seen[h] + 1
        BY <2>7
      <4> QED
        BY <2>16, <2>18, <3>2, <4>1
    <3>4. v.seen[n] <= w.seen[h] + 1
      <4>1. w.seen[n] <= w.seen[h] + 1
        BY <1>2 DEF WalkInv, h
      <4>2. w.seen[h] + 1 <= w.seen[h] + 1
        BY <2>7
      <4> QED
        BY <2>2, <4>1, <4>2
    <3>5. v.queue[1] \in F
      BY <3>1, <3>2
    <3>6. v.seen[v.queue[1]] \in Int /\ v.seen[n] \in Int /\ w.seen[h] \in Int
      BY <2>7, <2>8, <3>5
    <3> QED
      BY <3>2, <3>3, <3>4, <3>6
  <2>21. ASSUME NEW n \in F, v.seen[n] # Unseen, v.seen[n] < limit
         PROVE  (\E i \in 1 .. Len(v.queue) : v.queue[i] = n) \/ Expanded(next, v, n)
    <3>1. CASE n \in found
      <4>1. PICK i \in 1 .. Len(new) : new[i] = n
        BY <2>4, <3>1
      <4>2. /\ Len(w.queue) - 1 + i \in Len(w.queue) .. Len(v.queue)
            /\ Len(w.queue) - 1 + i \in 1 .. Len(v.queue)
            /\ (Len(w.queue) - 1 + i) - Len(w.queue) + 1 = i
        BY <2>4, <2>6, <2>15
      <4>3. v.queue[Len(w.queue) - 1 + i] = n
        BY <2>15, <4>1, <4>2
      <4> QED
        BY <4>2, <4>3
    <3>2. CASE n \notin found
      <4>1. w.seen[n] # Unseen /\ v.seen[n] = w.seen[n]
        BY <2>2, <2>21, <3>2
      <4>2. \A m \in next[n] : m \in F
        BY <2>5
      <4>3. CASE Expanded(next, w, n)
        <5>1. \A m \in next[n] : v.seen[m] = w.seen[m]
          BY <2>9, <4>2, <4>3 DEF Expanded
        <5> QED
          BY <4>1, <4>3, <5>1 DEF Expanded
      <4>4. ASSUME NEW i \in 1 .. Len(w.queue), w.queue[i] = n
            PROVE  (\E k \in 1 .. Len(v.queue) : v.queue[k] = n) \/ Expanded(next, v, n)
        <5>1. CASE i = 1
          <6>1. n = h
            BY <2>6, <4>4, <5>1
          <6>2. \A m \in next[n] : m \in found \/ w.seen[m] # Unseen
            BY <2>3, <2>21, <4>1, <6>1
          <6>3. \A m \in F : w.seen[m] <= w.seen[h] + 1
            BY <1>2 DEF WalkInv, h
          <6>4. w.seen[h] + 1 <= w.seen[h] + 1
            BY <2>7
          <6>5. \A m \in next[n] : v.seen[m] # Unseen /\ v.seen[m] <= w.seen[h] + 1
            BY <2>9, <2>11, <4>2, <6>2, <6>3, <6>4
          <6> QED
            BY <4>1, <6>1, <6>5 DEF Expanded
        <5>2. CASE i # 1
          <6>1. i - 1 \in 1 .. Len(w.queue) - 1 /\ i - 1 \in 1 .. Len(v.queue) /\ i - 1 + 1 = i
            BY <2>4, <2>6, <2>15, <5>2
          <6>2. v.queue[i - 1] = n
            BY <2>15, <4>4, <6>1
          <6> QED
            BY <6>1, <6>2
        <5> QED
          BY <5>1, <5>2
      <4>5. (\E i \in 1 .. Len(w.queue) : w.queue[i] = n) \/ Expanded(next, w, n)
        BY <2>21, <4>1 DEF WalkInv
      <4> QED
        BY <4>3, <4>4, <4>5
    <3> QED
      BY <3>1, <3>2
  <2>22. WalkInv(F, next, from, limit, near, v)
    BY <2>2, <2>12, <2>13, <2>17, <2>19, <2>20, <2>21, Zenon DEF WalkInv
  <2> QED
    BY <2>22 DEF v
<1> QED
  BY <1>1, <1>2

\* A row is counted when it is queued.
MetRows(F, w) == {n \in F : w.seen[n] # Unseen}
Counted(F, w, k) == w.queue = <<>> \/ k + Len(w.queue) = Cardinality(MetRows(F, w))

LEMMA TurnCounts ==
  ASSUME NEW F, NEW next, NEW from, NEW limit, InWalk(F, next, from, limit), NEW near,
         NEW w, WalkInv(F, next, from, limit, near, w), NEW k \in Nat, Counted(F, w, k)
  PROVE  Counted(F, Turned(next, limit, w), k + 1)
<1>1. CASE w.queue = <<>>
  BY <1>1 DEF Turned, Counted
<1>2. CASE w.queue # <<>>
  <2> DEFINE h == Head(w.queue)
             found == Found(next, limit, w, h)
             v == Turned(next, limit, w)
             new == SetToSeq(found)
  <2>1. w \in WalkState(F) /\ w.queue \in Seq(F) /\ w.seen \in [F -> Int]
    BY DEF WalkInv, WalkState
  <2>2. TurnFrom(F, h, found, w, v)
    BY <1>2, <2>1, TurnIs
  <2>3. h \in F
    BY <2>2 DEF TurnFrom
  <2>4. /\ found \in SUBSET F /\ IsFiniteSet(found)
        /\ \A m \in found : w.seen[m] = Unseen
    BY <2>1, <2>3, FoundIs
  <2>5. new \in Seq(F) /\ Len(new) = Cardinality(found)
    <3>1. new \in Seq(found) /\ Len(new) = Cardinality(found)
      <4> HIDE DEF found
      <4> QED
        BY <2>4, OrderOf
    <3> HIDE DEF new, found
    <3> QED
      BY <2>4, <3>1
  <2>6. w.seen[h] \in Nat
    <3>1. h = w.queue[1] /\ 1 \in 1 .. Len(w.queue)
      BY <1>2, <2>1
    <3>2. w.seen[h] # Unseen
      BY <3>1 DEF WalkInv
    <3>3. w.seen[h] \in 0 .. limit /\ limit \in Nat
      BY <2>3, <3>2 DEF WalkInv, InWalk
    <3> HIDE DEF h
    <3> QED
      BY <3>3
  <2> HIDE DEF h, found, v, new
  <2>7. MetRows(F, v) = MetRows(F, w) \cup found
    <3>1. \A m \in F : v.seen[m] = IF m \in found THEN w.seen[h] + 1 ELSE w.seen[m]
      BY <2>2 DEF TurnFrom
    <3>2. \A m \in found : m \in F /\ v.seen[m] # Unseen
      BY <2>4, <2>6, <3>1 DEF Unseen
    <3>3. \A m \in F \ found : v.seen[m] = w.seen[m]
      BY <3>1
    <3> QED
      BY <3>2, <3>3 DEF MetRows
  <2>8. MetRows(F, w) \cap found = {} /\ MetRows(F, w) \in SUBSET F
    BY <2>4 DEF MetRows
  <2>9. IsFiniteSet(MetRows(F, w))
    BY <2>8, FS_Subset DEF InWalk
  <2>10. /\ Cardinality(MetRows(F, v)) = Cardinality(MetRows(F, w)) + Cardinality(found)
         /\ Cardinality(MetRows(F, w)) \in Nat /\ Cardinality(found) \in Nat
    <3>1. Cardinality(MetRows(F, w) \cup found) =
            Cardinality(MetRows(F, w)) + Cardinality(found) - Cardinality(MetRows(F, w) \cap found)
      BY <2>4, <2>9, FS_Union
    <3>2. Cardinality(MetRows(F, w) \cap found) = 0
      BY <2>8, FS_EmptySet
    <3>3. Cardinality(MetRows(F, w)) \in Nat /\ Cardinality(found) \in Nat
      BY <2>4, <2>9, FS_CardinalityType
    <3> QED
      BY <2>7, <3>1, <3>2, <3>3
  <2>11. Len(v.queue) = Len(w.queue) - 1 + Cardinality(found)
    <3>1. v.queue = Tail(w.queue) \o new
      BY <2>2 DEF TurnFrom, new
    <3>2. Tail(w.queue) \in Seq(F) /\ Len(Tail(w.queue)) = Len(w.queue) - 1
      BY <1>2, <2>1
    <3> QED
      BY <2>5, <3>1, <3>2, ConcatProperties
  <2>12. k + Len(w.queue) = Cardinality(MetRows(F, w)) /\ Len(w.queue) \in Nat
    BY <1>2, <2>1 DEF Counted
  <2>13. k + 1 + Len(v.queue) = Cardinality(MetRows(F, v))
    <3> DEFINE l == Len(w.queue)
               q == Len(v.queue)
               x == Cardinality(MetRows(F, w))
               y == Cardinality(found)
               z == Cardinality(MetRows(F, v))
    <3>1. z = x + y /\ x \in Nat /\ y \in Nat
      BY <2>10
    <3>2. q = l - 1 + y
      BY <2>11
    <3>3. k + l = x /\ l \in Nat
      BY <2>12
    <3>4. k + 1 + q = z
      <4> HIDE DEF l, q, x, y, z
      <4> QED
        BY <3>1, <3>2, <3>3
    <3> QED
      BY <3>4
  <2> QED
    BY <2>13 DEF Counted, v
<1> QED
  BY <1>1, <1>2

\* What a walk has seen: each row within the limit, at its distance.
LEMMA WalkSees ==
  ASSUME NEW F, NEW next, NEW from, NEW limit, InWalk(F, next, from, limit), NEW near,
         Steps(F, next, from, limit, near)
  PROVE  /\ WalkFrom(next, from, limit) \in [F -> Int]
         /\ \A n \in F : WalkFrom(next, from, limit)[n] # Unseen
              => /\ WalkFrom(next, from, limit)[n] \in 0 .. limit
                 /\ n \in near[WalkFrom(next, from, limit)[n]]
         /\ \A d \in 0 .. limit : \A n \in near[d] :
              /\ WalkFrom(next, from, limit)[n] # Unseen
              /\ WalkFrom(next, from, limit)[n] <= d
<1> DEFINE turns == Cardinality(F)
<1>1. turns \in Nat /\ IsFiniteSet(F) /\ limit \in Nat /\ from \in SUBSET F /\ next \in [F -> SUBSET F]
  BY FS_CardinalityType DEF InWalk
<1>2. PICK f \in [0 .. turns -> WalkState(F)] : WalkTurns(next, from, limit, turns, f)
  BY WalkIs, Zenon
<1> HIDE DEF turns
<1>3. \A k \in 0 .. turns : WalkInv(F, next, from, limit, near, f[k]) /\ Counted(F, f[k], k)
  <2> DEFINE T == {k \in 0 .. turns : WalkInv(F, next, from, limit, near, f[k]) /\ Counted(F, f[k], k)}
  <2>1. 0 \in T
    <3>1. f[0] = Started(next, from)
      BY <1>2 DEF WalkTurns
    <3>2. WalkInv(F, next, from, limit, near, f[0])
      BY <3>1, StartedInv
    <3>3. Counted(F, f[0], 0)
      <4>1. /\ \A n \in F : f[0].seen[n] = IF n \in from THEN 0 ELSE Unseen
            /\ f[0].queue = SetToSeq(from)
        BY <3>1, StartedTyped
      <4>2. MetRows(F, f[0]) = from
        BY <1>1, <4>1 DEF MetRows, Unseen
      <4>3. IsFiniteSet(from)
        BY <1>1, FS_Subset
      <4>4. Len(f[0].queue) = Cardinality(from) /\ Cardinality(from) \in Nat
        BY <4>1, <4>3, OrderOf, FS_CardinalityType
      <4>5. 0 + Len(f[0].queue) = Cardinality(MetRows(F, f[0]))
        BY <4>2, <4>4
      <4> QED
        BY <4>5 DEF Counted
    <3> QED
      BY <1>1, <3>2, <3>3
  <2>2. ASSUME NEW k \in 0 .. turns - 1, k \in T PROVE k + 1 \in T
    <3>1. k + 1 \in 1 .. turns /\ k + 1 - 1 = k /\ k + 1 \in 0 .. turns /\ k \in Nat
      BY <1>1
    <3>2. f[k + 1] = Turned(next, limit, f[k])
      BY <1>2, <3>1 DEF WalkTurns
    <3>3. WalkInv(F, next, from, limit, near, f[k]) /\ Counted(F, f[k], k)
      BY <2>2
    <3>4. WalkInv(F, next, from, limit, near, f[k + 1])
      BY <3>2, <3>3, TurnKeeps
    <3>5. Counted(F, f[k + 1], k + 1)
      BY <3>1, <3>2, <3>3, TurnCounts
    <3> QED
      BY <3>1, <3>4, <3>5
  <2>3. \A k \in 0 .. turns : k \in T
    <3> HIDE DEF T
    <3> QED
      BY <1>1, <2>1, <2>2, Inducts
  <2> QED
    BY <2>3
<1> DEFINE w == f[turns]
<1>4. WalkInv(F, next, from, limit, near, w) /\ Counted(F, w, turns)
  BY <1>1, <1>3
<1>5. WalkFrom(next, from, limit) = w.seen
  BY <1>2 DEF WalkTurns
<1> HIDE DEF w
<1>6. w \in WalkState(F) /\ w.seen \in [F -> Int] /\ w.queue \in Seq(F)
  BY <1>4 DEF WalkInv, WalkState
<1>7. w.queue = <<>>
  <2> SUFFICES ASSUME w.queue # <<>> PROVE FALSE
    OBVIOUS
  <2>1. Len(w.queue) \in Nat \ {0}
    BY <1>6
  <2>2. turns + Len(w.queue) = Cardinality(MetRows(F, w))
    BY <1>4 DEF Counted
  <2>3. MetRows(F, w) \in SUBSET F
    BY DEF MetRows
  <2>4. Cardinality(MetRows(F, w)) <= turns /\ Cardinality(MetRows(F, w)) \in Nat
    BY <1>1, <2>3, FS_Subset, FS_CardinalityType DEF turns
  <2> QED
    BY <1>1, <2>1, <2>2, <2>4
<1>8. \A n \in F : w.seen[n] # Unseen => w.seen[n] \in 0 .. limit /\ n \in near[w.seen[n]]
  BY <1>4 DEF WalkInv
<1>9. \A n \in F : w.seen[n] # Unseen /\ w.seen[n] < limit => Expanded(next, w, n)
  <2>1. ~ \E i \in 1 .. Len(w.queue) : TRUE
    BY <1>7
  <2> QED
    BY <1>4, <2>1 DEF WalkInv
<1>10. \A d \in 0 .. limit : \A n \in near[d] : w.seen[n] # Unseen /\ w.seen[n] <= d
  <2> DEFINE T == {d \in 0 .. limit : \A n \in near[d] : w.seen[n] # Unseen /\ w.seen[n] <= d}
  <2>1. 0 \in T
    <3>1. near[0] = from /\ \A n \in from : w.seen[n] = 0
      BY <1>4 DEF Steps, WalkInv
    <3> QED
      BY <1>1, <3>1 DEF Unseen
  <2>2. ASSUME NEW d \in 0 .. limit - 1, d \in T PROVE d + 1 \in T
    <3>1. d + 1 \in 1 .. limit /\ d + 1 - 1 = d /\ d + 1 \in 0 .. limit /\ d < limit
      BY <1>1
    <3>2. near[d] \in SUBSET F /\ \A n \in near[d + 1] : n \in near[d] \/ \E x \in near[d] : n \in next[x]
      <4> DEFINE k == d + 1
      <4>1. near[k] = near[k - 1] \cup UNION {next[x] : x \in near[k - 1]}
        <5> HIDE DEF k
        <5> QED
          BY <3>1, Zenon DEF Steps, k
      <4>2. near[d] \in SUBSET F
        <5>1. d \in 0 .. limit
          BY <2>2
        <5>2. near \in [0 .. limit -> SUBSET F]
          BY Zenon DEF Steps
        <5> QED
          BY <5>1, <5>2, Zenon
      <4>3. \A n \in near[k] : n \in near[k - 1] \/ \E x \in near[k - 1] : n \in next[x]
        <5> HIDE DEF k
        <5> QED
          BY <4>1
      <4>4. k - 1 = d
        BY <3>1
      <4> QED
        BY <4>2, <4>3, <4>4, Zenon
    <3>3. \A n \in near[d] : w.seen[n] # Unseen /\ w.seen[n] <= d
      BY <2>2
    <3>4. ASSUME NEW n \in near[d + 1] PROVE w.seen[n] # Unseen /\ w.seen[n] <= d + 1
      <4>1. CASE n \in near[d]
        <5>1. n \in F /\ w.seen[n] <= d /\ w.seen[n] # Unseen
          BY <3>2, <3>3, <4>1
        <5> QED
          BY <1>6, <5>1
      <4>2. ASSUME NEW x \in near[d], n \in next[x] PROVE w.seen[n] # Unseen /\ w.seen[n] <= d + 1
        <5>1. x \in F /\ w.seen[x] # Unseen /\ w.seen[x] <= d
          BY <3>2, <3>3
        <5>2. w.seen[x] \in Int /\ n \in F /\ w.seen[n] \in Int
          BY <1>1, <1>6, <4>2, <5>1
        <5>3. Expanded(next, w, x)
          BY <1>1, <1>9, <3>1, <5>1, <5>2
        <5>4. w.seen[n] # Unseen /\ w.seen[n] <= w.seen[x] + 1
          BY <4>2, <5>3 DEF Expanded
        <5> QED
          BY <5>1, <5>2, <5>4
      <4> QED
        BY <3>2, <3>4, <4>1, <4>2
    <3> QED
      BY <3>1, <3>4
  <2>3. \A d \in 0 .. limit : d \in T
    <3> HIDE DEF T
    <3> QED
      BY <1>1, <2>1, <2>2, Inducts
  <2> QED
    BY <2>3
<1> QED
  BY <1>5, <1>6, <1>8, <1>10

\* The rows met at a distance, and those no nearer.
LEMMA StepsGrow ==
  ASSUME NEW F, NEW next, NEW from, NEW far \in Nat, NEW near, Steps(F, next, from, far, near)
  PROVE  /\ \A d \in 1 .. far : near[d - 1] \subseteq near[d]
         /\ \A d \in 0 .. far : from \subseteq near[d] /\ near[d] \subseteq F
<1>1. \A d \in 1 .. far : near[d - 1] \subseteq near[d]
  <2> SUFFICES ASSUME NEW d \in 1 .. far PROVE near[d - 1] \subseteq near[d]
    OBVIOUS
  <2>1. near[d] = near[d - 1] \cup UNION {next[x] : x \in near[d - 1]}
    BY Zenon DEF Steps
  <2> QED
    BY <2>1
<1>2. \A d \in 0 .. far : from \subseteq near[d]
  <2> DEFINE T == {d \in 0 .. far : from \subseteq near[d]}
  <2>1. 0 \in T
    BY DEF Steps
  <2>2. ASSUME NEW d \in 0 .. far - 1, d \in T PROVE d + 1 \in T
    <3>1. d + 1 \in 1 .. far /\ d + 1 - 1 = d /\ d + 1 \in 0 .. far
      OBVIOUS
    <3>2. near[d] \subseteq near[d + 1]
      BY <1>1, <3>1
    <3>3. from \subseteq near[d]
      BY <2>2
    <3> QED
      BY <3>1, <3>2, <3>3
  <2>3. \A d \in 0 .. far : d \in T
    <3> HIDE DEF T
    <3> QED
      BY <2>1, <2>2, Inducts
  <2> QED
    BY <2>3
<1>3. \A d \in 0 .. far : near[d] \subseteq F
  BY DEF Steps
<1> QED
  BY <1>1, <1>2, <1>3

AtDistance(near, limit) ==
  UNION {{[file |-> n, depth |-> d] : n \in near[d] \ near[d - 1]} : d \in 1 .. limit}

LEMMA ImpactIs ==
  ASSUME IsFiniteSet(Files), edges \in SUBSET (Files \X Files), NEW changed \in SUBSET Files,
         NEW far \in Nat, NEW limit \in 0 .. far,
         NEW near, Steps(Files, [n \in Files |-> Into(n)], changed, far, near)
  PROVE  ChangeImpact(changed, limit) = AtDistance(near, limit)
<1> DEFINE next == [n \in Files |-> Into(n)]
           seen == WalkFrom(next, changed, limit)
           close == [k \in 0 .. limit |-> near[k]]
<1>1. next \in [Files -> SUBSET Files]
  <2>1. \A n \in Files : Into(n) \in SUBSET Files
    BY DEF Into
  <2> QED
    BY <2>1
<1> HIDE DEF next
<1>2. limit \in Nat /\ InWalk(Files, next, changed, limit)
  BY <1>1 DEF InWalk
<1>3. Steps(Files, next, changed, limit, close)
  <2>1. near \in [0 .. far -> SUBSET Files] /\ near[0] = changed
    BY DEF Steps
  <2>2. close \in [0 .. limit -> SUBSET Files] /\ close[0] = changed
    BY <2>1
  <2>3. ASSUME NEW k \in 1 .. limit PROVE close[k] = close[k - 1] \cup UNION {next[n] : n \in close[k - 1]}
    <3>1. k \in 1 .. far /\ k \in 0 .. limit /\ k - 1 \in 0 .. limit
      OBVIOUS
    <3>2. near[k] = near[k - 1] \cup UNION {next[n] : n \in near[k - 1]}
      BY <3>1, Zenon DEF Steps, next
    <3>3. close[k] = near[k] /\ close[k - 1] = near[k - 1]
      BY <3>1
    <3> HIDE DEF close
    <3> QED
      BY <3>2, <3>3, Zenon
  <2> QED
    BY <2>2, <2>3 DEF Steps
<1>4. /\ seen \in [Files -> Int]
      /\ \A n \in Files : seen[n] # Unseen => seen[n] \in 0 .. limit /\ n \in close[seen[n]]
      /\ \A d \in 0 .. limit : \A n \in close[d] : seen[n] # Unseen /\ seen[n] <= d
  <2> HIDE DEF close
  <2> QED
    BY <1>2, <1>3, WalkSees
<1>5. /\ \A d \in 1 .. far : near[d - 1] \subseteq near[d]
      /\ \A d \in 0 .. far : changed \subseteq near[d] /\ near[d] \subseteq Files
      /\ near[0] = changed
  <2>1. Steps(Files, next, changed, far, near)
    BY DEF next
  <2>2. near[0] = changed
    BY <2>1 DEF Steps
  <2> QED
    BY <2>1, <2>2, StepsGrow
<1>6. \A d \in 0 .. limit : close[d] = near[d]
  OBVIOUS
<1> HIDE DEF seen, close
<1>7. ChangeImpact(changed, limit) =
        {[file |-> n, depth |-> seen[n]] : n \in {n \in Files \ changed : seen[n] # Unseen}}
  BY DEF ChangeImpact, seen, next
<1>8. ASSUME NEW n \in Files \ changed, seen[n] # Unseen
      PROVE  seen[n] \in 1 .. limit /\ n \in near[seen[n]] \ near[seen[n] - 1]
  <2>1. seen[n] \in 0 .. limit /\ n \in near[seen[n]]
    BY <1>4, <1>6, <1>8
  <2>2. seen[n] # 0
    BY <1>5, <2>1
  <2>3. n \notin near[seen[n] - 1]
    <3> SUFFICES ASSUME n \in near[seen[n] - 1] PROVE FALSE
      OBVIOUS
    <3>1. seen[n] - 1 \in 0 .. limit
      BY <2>1, <2>2
    <3>2. seen[n] <= seen[n] - 1
      BY <1>4, <1>6, <3>1
    <3> QED
      BY <2>1, <3>2
  <2> QED
    BY <2>1, <2>2, <2>3
<1>9. ASSUME NEW d \in 1 .. limit, NEW n \in near[d] \ near[d - 1]
      PROVE  n \in Files \ changed /\ seen[n] = d /\ seen[n] # Unseen
  <2>1. d \in 0 .. limit /\ d \in 0 .. far /\ d - 1 \in 0 .. far
    OBVIOUS
  <2>2. n \in Files \ changed
    BY <1>5, <2>1
  <2>3. seen[n] # Unseen /\ seen[n] <= d
    BY <1>4, <1>6, <2>1
  <2>4. seen[n] \in 0 .. limit /\ n \in near[seen[n]]
    BY <1>4, <1>6, <2>2, <2>3
  <2>5. \A k \in 0 .. far : k <= d - 1 => near[k] \subseteq near[d - 1]
    <3> DEFINE T == {j \in 0 .. d - 1 : near[d - 1 - j] \subseteq near[d - 1]}
    <3>1. 0 \in T
      OBVIOUS
    <3>2. ASSUME NEW j \in 0 .. d - 1 - 1, j \in T PROVE j + 1 \in T
      <4>1. d - 1 - j \in 1 .. far /\ (d - 1 - j) - 1 = d - 1 - (j + 1) /\ j + 1 \in 0 .. d - 1
        OBVIOUS
      <4>2. near[(d - 1 - j) - 1] \subseteq near[d - 1 - j]
        BY <1>5, <4>1
      <4>3. near[d - 1 - j] \subseteq near[d - 1]
        BY <3>2
      <4>4. near[d - 1 - (j + 1)] \subseteq near[d - 1]
        BY <4>1, <4>2, <4>3
      <4> QED
        BY <4>1, <4>4
    <3>3. \A j \in 0 .. d - 1 : j \in T
      <4> HIDE DEF T
      <4>1. d - 1 \in Nat
        OBVIOUS
      <4> QED
        BY <3>1, <3>2, <4>1, Inducts
    <3>4. ASSUME NEW k \in 0 .. far, k <= d - 1 PROVE near[k] \subseteq near[d - 1]
      <4>1. d - 1 - k \in 0 .. d - 1 /\ d - 1 - (d - 1 - k) = k
        BY <3>4
      <4>2. near[d - 1 - (d - 1 - k)] \subseteq near[d - 1]
        BY <3>3, <4>1
      <4> QED
        BY <4>1, <4>2
    <3> QED
      BY <3>4
  <2>6. ~(seen[n] <= d - 1)
    BY <2>1, <2>4, <2>5
  <2>7. seen[n] = d
    BY <2>3, <2>4, <2>6
  <2> QED
    BY <2>2, <2>3, <2>7
<1> DEFINE at(d) == {[file |-> n, depth |-> d] : n \in near[d] \ near[d - 1]}
<1>10. \A r \in ChangeImpact(changed, limit) : \E d \in 1 .. limit : r \in at(d)
  <2> SUFFICES ASSUME NEW n \in Files \ changed, seen[n] # Unseen
               PROVE  \E d \in 1 .. limit : [file |-> n, depth |-> seen[n]] \in at(d)
    BY <1>7
  <2>1. seen[n] \in 1 .. limit /\ n \in near[seen[n]] \ near[seen[n] - 1]
    BY <1>8
  <2>2. [file |-> n, depth |-> seen[n]] \in at(seen[n])
    BY <2>1
  <2> HIDE DEF at
  <2> QED
    BY <2>1, <2>2
<1>11. \A d \in 1 .. limit : \A r \in at(d) : r \in ChangeImpact(changed, limit)
  <2> SUFFICES ASSUME NEW d \in 1 .. limit, NEW n \in near[d] \ near[d - 1]
               PROVE  [file |-> n, depth |-> d] \in ChangeImpact(changed, limit)
    OBVIOUS
  <2>1. n \in Files \ changed /\ seen[n] = d /\ seen[n] # Unseen
    BY <1>9
  <2> QED
    BY <1>7, <2>1
<1>12. ChangeImpact(changed, limit) = UNION {at(d) : d \in 1 .. limit}
  <2> HIDE DEF at
  <2> QED
    BY <1>10, <1>11
<1> QED
  BY <1>12 DEF AtDistance

\* The edges are between files, and so ImpactIsDistance holds of any of them:
\* the loop of getChangeImpact (repo-map.ts:1953-1963) gives every dependent
\* within the depth its distance, and the others none.
THEOREM ImpactAtItsDistance == WalksSpec => []ImpactIsDistance
<1>1. WalksInit => edges \in SUBSET (Files \X Files)
  BY DEF WalksInit
<1>2. edges \in SUBSET (Files \X Files) /\ [EdgeAdded]_edges => (edges \in SUBSET (Files \X Files))'
  BY DEF EdgeAdded
<1>3. edges \in SUBSET (Files \X Files) => ImpactIsDistance
  <2> SUFFICES ASSUME edges \in SUBSET (Files \X Files), NEW changed \in SUBSET Files
               PROVE  LET within == Spread([n \in Files |-> Into(n)], changed, MaxDepth)
                      IN  \A limit \in 1 .. MaxDepth :
                            ChangeImpact(changed, limit) =
                              UNION {{[file |-> n, depth |-> d] : n \in within[d] \ within[d - 1]} :
                                       d \in 1 .. limit}
    BY DEF ImpactIsDistance
  <2> DEFINE next == [n \in Files |-> Into(n)]
             within == Spread(next, changed, MaxDepth)
  <2>1. next \in [Files -> SUBSET Files]
    <3>1. \A n \in Files : Into(n) \in SUBSET Files
      BY DEF Into
    <3> QED
      BY <3>1
  <2>2. Steps(Files, next, changed, MaxDepth, within)
    <3> HIDE DEF next
    <3> QED
      BY <2>1, SpreadIs, WalksAssumption
  <2>3. IsFiniteSet(Files) /\ MaxDepth \in Nat /\ \A limit \in 1 .. MaxDepth : limit \in 0 .. MaxDepth
    BY WalksAssumption
  <2> HIDE DEF within
  <2>4. \A limit \in 1 .. MaxDepth : ChangeImpact(changed, limit) = AtDistance(within, limit)
    BY <2>2, <2>3, ImpactIs
  <2> QED
    BY <2>4 DEF within, AtDistance
<1> QED
  BY <1>1, <1>2, <1>3, PTL DEF WalksSpec

-----------------------------------------------------------------------------
(***************************************************************************)
(* A budget cuts a traversal short and does nothing else.  The traversal   *)
(* with the smaller budget and the one with the larger run side by side:   *)
(* they are in the same state until the first is stopped, and from then on *)
(* the second only adds to what the first has emitted (CutShort).          *)
(***************************************************************************)
Item == [of : Symbols, depth : Int]
TraversalState ==
  [queue : Seq(Item), visited : SUBSET Symbols, nodes : Seq(Item), tokens : Int,
   stop : {None, "maxTokens", "maxNodes"}]
Budget == [depth : Int, nodes : Int, tokens : Int]

CallRow ==
  [caller : Symbols, name : Range(NameOf), file : Range(FileOf) \cup {None},
   callee : Symbols \cup {None}]
CallsInv == calls \in SUBSET CallRow /\ IsFiniteSet(calls) /\ (calls # {} => MaxCalls >= 1)

LEMMA CallsInvInit == CallsInit => CallsInv
  BY FS_EmptySet DEF CallsInit, CallsInv

LEMMA CallsInvStep == CallsInv /\ [CallsNext]_calls => CallsInv'
<1> SUFFICES ASSUME CallsInv, [CallsNext]_calls PROVE CallsInv'
  OBVIOUS
<1>1. ASSUME CallAdded PROVE CallsInv'
  <2>1. PICK s \in Symbols, n \in Range(NameOf), f \in Range(FileOf) :
          calls' = calls \cup {[caller |-> s, name |-> n, file |-> f, callee |-> Resolved(n, f)]}
    BY <1>1 DEF CallAdded
  <2>2. Resolved(n, f) \in Symbols \cup {None}
    BY DEF Resolved
  <2>3. calls' \in SUBSET CallRow
    BY <2>1, <2>2 DEF CallsInv, CallRow
  <2>4. IsFiniteSet(calls')
    BY <2>1, FS_AddElement DEF CallsInv
  <2>5. MaxCalls >= 1
    <3>1. Cardinality(calls) \in Nat /\ Cardinality(calls) < MaxCalls
      BY <1>1, FS_CardinalityType DEF CallsInv, CallAdded
    <3> QED
      BY <3>1, CallsAssumption
  <2> QED
    BY <2>3, <2>4, <2>5 DEF CallsInv
<1>2. ASSUME NEW f \in Range(FileOf), CalleesCleared(f) PROVE CallsInv'
  <2> DEFINE Kept(c) == IF c.file = f THEN [c EXCEPT !.file = None, !.callee = None] ELSE c
  <2>1. calls' = {Kept(c) : c \in calls} /\ calls # {}
    BY <1>2 DEF CalleesCleared
  <2>2. \A c \in CallRow : Kept(c) \in CallRow
    BY DEF CallRow
  <2>3. calls' \in SUBSET CallRow
    BY <2>1, <2>2 DEF CallsInv
  <2>4. IsFiniteSet(calls')
    <3> DEFINE g == [c \in calls |-> Kept(c)]
    <3> HIDE DEF Kept
    <3>1. g \in Surjection(calls, calls')
      BY <2>1 DEF Surjection
    <3> QED
      BY <3>1, FS_Surjection DEF CallsInv
  <2> QED
    BY <2>1, <2>3, <2>4 DEF CallsInv
<1>3. CASE UNCHANGED calls
  BY <1>3 DEF CallsInv
<1> QED
  BY <1>1, <1>2, <1>3 DEF CallsNext

\* The neighbours of a function are functions.
LEMMA NeighboursTyped ==
  ASSUME CallsInv, NEW s \in Symbols, NEW direction
  PROVE  Neighbours(s, direction) \in Seq(Symbols)
<1>1. CallersOf(s) \in SUBSET Symbols /\ Callees(s) \in SUBSET Symbols
  BY DEF CallsInv, CallRow, CallersOf, Callees
<1>2. IsFiniteSet(CallersOf(s)) /\ IsFiniteSet(Callees(s))
  BY <1>1, FS_Subset, CallsAssumption
<1>3. SetToSeq(CallersOf(s)) \in Seq(CallersOf(s)) /\ SetToSeq(Callees(s)) \in Seq(Callees(s))
  BY <1>2, OrderOf
<1>4. SetToSeq(CallersOf(s)) \in Seq(Symbols) /\ SetToSeq(Callees(s)) \in Seq(Symbols)
  BY <1>1, <1>3
<1>5. \A r \in Seq(Symbols), q \in Seq(Symbols) : r \o q \in Seq(Symbols)
  OBVIOUS
<1>6. <<>> \in Seq(Symbols)
  OBVIOUS
<1> QED
  BY <1>4, <1>5, <1>6 DEF Neighbours

LEMMA PartsOf ==
  ASSUME NEW t \in TraversalState
  PROVE  /\ t.queue \in Seq(Item) /\ t.visited \in SUBSET Symbols /\ t.nodes \in Seq(Item)
         /\ t.tokens \in Int /\ t.stop \in {None, "maxTokens", "maxNodes"}
  BY DEF TraversalState

\* A traversal that is stopped.
LEMMA StopIs ==
  ASSUME NEW t \in TraversalState, NEW n \in Symbols, NEW why \in {"maxTokens", "maxNodes"}
  PROVE  /\ Stopped(t, n, why) \in TraversalState /\ Stopped(t, n, why).stop = why
         /\ Stopped(t, n, why).nodes = t.nodes /\ Stopped(t, n, why).tokens = t.tokens
<1> DEFINE u == [t EXCEPT !.visited = @ \cup {n}]
<1>1. /\ u \in TraversalState
      /\ u.nodes = t.nodes /\ u.tokens = t.tokens
  BY DEF TraversalState
<1>2. Stopped(t, n, why) = [u EXCEPT !.stop = why]
  BY DEF TraversalState, Stopped
<1> HIDE DEF u
<1>3. /\ [u EXCEPT !.stop = why] \in TraversalState
      /\ [u EXCEPT !.stop = why].stop = why
      /\ [u EXCEPT !.stop = why].nodes = u.nodes
      /\ [u EXCEPT !.stop = why].tokens = u.tokens
  BY <1>1 DEF TraversalState
<1> QED
  BY <1>1, <1>2, <1>3

\* What a neighbour that is met may do.
LEMMA MetIs ==
  ASSUME NEW t \in TraversalState, NEW depth \in Int, NEW n \in Symbols, NEW b \in Budget
  PROVE  \/ /\ n \in t.visited \/ t.stop # None
            /\ Met(t, depth, n, b) = t
         \/ /\ t.stop = None /\ n \notin t.visited
            /\ t.tokens + NameOf[n] > b.tokens \/ Len(t.nodes) >= b.nodes
            /\ Met(t, depth, n, b) \in TraversalState
            /\ Met(t, depth, n, b).stop # None
            /\ Met(t, depth, n, b).nodes = t.nodes /\ Met(t, depth, n, b).tokens = t.tokens
         \/ /\ t.stop = None /\ n \notin t.visited
            /\ ~(t.tokens + NameOf[n] > b.tokens) /\ ~(Len(t.nodes) >= b.nodes)
            /\ Met(t, depth, n, b) = Emit(t, depth, n, b)
<1>1. CASE n \in t.visited \/ t.stop # None
  BY <1>1 DEF Met
<1>2. CASE n \notin t.visited /\ t.stop = None /\ t.tokens + NameOf[n] > b.tokens
  <2>1. Met(t, depth, n, b) = Stopped(t, n, "maxTokens")
    BY <1>2 DEF Met
  <2>2. /\ Met(t, depth, n, b) \in TraversalState /\ Met(t, depth, n, b).stop = "maxTokens"
        /\ Met(t, depth, n, b).nodes = t.nodes /\ Met(t, depth, n, b).tokens = t.tokens
    BY <2>1, StopIs
  <2> QED
    BY <1>2, <2>2, CallsAssumption
<1>3. CASE /\ n \notin t.visited /\ t.stop = None
           /\ ~(t.tokens + NameOf[n] > b.tokens) /\ Len(t.nodes) >= b.nodes
  <2>1. Met(t, depth, n, b) = Stopped(t, n, "maxNodes")
    BY <1>3 DEF Met
  <2>2. /\ Met(t, depth, n, b) \in TraversalState /\ Met(t, depth, n, b).stop = "maxNodes"
        /\ Met(t, depth, n, b).nodes = t.nodes /\ Met(t, depth, n, b).tokens = t.tokens
    BY <2>1, StopIs
  <2> QED
    BY <1>3, <2>2, CallsAssumption
<1>4. CASE /\ n \notin t.visited /\ t.stop = None
           /\ ~(t.tokens + NameOf[n] > b.tokens) /\ ~(Len(t.nodes) >= b.nodes)
  BY <1>4 DEF Met
<1> QED
  BY <1>1, <1>2, <1>3, <1>4

LEMMA EmitIs ==
  ASSUME NEW t \in TraversalState, NEW depth \in Int, NEW n \in Symbols, NEW b \in Budget
  PROVE  /\ Emit(t, depth, n, b) \in TraversalState
         /\ Emit(t, depth, n, b).nodes = Append(t.nodes, [of |-> n, depth |-> depth + 1])
         /\ Emit(t, depth, n, b).tokens = t.tokens + NameOf[n]
         /\ Emit(t, depth, n, b).stop = t.stop
<1> DEFINE item == [of |-> n, depth |-> depth + 1]
<1>1. item \in Item
  BY DEF Item
<1>2. t.nodes \in Seq(Item) /\ t.queue \in Seq(Item) /\ t.tokens \in Int /\ t.visited \in SUBSET Symbols
  BY DEF TraversalState
<1> HIDE DEF item
<1>3. Append(t.nodes, item) \in Seq(Item) /\ Append(t.queue, item) \in Seq(Item)
  BY <1>1, <1>2
<1>4. t.tokens + NameOf[n] \in Int
  BY <1>2, CallsAssumption
<1>5. (IF depth + 1 < b.depth THEN Append(t.queue, item) ELSE t.queue) \in Seq(Item)
  BY <1>2, <1>3
<1> DEFINE queue == IF depth + 1 < b.depth THEN Append(t.queue, item) ELSE t.queue
           u == [t EXCEPT !.visited = @ \cup {n}]
           v == [u EXCEPT !.tokens = t.tokens + NameOf[n]]
           w == [v EXCEPT !.nodes = Append(t.nodes, item)]
           x == [w EXCEPT !.queue = queue]
<1>6. Emit(t, depth, n, b) =
        [t EXCEPT !.visited = t.visited \cup {n}, !.tokens = t.tokens + NameOf[n],
                  !.nodes = Append(t.nodes, item), !.queue = queue]
  BY DEF Emit, item
<1>7. queue \in Seq(Item)
  BY <1>5
<1> HIDE DEF queue
<1>8. u \in TraversalState /\ u.stop = t.stop
  BY DEF TraversalState
<1>9. Emit(t, depth, n, b) = x
  BY <1>6 DEF TraversalState
<1> HIDE DEF u
<1>10. v \in TraversalState /\ v.stop = t.stop /\ v.tokens = t.tokens + NameOf[n]
  BY <1>4, <1>8 DEF TraversalState
<1> HIDE DEF v
<1>11. /\ w \in TraversalState /\ w.stop = t.stop /\ w.tokens = t.tokens + NameOf[n]
       /\ w.nodes = Append(t.nodes, item)
  BY <1>3, <1>10 DEF TraversalState
<1> HIDE DEF w
<1>12. /\ x \in TraversalState /\ x.stop = t.stop /\ x.tokens = t.tokens + NameOf[n]
       /\ x.nodes = Append(t.nodes, item)
  BY <1>7, <1>11 DEF TraversalState
<1> QED
  BY <1>9, <1>12 DEF item

LEMMA EmitQueues ==
  ASSUME NEW t \in TraversalState, NEW depth \in Int, NEW n \in Symbols, NEW b \in Budget
  PROVE  /\ Emit(t, depth, n, b).visited = t.visited \cup {n}
         /\ Emit(t, depth, n, b).queue \in {t.queue, Append(t.queue, [of |-> n, depth |-> depth + 1])}
  BY DEF Emit, TraversalState

LEMMA MetTyped ==
  ASSUME NEW t \in TraversalState, NEW depth \in Int, NEW n \in Symbols, NEW b \in Budget
  PROVE  Met(t, depth, n, b) \in TraversalState
  BY MetIs, EmitIs

\* The states while the neighbours of an item are met.
Meetings(t, direction, b, list, f) ==
  /\ f[0] = [t EXCEPT !.queue = Tail(@)]
  /\ \A i \in 1 .. Len(list) : f[i] = Met(f[i - 1], Head(t.queue).depth, list[i], b)
  /\ Walked(t, direction, b) = f[Len(list)]

LEMMA WalkedIs ==
  ASSUME CallsInv, NEW t \in TraversalState, t.queue # <<>>, t.stop = None, NEW direction,
         NEW b \in Budget, NEW list, list = Neighbours(Head(t.queue).of, direction)
  PROVE  /\ Head(t.queue) \in Item /\ list \in Seq(Symbols)
         /\ \E f \in [0 .. Len(list) -> TraversalState] : Meetings(t, direction, b, list, f)
<1> DEFINE item == Head(t.queue)
           s == [t EXCEPT !.queue = Tail(@)]
           turns == Len(list)
           jump == [k \in 1 .. turns |-> k - 1]
           step == [k \in 1 .. turns |-> [u \in TraversalState |-> Met(u, item.depth, list[k], b)]]
<1>1. item \in Item /\ item.of \in Symbols /\ item.depth \in Int
  <2>1. item \in Item
    BY PartsOf
  <2> HIDE DEF item
  <2> QED
    BY <2>1 DEF Item
<1>2. list \in Seq(Symbols) /\ turns \in Nat
  BY <1>1, NeighboursTyped
<1>3. s \in TraversalState
  <2>1. Tail(t.queue) \in Seq(Item)
    BY PartsOf
  <2> QED
    BY <2>1 DEF TraversalState
<1> HIDE DEF item, s
<1>4. jump \in [1 .. turns -> Nat] /\ \A k \in 1 .. turns : jump[k] < k
  BY <1>2
<1>5. step \in [1 .. turns -> [TraversalState -> TraversalState]]
  <2>1. ASSUME NEW k \in 1 .. turns, NEW u \in TraversalState
        PROVE  Met(u, item.depth, list[k], b) \in TraversalState
    <3>1. list[k] \in Symbols
      BY <1>2
    <3> QED
      BY <1>1, <3>1, MetTyped
  <2> QED
    BY <2>1
<1> HIDE DEF turns
<1>6. Stepwise(turns, TraversalState, s, jump, step)
  <2> HIDE DEF jump, step
  <2> QED
    BY <1>2, <1>3, <1>4, <1>5, Recurses, Zenon
<1>7. PICK f \in [0 .. turns -> TraversalState] :
        f[0] = s /\ \A k \in 1 .. turns : f[k] = step[k][f[jump[k]]]
  BY <1>6 DEF Stepwise
<1>8. \A k \in 1 .. turns : f[k] = Met(f[k - 1], item.depth, list[k], b)
  <2> SUFFICES ASSUME NEW k \in 1 .. turns PROVE f[k] = Met(f[k - 1], item.depth, list[k], b)
    OBVIOUS
  <2>1. f[k] = step[k][f[jump[k]]]
    BY <1>7
  <2>2. k - 1 \in 0 .. turns
    BY <1>2
  <2>3. f[k - 1] \in TraversalState
    BY <2>2
  <2>4. jump[k] = k - 1
    OBVIOUS
  <2>5. step[k] = [u \in TraversalState |-> Met(u, item.depth, list[k], b)]
    BY Zenon
  <2> HIDE DEF step, jump
  <2> QED
    BY <2>1, <2>3, <2>4, <2>5, Zenon
<1> DEFINE After[i \in 0 .. turns] ==
             IF i = 0 THEN s ELSE Met(After[i - 1], item.depth, list[i], b)
           Is(g) == g = [i \in 0 .. turns |->
                           IF i = 0 THEN s ELSE Met(g[i - 1], item.depth, list[i], b)]
<1>9. \A k \in 0 .. turns : f[k] = IF k = 0 THEN s ELSE Met(f[k - 1], item.depth, list[k], b)
  <2>1. \A k \in 0 .. turns : k = 0 \/ k \in 1 .. turns
    BY <1>2
  <2> QED
    BY <1>7, <1>8, <2>1
<1>10. Is(f)
  BY <1>9, Zenon
<1>11. Is(After)
  BY <1>10
<1>12. Walked(t, direction, b) = After[turns]
  BY Zenon DEF Walked, turns, item, s
<1> HIDE DEF After
<1>13. \A k \in 0 .. turns : After[k] = IF k = 0 THEN s ELSE Met(After[k - 1], item.depth, list[k], b)
  BY <1>11, Zenon
<1>14. After[0] = s /\ \A k \in 1 .. turns : After[k] = Met(After[k - 1], item.depth, list[k], b)
  <2>1. 0 \in 0 .. turns /\ \A k \in 1 .. turns : k \in 0 .. turns /\ k # 0
    BY <1>2
  <2> QED
    BY <1>13, <2>1
<1>15. \A k \in 0 .. turns : After[k] \in TraversalState
  <2> DEFINE T == {k \in 0 .. turns : After[k] \in TraversalState}
  <2>1. 0 \in T
    BY <1>2, <1>3, <1>14
  <2>2. ASSUME NEW k \in 0 .. turns - 1, k \in T PROVE k + 1 \in T
    <3>1. k + 1 \in 1 .. turns /\ k + 1 - 1 = k /\ k + 1 \in 0 .. turns
      BY <1>2
    <3>2. After[k + 1] = Met(After[k], item.depth, list[k + 1], b)
      BY <1>14, <3>1
    <3>3. After[k] \in TraversalState
      BY <2>2
    <3>4. list[k + 1] \in Symbols
      BY <1>2, <3>1 DEF turns
    <3> QED
      BY <1>1, <3>1, <3>2, <3>3, <3>4, MetTyped
  <2>3. \A k \in 0 .. turns : k \in T
    <3> HIDE DEF T
    <3> QED
      BY <1>2, <2>1, <2>2, Inducts
  <2> QED
    BY <2>3
<1>16. After = [k \in 0 .. turns |-> After[k]]
  BY <1>11
<1>17. After \in [0 .. turns -> TraversalState]
  BY <1>15, <1>16
<1>18. Meetings(t, direction, b, list, After)
  BY <1>12, <1>14 DEF Meetings, turns, item, s
<1> QED
  BY <1>1, <1>2, <1>17, <1>18 DEF turns, item

LEMMA WalkedTyped ==
  ASSUME CallsInv, NEW t \in TraversalState, NEW direction, NEW b \in Budget
  PROVE  Walked(t, direction, b) \in TraversalState
<1>1. CASE t.queue = <<>> \/ t.stop # None
  BY <1>1 DEF Walked
<1>2. CASE t.queue # <<>> /\ t.stop = None
  <2> DEFINE list == Neighbours(Head(t.queue).of, direction)
  <2>1. list \in Seq(Symbols) /\ \E f \in [0 .. Len(list) -> TraversalState] : Meetings(t, direction, b, list, f)
    BY <1>2, WalkedIs
  <2> HIDE DEF list
  <2>2. PICK f \in [0 .. Len(list) -> TraversalState] : Meetings(t, direction, b, list, f)
    BY <2>1
  <2>3. Len(list) \in 0 .. Len(list)
    BY <2>1
  <2> QED
    BY <2>2, <2>3 DEF Meetings
<1> QED
  BY <1>1, <1>2

\* The states of the loop of a traversal, one turn after the other.
TraverseTurns(root, direction, b, turns, f) ==
  /\ f[0] = Traversal(root)
  /\ \A k \in 1 .. turns : f[k] = Walked(f[k - 1], direction, b)
  /\ Traverse(root, direction, b) = f[turns]

LEMMA TraversalTyped ==
  ASSUME NEW root \in Symbols
  PROVE  Traversal(root) \in TraversalState
<1>1. [of |-> root, depth |-> 0] \in Item
  BY DEF Item
<1>2. <<[of |-> root, depth |-> 0]>> \in Seq(Item) /\ <<>> \in Seq(Item)
  BY <1>1
<1> QED
  BY <1>2 DEF Traversal, TraversalState

LEMMA TraverseIs ==
  ASSUME CallsInv, NEW root \in Symbols, NEW direction, NEW b \in Budget
  PROVE  \E f \in [0 .. Cardinality(Symbols) -> TraversalState] :
           TraverseTurns(root, direction, b, Cardinality(Symbols), f)
<1> DEFINE turns == Cardinality(Symbols)
           jump == [k \in 1 .. turns |-> k - 1]
           turn == [t \in TraversalState |-> Walked(t, direction, b)]
           step == [k \in 1 .. turns |-> turn]
<1>1. turns \in Nat
  BY FS_CardinalityType, CallsAssumption
<1>2. turn \in [TraversalState -> TraversalState]
  <2>1. \A t \in TraversalState : Walked(t, direction, b) \in TraversalState
    BY WalkedTyped
  <2> QED
    BY <2>1
<1>3. Traversal(root) \in TraversalState
  BY TraversalTyped
<1> HIDE DEF turns
<1>4. jump \in [1 .. turns -> Nat] /\ \A k \in 1 .. turns : jump[k] < k
  BY <1>1
<1>5. step \in [1 .. turns -> [TraversalState -> TraversalState]]
  <2> HIDE DEF turn
  <2> QED
    BY <1>2
<1>6. Stepwise(turns, TraversalState, Traversal(root), jump, step)
  <2> HIDE DEF jump, step
  <2> QED
    BY <1>1, <1>3, <1>4, <1>5, Recurses, Zenon
<1>7. PICK f \in [0 .. turns -> TraversalState] :
        f[0] = Traversal(root) /\ \A k \in 1 .. turns : f[k] = step[k][f[jump[k]]]
  BY <1>6 DEF Stepwise
<1>8. \A k \in 1 .. turns : f[k] = Walked(f[k - 1], direction, b)
  <2> SUFFICES ASSUME NEW k \in 1 .. turns PROVE f[k] = Walked(f[k - 1], direction, b)
    OBVIOUS
  <2>1. f[k] = step[k][f[jump[k]]]
    BY <1>7
  <2>2. k - 1 \in 0 .. turns
    BY <1>1
  <2>3. f[k - 1] \in TraversalState
    BY <2>2
  <2>4. jump[k] = k - 1
    OBVIOUS
  <2>5. step[k] = turn
    BY Zenon
  <2>6. f[k] = turn[f[k - 1]]
    BY <2>1, <2>4, <2>5, Zenon
  <2> QED
    BY <2>3, <2>6, Zenon
<1> DEFINE After[k \in 0 .. turns] ==
             IF k = 0 THEN Traversal(root) ELSE Walked(After[k - 1], direction, b)
           Is(g) == g = [k \in 0 .. turns |->
                           IF k = 0 THEN Traversal(root) ELSE Walked(g[k - 1], direction, b)]
<1>9. \A k \in 0 .. turns : f[k] = IF k = 0 THEN Traversal(root) ELSE Walked(f[k - 1], direction, b)
  <2>1. \A k \in 0 .. turns : k = 0 \/ k \in 1 .. turns
    BY <1>1
  <2> QED
    BY <1>7, <1>8, <2>1
<1>10. Is(f)
  BY <1>9, Zenon
<1>11. Is(After)
  BY <1>10
<1>12. Traverse(root, direction, b) = After[turns]
  BY Zenon DEF Traverse, turns
<1> HIDE DEF After
<1>13. \A k \in 0 .. turns : After[k] = IF k = 0 THEN Traversal(root)
                                        ELSE Walked(After[k - 1], direction, b)
  BY <1>11, Zenon
<1>14. After[0] = Traversal(root) /\ \A k \in 1 .. turns : After[k] = Walked(After[k - 1], direction, b)
  <2>1. 0 \in 0 .. turns /\ \A k \in 1 .. turns : k \in 0 .. turns /\ k # 0
    BY <1>1
  <2> QED
    BY <1>13, <2>1
<1>15. \A k \in 0 .. turns : After[k] \in TraversalState
  <2> DEFINE T == {k \in 0 .. turns : After[k] \in TraversalState}
  <2>1. 0 \in T
    BY <1>1, <1>3, <1>14
  <2>2. ASSUME NEW k \in 0 .. turns - 1, k \in T PROVE k + 1 \in T
    <3>1. k + 1 \in 1 .. turns /\ k + 1 - 1 = k /\ k + 1 \in 0 .. turns
      BY <1>1
    <3>2. After[k + 1] = Walked(After[k], direction, b)
      BY <1>14, <3>1
    <3>3. After[k] \in TraversalState
      BY <2>2
    <3> QED
      BY <3>1, <3>2, <3>3, WalkedTyped
  <2>3. \A k \in 0 .. turns : k \in T
    <3> HIDE DEF T
    <3> QED
      BY <1>1, <2>1, <2>2, Inducts
  <2> QED
    BY <2>3
<1>16. After = [k \in 0 .. turns |-> After[k]]
  BY <1>11
<1>17. After \in [0 .. turns -> TraversalState]
  BY <1>15, <1>16
<1> QED
  BY <1>12, <1>14, <1>17 DEF turns, TraverseTurns

\* What is emitted is only added to.
LEMMA PrefixOf ==
  ASSUME NEW a \in Seq(Item), NEW b \in Seq(Item)
  PROVE  /\ IsPrefix(a, a)
         /\ IsPrefix(a, b) <=> Len(a) <= Len(b) /\ \A i \in 1 .. Len(a) : a[i] = b[i]
<1>1. Len(a) \in Nat /\ Len(b) \in Nat
  OBVIOUS
<1>2. IsPrefix(a, a)
  BY <1>1 DEF IsPrefix
<1>3. ASSUME Len(a) <= Len(b)
      PROVE  SubSeq(a, 1, Len(a)) = SubSeq(b, 1, Len(a)) <=> \A i \in 1 .. Len(a) : a[i] = b[i]
  <2>1. /\ SubSeq(a, 1, Len(a)) = [i \in 1 .. Len(a) |-> a[i]]
        /\ SubSeq(b, 1, Len(a)) = [i \in 1 .. Len(a) |-> b[i]]
    <3>1. SubSeq(a, 1, Len(a)) = [i \in 1 .. (1 + Len(a) - 1) |-> a[i + 1 - 1]]
      BY <1>1
    <3>2. SubSeq(b, 1, Len(a)) = [i \in 1 .. (1 + Len(a) - 1) |-> b[i + 1 - 1]]
      BY <1>1, <1>3
    <3> QED
      BY <1>1, <3>1, <3>2
  <2>2. ASSUME [i \in 1 .. Len(a) |-> a[i]] = [i \in 1 .. Len(a) |-> b[i]], NEW i \in 1 .. Len(a)
        PROVE  a[i] = b[i]
    <3>1. [j \in 1 .. Len(a) |-> a[j]][i] = [j \in 1 .. Len(a) |-> b[j]][i]
      BY <2>2
    <3> QED
      BY <3>1
  <2>3. ASSUME \A i \in 1 .. Len(a) : a[i] = b[i]
        PROVE  [i \in 1 .. Len(a) |-> a[i]] = [i \in 1 .. Len(a) |-> b[i]]
    BY <2>3, Zenon
  <2> QED
    BY <2>1, <2>2, <2>3
<1> QED
  BY <1>2, <1>3 DEF IsPrefix

LEMMA PrefixGrows ==
  ASSUME NEW a \in Seq(Item), NEW b \in Seq(Item), NEW c \in Seq(Item), NEW x \in Item,
         IsPrefix(a, b)
  PROVE  /\ IsPrefix(b, c) => IsPrefix(a, c)
         /\ IsPrefix(a, Append(b, x))
<1>1. Len(a) <= Len(b) /\ \A i \in 1 .. Len(a) : a[i] = b[i]
  BY PrefixOf
<1>2. Len(a) \in Nat /\ Len(b) \in Nat /\ Len(c) \in Nat /\ \A i \in 1 .. Len(a) : i \in 1 .. Len(b)
  BY <1>1
<1>3. ASSUME IsPrefix(b, c) PROVE IsPrefix(a, c)
  <2>1. Len(b) <= Len(c) /\ \A i \in 1 .. Len(b) : b[i] = c[i]
    BY <1>3, PrefixOf
  <2>2. Len(a) <= Len(c) /\ \A i \in 1 .. Len(a) : a[i] = c[i]
    BY <1>1, <1>2, <2>1
  <2> QED
    BY <2>2, PrefixOf
<1>4. IsPrefix(a, Append(b, x))
  <2>1. /\ Append(b, x) \in Seq(Item) /\ Len(Append(b, x)) = Len(b) + 1
        /\ \A i \in 1 .. Len(b) : Append(b, x)[i] = b[i]
    OBVIOUS
  <2>2. Len(a) <= Len(Append(b, x)) /\ \A i \in 1 .. Len(a) : a[i] = Append(b, x)[i]
    BY <1>1, <1>2, <2>1
  <2> QED
    BY <2>1, <2>2, PrefixOf
<1> QED
  BY <1>3, <1>4

LEMMA MetGrows ==
  ASSUME NEW t \in TraversalState, NEW depth \in Int, NEW n \in Symbols, NEW b \in Budget,
         NEW c \in Seq(Item), IsPrefix(c, t.nodes)
  PROVE  IsPrefix(c, Met(t, depth, n, b).nodes)
<1>1. t.nodes \in Seq(Item)
  BY PartsOf
<1>2. CASE Met(t, depth, n, b) = Emit(t, depth, n, b)
  <2>1. Met(t, depth, n, b).nodes = Append(t.nodes, [of |-> n, depth |-> depth + 1])
    BY <1>2, EmitIs
  <2>2. [of |-> n, depth |-> depth + 1] \in Item
    BY DEF Item
  <2> QED
    BY <1>1, <2>1, <2>2, PrefixGrows
<1>3. CASE Met(t, depth, n, b).nodes = t.nodes
  BY <1>3
<1> QED
  BY <1>2, <1>3, MetIs

\* One traversal is the other, cut short by the budget.
CutShort(c, w, b) ==
  /\ c \in TraversalState /\ w \in TraversalState
  /\ Len(c.nodes) <= b.nodes /\ c.tokens <= b.tokens
  /\ IF c.stop = None THEN c = w ELSE IsPrefix(c.nodes, w.nodes)

LargerBudget(b, whole) ==
  /\ b \in Budget /\ whole \in Budget
  /\ b.depth = whole.depth /\ b.nodes <= whole.nodes /\ b.tokens <= whole.tokens

LEMMA MetCut ==
  ASSUME NEW b, NEW whole, LargerBudget(b, whole), NEW c, NEW w, CutShort(c, w, b),
         NEW depth \in Int, NEW n \in Symbols
  PROVE  CutShort(Met(c, depth, n, b), Met(w, depth, n, whole), b)
<1>1. b \in Budget /\ whole \in Budget /\ c \in TraversalState /\ w \in TraversalState
  BY DEF LargerBudget, CutShort
<1>2. Met(c, depth, n, b) \in TraversalState /\ Met(w, depth, n, whole) \in TraversalState
  BY <1>1, MetTyped
<1>3. c.nodes \in Seq(Item) /\ Len(c.nodes) \in Nat /\ c.tokens \in Int /\ NameOf[n] \in Nat
  BY <1>1, PartsOf, CallsAssumption
<1>4. /\ b.nodes \in Int /\ b.tokens \in Int /\ whole.nodes \in Int /\ whole.tokens \in Int
      /\ b.depth = whole.depth /\ b.nodes <= whole.nodes /\ b.tokens <= whole.tokens
  BY DEF LargerBudget, Budget
<1>5. CASE c.stop # None
  <2>1. Met(c, depth, n, b) = c
    BY <1>5 DEF Met
  <2>2. IsPrefix(c.nodes, w.nodes)
    BY <1>5 DEF CutShort
  <2>3. IsPrefix(c.nodes, Met(w, depth, n, whole).nodes)
    BY <1>1, <1>3, <2>2, MetGrows
  <2> QED
    BY <1>2, <1>5, <2>1, <2>3 DEF CutShort
<1>6. CASE c.stop = None
  <2>1. c = w
    BY <1>6 DEF CutShort
  <2>2. CASE n \in c.visited
    <3>1. Met(c, depth, n, b) = c /\ Met(w, depth, n, whole) = w
      BY <2>1, <2>2 DEF Met
    <3> QED
      BY <3>1
  <2>3. CASE n \notin c.visited /\ (c.tokens + NameOf[n] > b.tokens \/ Len(c.nodes) >= b.nodes)
    <3>1. /\ Met(c, depth, n, b).stop # None
          /\ Met(c, depth, n, b).nodes = c.nodes /\ Met(c, depth, n, b).tokens = c.tokens
      BY <1>1, <1>6, <2>3, MetIs
    <3>2. IsPrefix(c.nodes, Met(w, depth, n, whole).nodes)
      BY <1>1, <1>3, <2>1, PrefixOf, MetGrows
    <3> QED
      BY <1>2, <3>1, <3>2 DEF CutShort
  <2>4. CASE n \notin c.visited /\ ~(c.tokens + NameOf[n] > b.tokens) /\ ~(Len(c.nodes) >= b.nodes)
    <3>1. Met(c, depth, n, b) = Emit(c, depth, n, b)
      BY <1>6, <2>4 DEF Met
    <3>2. ~(w.tokens + NameOf[n] > whole.tokens) /\ ~(Len(w.nodes) >= whole.nodes)
      BY <1>3, <1>4, <2>1, <2>4
    <3>3. Met(w, depth, n, whole) = Emit(w, depth, n, whole)
      BY <1>6, <2>1, <2>4, <3>2 DEF Met
    <3>4. Emit(c, depth, n, b) = Emit(w, depth, n, whole)
      BY <1>4, <2>1 DEF Emit
    <3>5. /\ Met(c, depth, n, b).nodes = Append(c.nodes, [of |-> n, depth |-> depth + 1])
          /\ Met(c, depth, n, b).tokens = c.tokens + NameOf[n] /\ Met(c, depth, n, b).stop = None
      BY <1>1, <1>6, <3>1, EmitIs
    <3>6. Len(Met(c, depth, n, b).nodes) = Len(c.nodes) + 1
      <4>1. [of |-> n, depth |-> depth + 1] \in Item
        BY DEF Item
      <4> QED
        BY <1>3, <3>5, <4>1
    <3>7. Len(Met(c, depth, n, b).nodes) <= b.nodes /\ Met(c, depth, n, b).tokens <= b.tokens
      BY <1>3, <1>4, <2>4, <3>5, <3>6
    <3> QED
      BY <1>2, <3>1, <3>3, <3>4, <3>5, <3>7 DEF CutShort
  <2> QED
    BY <2>2, <2>3, <2>4
<1> QED
  BY <1>5, <1>6

LEMMA WalkedCut ==
  ASSUME CallsInv, NEW b, NEW whole, LargerBudget(b, whole), NEW c, NEW w, CutShort(c, w, b), NEW direction
  PROVE  CutShort(Walked(c, direction, b), Walked(w, direction, whole), b)
<1>1. b \in Budget /\ whole \in Budget /\ c \in TraversalState /\ w \in TraversalState
  BY DEF LargerBudget, CutShort
<1>2. CASE w.queue = <<>> \/ w.stop # None
  <2>1. Walked(w, direction, whole) = w
    BY <1>2 DEF Walked
  <2>2. Walked(c, direction, b) = c
    BY <1>2 DEF Walked, CutShort
  <2> QED
    BY <2>1, <2>2
<1>3. CASE w.queue # <<>> /\ w.stop = None
  <2> DEFINE list == Neighbours(Head(w.queue).of, direction)
             item == Head(w.queue)
             same == c.stop = None
  <2>1. /\ item \in Item /\ list \in Seq(Symbols)
        /\ \E f \in [0 .. Len(list) -> TraversalState] : Meetings(w, direction, whole, list, f)
    BY <1>1, <1>3, WalkedIs
  <2>2. same => c = w
    BY DEF CutShort
  <2>3. same => \E g \in [0 .. Len(list) -> TraversalState] : Meetings(c, direction, b, list, g)
    BY <1>1, <1>3, <2>2, WalkedIs
  <2>4. item.depth \in Int
    <3> HIDE DEF item
    <3> QED
      BY <2>1 DEF Item
  <2> HIDE DEF list
  <2>5. PICK f \in [0 .. Len(list) -> TraversalState] : Meetings(w, direction, whole, list, f)
    BY <2>1
  <2>6. Len(list) \in Nat /\ \A k \in 1 .. Len(list) : list[k] \in Symbols
    BY <2>1
  <2>7. f[0] = [w EXCEPT !.queue = Tail(@)] /\ f[0] \in TraversalState /\ f[0].nodes = w.nodes
    <3>1. f[0] = [w EXCEPT !.queue = Tail(@)]
      BY <2>5 DEF Meetings
    <3>2. f[0] \in TraversalState
      BY <2>5, <2>6
    <3>3. [w EXCEPT !.queue = Tail(@)].nodes = w.nodes
      BY <1>1 DEF TraversalState
    <3> QED
      BY <3>1, <3>2, <3>3
  <2>8. CASE ~same
    <3>1. Walked(c, direction, b) = c
      BY <2>8 DEF Walked
    <3>2. IsPrefix(c.nodes, w.nodes) /\ c.nodes \in Seq(Item)
      BY <1>1, <2>8, PartsOf DEF CutShort
    <3> DEFINE T == {k \in 0 .. Len(list) : IsPrefix(c.nodes, f[k].nodes)}
    <3>3. 0 \in T
      <4>1. IsPrefix(c.nodes, f[0].nodes) /\ 0 \in 0 .. Len(list)
        BY <2>6, <2>7, <3>2
      <4> QED
        BY <4>1
    <3>4. ASSUME NEW k \in 0 .. Len(list) - 1, k \in T PROVE k + 1 \in T
      <4>1. k + 1 \in 1 .. Len(list) /\ k + 1 - 1 = k /\ k + 1 \in 0 .. Len(list) /\ k \in 0 .. Len(list)
        BY <2>6
      <4>2. f[k + 1] = Met(f[k], item.depth, list[k + 1], whole)
        BY <2>5, <4>1 DEF Meetings
      <4>3. IsPrefix(c.nodes, f[k].nodes) /\ f[k] \in TraversalState
        BY <2>5, <3>4, <4>1
      <4> HIDE DEF item
      <4>4. IsPrefix(c.nodes, f[k + 1].nodes)
        BY <1>1, <2>4, <2>6, <3>2, <4>1, <4>2, <4>3, MetGrows
      <4> QED
        BY <4>1, <4>4
    <3>5. \A k \in 0 .. Len(list) : k \in T
      <4> HIDE DEF T
      <4> QED
        BY <2>6, <3>3, <3>4, Inducts
    <3>6. IsPrefix(c.nodes, f[Len(list)].nodes)
      BY <2>6, <3>5
    <3>7. Walked(w, direction, whole) = f[Len(list)] /\ f[Len(list)] \in TraversalState
      BY <2>5, <2>6 DEF Meetings
    <3> QED
      BY <2>8, <3>1, <3>6, <3>7 DEF CutShort
  <2>9. CASE same
    <3>1. PICK g \in [0 .. Len(list) -> TraversalState] : Meetings(c, direction, b, list, g)
      BY <2>3, <2>9
    <3>2. c = w
      BY <2>2, <2>9
    <3> DEFINE T == {k \in 0 .. Len(list) : CutShort(g[k], f[k], b)}
    <3>3. 0 \in T
      <4>1. g[0] = f[0]
        BY <2>7, <3>1, <3>2 DEF Meetings
      <4>2. f[0].stop = None /\ f[0].tokens = w.tokens
        BY <1>1, <1>3, <2>7 DEF TraversalState
      <4>3. Len(f[0].nodes) <= b.nodes /\ f[0].tokens <= b.tokens
        BY <2>7, <3>2, <4>2 DEF CutShort
      <4>4. CutShort(g[0], f[0], b)
        BY <2>7, <4>1, <4>2, <4>3 DEF CutShort
      <4> QED
        BY <2>6, <4>4
    <3>4. ASSUME NEW k \in 0 .. Len(list) - 1, k \in T PROVE k + 1 \in T
      <4>1. k + 1 \in 1 .. Len(list) /\ k + 1 - 1 = k /\ k + 1 \in 0 .. Len(list)
        BY <2>6
      <4>2. f[k + 1] = Met(f[k], item.depth, list[k + 1], whole)
        BY <2>5, <4>1 DEF Meetings
      <4>3. g[k + 1] = Met(g[k], item.depth, list[k + 1], b)
        BY <3>1, <3>2, <4>1 DEF Meetings
      <4>4. CutShort(g[k], f[k], b)
        BY <3>4
      <4> HIDE DEF item
      <4>5. CutShort(g[k + 1], f[k + 1], b)
        BY <2>4, <2>6, <4>1, <4>2, <4>3, <4>4, MetCut
      <4> QED
        BY <4>1, <4>5
    <3>5. \A k \in 0 .. Len(list) : k \in T
      <4> HIDE DEF T
      <4> QED
        BY <2>6, <3>3, <3>4, Inducts
    <3>6. CutShort(g[Len(list)], f[Len(list)], b)
      BY <2>6, <3>5
    <3> QED
      BY <2>5, <3>1, <3>6 DEF Meetings
  <2> QED
    BY <2>8, <2>9
<1> QED
  BY <1>2, <1>3

LEMMA TraverseCut ==
  ASSUME CallsInv, NEW b, NEW whole, LargerBudget(b, whole), 0 <= b.nodes, 0 <= b.tokens,
         NEW root \in Symbols, NEW direction
  PROVE  CutShort(Traverse(root, direction, b), Traverse(root, direction, whole), b)
<1> DEFINE turns == Cardinality(Symbols)
<1>1. b \in Budget /\ whole \in Budget
  BY DEF LargerBudget
<1>2. PICK f \in [0 .. turns -> TraversalState] : TraverseTurns(root, direction, b, turns, f)
  BY <1>1, TraverseIs
<1>3. PICK g \in [0 .. turns -> TraversalState] : TraverseTurns(root, direction, whole, turns, g)
  BY <1>1, TraverseIs
<1>4. turns \in Nat
  BY FS_CardinalityType, CallsAssumption
<1> HIDE DEF turns
<1> DEFINE T == {k \in 0 .. turns : CutShort(f[k], g[k], b)}
<1>5. 0 \in T
  <2>1. f[0] = Traversal(root) /\ g[0] = Traversal(root)
    BY <1>2, <1>3 DEF TraverseTurns
  <2>2. Traversal(root).stop = None /\ Traversal(root).nodes = <<>> /\ Traversal(root).tokens = 0
    BY DEF Traversal
  <2>3. CutShort(Traversal(root), Traversal(root), b)
    BY <2>2, TraversalTyped DEF CutShort
  <2> QED
    BY <1>4, <2>1, <2>3
<1>6. ASSUME NEW k \in 0 .. turns - 1, k \in T PROVE k + 1 \in T
  <2>1. k + 1 \in 1 .. turns /\ k + 1 - 1 = k /\ k + 1 \in 0 .. turns
    BY <1>4
  <2>2. f[k + 1] = Walked(f[k], direction, b) /\ g[k + 1] = Walked(g[k], direction, whole)
    BY <1>2, <1>3, <2>1 DEF TraverseTurns
  <2>3. CutShort(f[k + 1], g[k + 1], b)
    BY <1>6, <2>2, WalkedCut
  <2> QED
    BY <2>1, <2>3
<1>7. \A k \in 0 .. turns : k \in T
  <2> HIDE DEF T
  <2> QED
    BY <1>4, <1>5, <1>6, Inducts
<1>8. CutShort(f[turns], g[turns], b)
  BY <1>4, <1>7
<1> QED
  BY <1>2, <1>3, <1>8 DEF TraverseTurns

\* A traversal under a budget emits the beginning of what the whole one emits,
\* stays within the budget, and leaves nothing out unless it says it was
\* truncated (repo-map.ts:1246-1283).
THEOREM BudgetsOnlyCut == CallsSpec => []BudgetsCut
<1>1. CallsInv => BudgetsCut
  <2> SUFFICES ASSUME CallsInv, calls # {}, NEW s \in Symbols, NEW dir \in {"in", "out", "both"},
                      NEW n \in 1 .. 2, NEW k \in 1 .. 3
               PROVE  LET whole == Traverse(s, dir, Unbounded(MaxDepth))
                          cut == Traverse(s, dir, [depth |-> MaxDepth, nodes |-> n, tokens |-> k])
                      IN  /\ IsPrefix(cut.nodes, whole.nodes)
                          /\ Len(cut.nodes) <= n /\ cut.tokens <= k
                          /\ cut.stop = None => cut.nodes = whole.nodes
    BY DEF BudgetsCut
  <2> DEFINE b == [depth |-> MaxDepth, nodes |-> n, tokens |-> k]
             cut == Traverse(s, dir, b)
             whole == Traverse(s, dir, Unbounded(MaxDepth))
  <2>1. MaxCalls \in Nat /\ MaxCalls >= 1 /\ MaxDepth \in Nat
    BY CallsAssumption, WalksAssumption DEF CallsInv
  <2>2. LargerBudget(b, Unbounded(MaxDepth))
    BY <2>1 DEF LargerBudget, Budget, Unbounded
  <2>3. 0 <= b.nodes /\ 0 <= b.tokens /\ b.nodes = n /\ b.tokens = k
    OBVIOUS
  <2>4. CutShort(cut, whole, b)
    <3> HIDE DEF b
    <3> QED
      BY <2>2, <2>3, TraverseCut
  <2> HIDE DEF cut, whole, b
  <2>5. Len(cut.nodes) <= n /\ cut.tokens <= k /\ (cut.stop = None => cut.nodes = whole.nodes)
    BY <2>3, <2>4 DEF CutShort
  <2>6. IsPrefix(cut.nodes, whole.nodes)
    <3>1. cut.nodes \in Seq(Item)
      BY <2>4, PartsOf DEF CutShort
    <3> QED
      BY <2>4, <3>1, PrefixOf DEF CutShort
  <2> QED
    BY <2>5, <2>6 DEF cut, whole, b
<1>2. CallsSpec => []CallsInv
  BY CallsInvInit, CallsInvStep, PTL DEF CallsSpec
<1> QED
  BY <1>1, <1>2, PTL

\* A function is counted when it is queued, so a traversal that is not stopped
\* has no work left after as many turns as there are functions: the loop ends.
QueuedOnce(t, k) ==
  t.stop = None /\ t.queue # <<>> => k + Len(t.queue) <= Cardinality(t.visited)

LEMMA MetQueues ==
  ASSUME NEW t \in TraversalState, NEW depth \in Int, NEW n \in Symbols, NEW b \in Budget,
         NEW k \in Nat, t.stop = None => k + Len(t.queue) <= Cardinality(t.visited)
  PROVE  Met(t, depth, n, b).stop = None
           => k + Len(Met(t, depth, n, b).queue) <= Cardinality(Met(t, depth, n, b).visited)
<1>1. CASE Met(t, depth, n, b) = t
  BY <1>1
<1>2. CASE t.stop = None /\ n \notin t.visited /\ Met(t, depth, n, b) = Emit(t, depth, n, b)
  <2> DEFINE v == Met(t, depth, n, b)
             item == [of |-> n, depth |-> depth + 1]
  <2>1. v.visited = t.visited \cup {n} /\ v.queue \in {t.queue, Append(t.queue, item)}
    BY <1>2, EmitQueues
  <2>2. item \in Item
    BY DEF Item
  <2>3. t.queue \in Seq(Item) /\ t.visited \in SUBSET Symbols
    BY PartsOf
  <2>4. IsFiniteSet(t.visited)
    BY <2>3, FS_Subset, CallsAssumption
  <2> HIDE DEF v, item
  <2>5. Len(v.queue) <= Len(t.queue) + 1 /\ Len(v.queue) \in Nat /\ Len(t.queue) \in Nat
    BY <2>1, <2>2, <2>3
  <2>6. Cardinality(v.visited) = Cardinality(t.visited) + 1 /\ Cardinality(t.visited) \in Nat
    BY <1>2, <2>1, <2>4, FS_AddElement, FS_CardinalityType
  <2>7. k + Len(t.queue) <= Cardinality(t.visited)
    BY <1>2
  <2>8. k + Len(v.queue) <= Cardinality(v.visited)
    BY <2>5, <2>6, <2>7
  <2> QED
    BY <2>8 DEF v
<1>3. CASE Met(t, depth, n, b).stop # None
  BY <1>3
<1> QED
  BY <1>1, <1>2, <1>3, MetIs

LEMMA WalkedQueues ==
  ASSUME CallsInv, NEW t \in TraversalState, NEW direction, NEW b \in Budget, NEW k \in Nat,
         QueuedOnce(t, k)
  PROVE  QueuedOnce(Walked(t, direction, b), k + 1)
<1>1. CASE t.queue = <<>> \/ t.stop # None
  BY <1>1 DEF Walked, QueuedOnce
<1>2. CASE t.queue # <<>> /\ t.stop = None
  <2> DEFINE list == Neighbours(Head(t.queue).of, direction)
             item == Head(t.queue)
  <2>1. /\ item \in Item /\ list \in Seq(Symbols)
        /\ \E f \in [0 .. Len(list) -> TraversalState] : Meetings(t, direction, b, list, f)
    BY <1>2, WalkedIs
  <2>2. item.depth \in Int
    <3> HIDE DEF item
    <3> QED
      BY <2>1 DEF Item
  <2> HIDE DEF list
  <2>3. PICK f \in [0 .. Len(list) -> TraversalState] : Meetings(t, direction, b, list, f)
    BY <2>1
  <2>4. Len(list) \in Nat /\ \A j \in 1 .. Len(list) : list[j] \in Symbols
    BY <2>1
  <2> DEFINE Counts(u) == u.stop = None => k + 1 + Len(u.queue) <= Cardinality(u.visited)
             T == {j \in 0 .. Len(list) : Counts(f[j])}
  <2>5. 0 \in T
    <3>1. f[0] = [t EXCEPT !.queue = Tail(@)]
      BY <2>3 DEF Meetings
    <3>2. f[0].queue = Tail(t.queue) /\ f[0].visited = t.visited
      BY <3>1 DEF TraversalState
    <3>3. Len(Tail(t.queue)) = Len(t.queue) - 1 /\ Len(t.queue) \in Nat
      BY <1>2, PartsOf
    <3>4. k + Len(t.queue) <= Cardinality(t.visited)
      BY <1>2 DEF QueuedOnce
    <3>5. Len(f[0].queue) = Len(t.queue) - 1
      BY <3>2, <3>3, Zenon
    <3>6. Counts(f[0])
      <4> DEFINE l == Len(t.queue)
                 q == Len(f[0].queue)
                 v == Cardinality(t.visited)
      <4>1. l \in Nat /\ q = l - 1 /\ k + l <= v
        BY <3>3, <3>4, <3>5
      <4>2. Cardinality(t.visited) \in Nat
        <5>1. t.visited \in SUBSET Symbols
          BY PartsOf
        <5> QED
          BY <5>1, FS_Subset, FS_CardinalityType, CallsAssumption
      <4>3. Len(f[0].queue) \in Nat
        <5>1. f[0] \in TraversalState
          BY <2>3, <2>4
        <5> QED
          BY <5>1, PartsOf
      <4>4. k + 1 + q <= v
        <5>1. q \in Nat /\ v \in Nat
          BY <4>2, <4>3
        <5> HIDE DEF l, q, v
        <5> QED
          BY <4>1, <5>1
      <4> QED
        BY <3>2, <4>4, Zenon
    <3>7. 0 \in 0 .. Len(list)
      BY <2>4
    <3> HIDE DEF Counts
    <3> QED
      BY <3>6, <3>7
  <2>6. ASSUME NEW j \in 0 .. Len(list) - 1, j \in T PROVE j + 1 \in T
    <3>1. j + 1 \in 1 .. Len(list) /\ j + 1 - 1 = j /\ j + 1 \in 0 .. Len(list) /\ j \in 0 .. Len(list)
      BY <2>4
    <3>2. f[j + 1] = Met(f[j], item.depth, list[j + 1], b)
      BY <2>3, <3>1 DEF Meetings
    <3>3. Counts(f[j]) /\ f[j] \in TraversalState /\ list[j + 1] \in Symbols /\ k + 1 \in Nat
      <4>1. Counts(f[j])
        BY <2>6
      <4>2. f[j] \in TraversalState
        BY <3>1
      <4>3. list[j + 1] \in Symbols
        BY <2>4, <3>1
      <4>4. k + 1 \in Nat
        OBVIOUS
      <4> QED
        BY <4>1, <4>2, <4>3, <4>4
    <3> HIDE DEF item
    <3>4. Counts(f[j + 1])
      BY <2>2, <3>2, <3>3, MetQueues
    <3> HIDE DEF Counts
    <3> QED
      BY <3>1, <3>4
  <2>7. \A j \in 0 .. Len(list) : j \in T
    <3> HIDE DEF T
    <3> QED
      BY <2>4, <2>5, <2>6, Inducts
  <2>8. Counts(f[Len(list)])
    BY <2>4, <2>7
  <2> QED
    BY <2>3, <2>8 DEF Meetings, QueuedOnce
<1> QED
  BY <1>1, <1>2

LEMMA TraverseEnds ==
  ASSUME CallsInv, NEW root \in Symbols, NEW direction, NEW b \in Budget
  PROVE  Traverse(root, direction, b).queue = <<>> \/ Traverse(root, direction, b).stop # None
<1> DEFINE turns == Cardinality(Symbols)
<1>1. PICK f \in [0 .. turns -> TraversalState] : TraverseTurns(root, direction, b, turns, f)
  BY TraverseIs
<1>2. turns \in Nat
  BY FS_CardinalityType, CallsAssumption
<1> HIDE DEF turns
<1> DEFINE T == {k \in 0 .. turns : QueuedOnce(f[k], k)}
<1>3. 0 \in T
  <2>1. f[0] = Traversal(root)
    BY <1>1 DEF TraverseTurns
  <2>2. Len(f[0].queue) = 1 /\ f[0].visited = {root}
    BY <2>1 DEF Traversal
  <2>3. 0 + Len(f[0].queue) <= Cardinality(f[0].visited)
    <3>1. Cardinality({root}) = 1
      BY FS_Singleton, Zenon
    <3> QED
      BY <2>2, <3>1
  <2> QED
    BY <1>2, <2>3 DEF QueuedOnce
<1>4. ASSUME NEW k \in 0 .. turns - 1, k \in T PROVE k + 1 \in T
  <2>1. k + 1 \in 1 .. turns /\ k + 1 - 1 = k /\ k + 1 \in 0 .. turns /\ k \in 0 .. turns /\ k \in Nat
    BY <1>2
  <2>2. f[k + 1] = Walked(f[k], direction, b) /\ f[k] \in TraversalState
    BY <1>1, <2>1 DEF TraverseTurns
  <2>3. QueuedOnce(f[k + 1], k + 1)
    BY <1>4, <2>1, <2>2, WalkedQueues
  <2> QED
    BY <2>1, <2>3
<1>5. \A k \in 0 .. turns : k \in T
  <2> HIDE DEF T
  <2> QED
    BY <1>2, <1>3, <1>4, Inducts
<1> DEFINE t == f[turns]
<1>6. t \in TraversalState /\ QueuedOnce(t, turns) /\ Traverse(root, direction, b) = t
  BY <1>1, <1>2, <1>5 DEF TraverseTurns
<1> HIDE DEF t
<1>7. t.queue \in Seq(Item) /\ t.visited \in SUBSET Symbols
  BY <1>6, PartsOf
<1>8. Cardinality(t.visited) <= turns /\ Cardinality(t.visited) \in Nat
  BY <1>7, FS_Subset, FS_CardinalityType, CallsAssumption DEF turns
<1>9. t.queue # <<>> => Len(t.queue) \in Nat \ {0}
  BY <1>7
<1> QED
  BY <1>2, <1>6, <1>8, <1>9 DEF QueuedOnce

\* The loop of traverse ends for every call graph and every budget, in as many
\* turns as there are functions: what Traverse gives is what the loop leaves when
\* its queue is empty or a budget has stopped it (repo-map.ts:1218-1284).
THEOREM TraversalsEnd ==
  CallsSpec => [](\A s \in Symbols, dir \in {"in", "out", "both"}, b \in Budget :
                    Traverse(s, dir, b).queue = <<>> \/ Traverse(s, dir, b).stop # None)
<1>1. CallsInv => \A s \in Symbols, dir \in {"in", "out", "both"}, b \in Budget :
                    Traverse(s, dir, b).queue = <<>> \/ Traverse(s, dir, b).stop # None
  BY TraverseEnds
<1>2. CallsSpec => []CallsInv
  BY CallsInvInit, CallsInvStep, PTL DEF CallsSpec
<1> QED
  BY <1>1, <1>2, PTL
=============================================================================
