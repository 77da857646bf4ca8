------------------------------ MODULE KvStore ------------------------------
(***************************************************************************)
(* The key-value store of a project exists twice: over SQLite              *)
(* (createKvService with src/src/storage/kv-queries.ts) and, when the      *)
(* database cannot be opened, in memory (createInMemoryKvService), with    *)
(* the claim that the contract is the same (src/src/services/kv.ts:92).    *)
(* Both are driven here by the same calls at the same times and compared.  *)
(*                                                                         *)
(* Rows expire in two ways: the database hides a row whose time has come   *)
(* and deletes it in a cleanup that a later write schedules; the map       *)
(* deletes it when it is read.  A statement that finds the database locked *)
(* is retried and at last throws: a set or delete that throws changes      *)
(* nothing, a cleanup is skipped.  MaxNow bounds the clock; a value is a   *)
(* number, and 0 stands for text that is not JSON.                         *)
(***************************************************************************)
EXTENDS Naturals, FiniteSets

CONSTANTS KvKeys,           \* keys of one project
          Prefixed,         \* those that start with the prefix asked for
          Values,           \* data, 0 is text JSON.parse refuses
          Ttl,              \* lifetime of a row
          CleanupInterval,  \* CLEANUP_INTERVAL_MS
          MaxNow            \* bound on the clock

ASSUME KvAssumption == /\ Prefixed \subseteq KvKeys /\ 0 \in Values
                       /\ Ttl \in Nat /\ MaxNow \in Nat \ {0}

VARIABLES now,          \* Date.now()
          rows,         \* table project_kv
          lastCleanup,  \* lastCleanupAt of kv-queries.ts
          cleanups,     \* scheduled cleanups, each with the time it uses
          map           \* the store of the in-memory service

kvVars == <<now, rows, lastCleanup, cleanups, map>>

Row == [data : Values, updated : 0 .. MaxNow, expires : 0 .. MaxNow + Ttl]
NoRow == [data |-> 0, updated |-> 0, expires |-> 0]

KvInit ==
  /\ now = 1
  /\ rows = [k \in KvKeys |-> NoRow]
  /\ lastCleanup = 0
  /\ cleanups = {}
  /\ map = [k \in KvKeys |-> NoRow]

Tick ==
  /\ now < MaxNow
  /\ now' = now + 1
  /\ UNCHANGED <<rows, lastCleanup, cleanups, map>>

(***************************************************************************)
(* set: an upsert that renews the row, and a cleanup put off to the next   *)
(* turn with the present time, at most one per interval.                   *)
(***************************************************************************)
KvSet(k, v) ==
  LET row == [data |-> v, updated |-> now, expires |-> now + Ttl]
      due == now - lastCleanup > CleanupInterval
  IN  /\ rows' = [rows EXCEPT ![k] = row]
      /\ map' = [map EXCEPT ![k] = row]
      /\ \/ due /\ lastCleanup' = now /\ cleanups' = cleanups \cup {now}
         \/ ~due /\ UNCHANGED <<lastCleanup, cleanups>>
      /\ UNCHANGED now

KvDelete(k) ==
  /\ rows' = [rows EXCEPT ![k] = NoRow]
  /\ map' = [map EXCEPT ![k] = NoRow]
  /\ UNCHANGED <<now, lastCleanup, cleanups>>

\* A defect to check the property with: the cleanup takes rows that are about
\* to expire.
CleanupTooEager(at, locked) ==
  /\ at \in cleanups
  /\ cleanups' = cleanups \ {at}
  /\ \/ locked /\ UNCHANGED rows
     \/ /\ ~locked
        /\ rows' = [k \in KvKeys |-> IF rows[k].expires <= at + 1 THEN NoRow ELSE rows[k]]
  /\ UNCHANGED <<now, lastCleanup, map>>

\* The scheduled cleanup; an error of the statement is swallowed.
Cleanup(at, locked) ==
  /\ at \in cleanups
  /\ cleanups' = cleanups \ {at}
  /\ \/ locked /\ UNCHANGED rows
     \/ /\ ~locked
        /\ rows' = [k \in KvKeys |-> IF rows[k].expires < at THEN NoRow ELSE rows[k]]
  /\ UNCHANGED <<now, lastCleanup, map>>

\* readRow, list and listByPrefix of the map delete what they find expired.
Dropped(ks) == [k \in KvKeys |-> IF k \in ks /\ map[k].expires <= now THEN NoRow ELSE map[k]]

\* A read of the keys ks: get, list, or listByPrefix.
KvRead(ks) ==
  /\ map' = Dropped(ks)
  /\ UNCHANGED <<now, rows, lastCleanup, cleanups>>

\* What the two services answer.  get gives null for text that is not JSON,
\* the lists give the row with null in place of its data.
DbVisible(k) == rows[k].expires > now
DbGet(k) == IF DbVisible(k) THEN rows[k].data ELSE 0
DbList(ks) == {<<k, rows[k].data, rows[k].updated, rows[k].expires>> : k \in {i \in ks : DbVisible(i)}}

MapVisible(k) == map[k].expires > now
MapGet(k) == IF MapVisible(k) THEN map[k].data ELSE 0
MapList(ks) == {<<k, map[k].data, map[k].updated, map[k].expires>> : k \in {i \in ks : MapVisible(i)}}

KvNext ==
  \/ Tick
  \/ \E k \in KvKeys, v \in Values : KvSet(k, v)
  \/ \E k \in KvKeys : KvDelete(k)
  \/ \E at \in cleanups, locked \in BOOLEAN : Cleanup(at, locked)
  \/ \E ks \in {{k} : k \in KvKeys} \cup {KvKeys, Prefixed} : KvRead(ks)

KvSpec == KvInit /\ [][KvNext]_kvVars

-----------------------------------------------------------------------------
KvTypeOK ==
  /\ now \in 1 .. MaxNow
  /\ rows \in [KvKeys -> Row] /\ map \in [KvKeys -> Row]
  /\ lastCleanup \in 0 .. MaxNow
  /\ cleanups \subseteq 1 .. MaxNow

(***************************************************************************)
(* "Contract is identical ... TTL semantics match" (services/kv.ts:92-94): *)
(* whatever the order of writes, deletes, renewals, put-off cleanups and   *)
(* reads, at every moment both stores answer every get with the same data  *)
(* and every list with the same entries.                                   *)
(***************************************************************************)
StoresAgree ==
  /\ \A k \in KvKeys : DbGet(k) = MapGet(k)
  /\ \A ks \in {KvKeys, Prefixed} : DbList(ks) = MapList(ks)
=============================================================================
