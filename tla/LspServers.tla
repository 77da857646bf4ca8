----------------------------- MODULE LspServers -----------------------------
(***************************************************************************)
(* The language servers of one language: the pool that starts them when a  *)
(* tool asks (src/src/runtime/lsp/pool.ts) and the client of each server   *)
(* process, with its JSON-RPC requests (src/src/runtime/lsp/client.ts).    *)
(*                                                                         *)
(* A client starts one process and is named with it by a number.  A call   *)
(* is a tool that gets a client and makes one request.  MaxClients bounds  *)
(* the processes, MaxCallers the calls at a time; MAX_RESTARTS is the      *)
(* code's.  A restart leaves its window of sixty seconds at any time.      *)
(***************************************************************************)
EXTENDS Naturals

CONSTANTS MaxClients, MaxCallers, MAX_RESTARTS

ASSUME LspAssumption == MaxClients \in Nat \ {0} /\ MAX_RESTARTS \in Nat

VARIABLES servers,   \* the process of every client
          clients,   \* proc, initialized and how far start and stop are
          pooled,    \* the entry of the language, client 0 for none
          callers,   \* tool calls: the client they start or wait for
          closing,   \* how far closeAll is
          strays     \* servers left running by an error path or a race

lspVars == <<servers, clients, pooled, callers, closing, strays>>

Clients == 1 .. MaxClients
Callers == 1 .. MaxCallers

NotPooled == [client |-> 0, restarts |-> 0]
NotClosing == [pc |-> "no", client |-> 0]
Idle == [pc |-> "idle", client |-> 0, entry |-> NotPooled]

LspInit ==
  /\ servers = [i \in Clients |-> "none"]
  /\ clients = [i \in Clients |-> [proc |-> FALSE, initialized |-> FALSE]]
  /\ pooled = NotPooled
  /\ callers = [c \in Callers |-> Idle]
  /\ closing = NotClosing
  /\ strays = {}

\* alive: the process may have exited all the same.
ClientAlive(i) == i # 0 /\ clients[i].proc /\ clients[i].initialized

Running(i) == servers[i] = "running"

-----------------------------------------------------------------------------
\* get finds a client and the tool sends its request; one that cannot be
\* written is rejected at once.
CallSent(c) ==
  /\ callers[c].pc = "idle" /\ ClientAlive(pooled.client)
  /\ Running(pooled.client)
  /\ callers' = [callers EXCEPT ![c] = [Idle EXCEPT !.pc = "waiting", !.client = pooled.client]]
  /\ UNCHANGED <<servers, clients, pooled, closing, strays>>

\* get starts a server: the next client, whose process starts or does not.
\* An entry counts a restart, unless its budget is used up, and shares the
\* count with the starts under way; "kept" are the restarts still in the
\* window.
StartClient(c, kept, spawned) ==
  LET i == CHOOSE j \in Clients : servers[j] = "none" /\ \A k \in 1 .. j - 1 : servers[k] # "none"
      entry == IF pooled.client = 0 THEN NotPooled ELSE [pooled EXCEPT !.restarts = kept + 1]
  IN  /\ callers[c].pc = "idle" /\ ~ClientAlive(pooled.client)
      /\ servers[MaxClients] = "none"
      /\ kept <= pooled.restarts /\ entry.restarts <= MAX_RESTARTS
      /\ servers' = [servers EXCEPT ![i] = IF spawned THEN "running" ELSE "failed"]
      /\ clients' = [clients EXCEPT ![i].proc = TRUE]
      /\ pooled' = entry
      /\ callers' = [d \in Callers |->
           IF d = c THEN [pc |-> "starting", client |-> i, entry |-> entry]
           ELSE IF callers[d].pc = "starting" /\ callers[d].entry.client = pooled.client
             THEN [callers[d] EXCEPT !.entry = entry] ELSE callers[d]]
      /\ UNCHANGED <<closing, strays>>

\* initialize is answered: the client replaces whatever the pool holds by now,
\* and the tool sends its request.
StartEnds(c) ==
  LET i == callers[c].client
  IN  /\ callers[c].pc = "starting" /\ Running(i)
      /\ clients' = [clients EXCEPT ![i].initialized = TRUE]
      /\ pooled' = [client |-> i, restarts |-> callers[c].entry.restarts]
      /\ strays' = strays \cup ({pooled.client} \cap {j \in Clients : Running(j)})
      /\ callers' = [callers EXCEPT ![c] = [Idle EXCEPT !.pc = "waiting", !.client = i]]
      /\ UNCHANGED <<servers, closing>>

\* It is answered with an error, or not within thirty seconds: get returns
\* null, and nobody stops the process.
StartFails(c) ==
  LET i == callers[c].client
  IN  /\ callers[c].pc = "starting"
      /\ strays' = strays \cup ({i} \cap {j \in Clients : Running(j)})
      /\ callers' = [callers EXCEPT ![c] = Idle]
      /\ UNCHANGED <<servers, clients, pooled, closing>>

\* The answer, an error or the timer.
CallEnds(c) ==
  /\ callers[c].pc = "waiting"
  /\ callers' = [callers EXCEPT ![c] = Idle]
  /\ UNCHANGED <<servers, clients, pooled, closing, strays>>

\* A defect to check the property with: requests are not rejected when the
\* process exits.
ServerExitsQuietly(i) ==
  /\ Running(i)
  /\ servers' = [servers EXCEPT ![i] = "exited"]
  /\ strays' = strays \ {i}
  /\ UNCHANGED <<clients, pooled, closing, callers>>

\* The process exits and rejectAll ends every request; the client keeps proc
\* and initialized.
ServerExits(i) ==
  /\ Running(i)
  /\ servers' = [servers EXCEPT ![i] = "exited"]
  /\ strays' = strays \ {i}
  /\ callers' = [c \in Callers |-> IF callers[c].client = i THEN Idle ELSE callers[c]]
  /\ UNCHANGED <<clients, pooled, closing>>

-----------------------------------------------------------------------------
\* closeAll: stop sends shutdown to the pooled client, if there is one.
CloseBegins ==
  /\ closing.pc = "no"
  /\ closing' = [pc |-> IF pooled.client # 0 /\ clients[pooled.client].proc THEN "stopping" ELSE "stopped",
                 client |-> pooled.client]
  /\ UNCHANGED <<servers, clients, pooled, callers, strays>>

\* shutdown is answered, rejected or timed out, and exit is sent.  proc is null
\* before the timer of SIGKILL looks at it: the process exits by itself, or
\* goes on.
StopEnds ==
  LET i == closing.client
  IN  /\ closing.pc = "stopping"
      /\ clients' = [clients EXCEPT ![i] = [proc |-> FALSE, initialized |-> FALSE]]
      /\ strays' = strays \cup ({i} \cap {j \in Clients : Running(j)})
      /\ closing' = [pc |-> "stopped", client |-> 0]
      /\ UNCHANGED <<servers, pooled, callers>>

\* Every stop has ended, those of other languages too: the pool is emptied,
\* of a client as well that was started meanwhile.
PoolCleared ==
  /\ closing.pc = "stopped"
  /\ strays' = strays \cup ({pooled.client} \cap {j \in Clients : Running(j)})
  /\ pooled' = NotPooled
  /\ closing' = NotClosing
  /\ UNCHANGED <<servers, clients, callers>>

LspNext ==
  \/ \E c \in Callers :
       \/ CallSent(c) \/ StartEnds(c) \/ StartFails(c) \/ CallEnds(c)
       \/ \E kept \in 0 .. MAX_RESTARTS, spawned \in BOOLEAN : StartClient(c, kept, spawned)
  \/ \E i \in Clients : ServerExits(i)
  \/ CloseBegins \/ StopEnds \/ PoolCleared

LspSpec == LspInit /\ [][LspNext]_lspVars

-----------------------------------------------------------------------------
\* The state has the types of the code.
LspTypeOK ==
  /\ servers \in [Clients -> {"none", "running", "failed", "exited"}]
  /\ clients \in [Clients -> [proc : BOOLEAN, initialized : BOOLEAN]]
  /\ pooled \in [client : 0 .. MaxClients, restarts : 0 .. MAX_RESTARTS]
  /\ \A c \in Callers : callers[c].pc \in {"idle", "starting", "waiting"}
  /\ closing \in [pc : {"no", "stopping", "stopped"}, client : 0 .. MaxClients]
  /\ strays \subseteq Clients

(***************************************************************************)
(* No server and no request is forgotten (pool.ts:4-6, client.ts:90-93):   *)
(* a request never waits for a process that has exited, whichever calls    *)
(* start, share, replace or close the client; and a process that runs is   *)
(* the pool's or is being started, unless one of the known paths leaves it *)
(* to itself: its initialize failed, an overlapping start replaced it, it  *)
(* was started while the pool closed, or it does not obey exit.            *)
(***************************************************************************)
ServersAccounted ==
  /\ \A c \in Callers : callers[c].pc = "waiting" => Running(callers[c].client)
  /\ \A i \in Clients : Running(i) =>
       i \in {pooled.client} \cup strays \cup {callers[c].client : c \in Callers}
=============================================================================
