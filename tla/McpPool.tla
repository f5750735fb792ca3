------------------------------- MODULE McpPool -------------------------------
(***************************************************************************)
(* The pool of MCP clients (src/lib/server/mcp-connection-pool.ts), for    *)
(* one server: the pool treats servers apart.  Turns ask for a client with *)
(* the configuration they loaded, an operator edits the server, a broken   *)
(* tool call evicts.  A step runs to the next await; what follows a        *)
(* settled connect in the same burst of microtasks is one step.            *)
(***************************************************************************)
EXTENDS Integers, FiniteSets

CONSTANTS
  Turns,        \* turns that ask for the server's client
  NoClient,
  MaxEdits,     \* bound: edits of the server's configuration
  MaxConnects   \* bound: connects begun

ASSUME PoolAssumption == /\ NoClient \notin Turns \cup ((1 .. MaxConnects) \X (1 .. MaxEdits + 1))
                         /\ MaxEdits \in Nat /\ MaxConnects \in Nat

VARIABLES
  config,       \* the fingerprint of the stored configuration
  entry,        \* pool.entries[id]: a client, <<number, fingerprint>>
  inflight,     \* the turn whose promise is in pool.inflight, or NoClient
  fetch,        \* how far a turn's getOrConnectMcpClient has come
  opened,       \* clients whose transport is open
  evicting,     \* clients that a call of evictMcpClient is closing
  connects      \* connects begun

poolVars == <<config, entry, inflight, fetch, opened, evicting, connects>>

Configs == 1 .. MaxEdits + 1
Clients == (1 .. MaxConnects) \X Configs
Resting == [at |-> "rest", wants |-> 1, client |-> NoClient]

PoolInit ==
  /\ config = 1 /\ entry = NoClient /\ inflight = NoClient
  /\ fetch = [c \in Turns |-> Resting]
  /\ opened = {} /\ evicting = {} /\ connects = 0

-----------------------------------------------------------------------------
(* getOrConnectMcpClient *)

\* Bug: no turn waits for the connect of another.
JoinsNobody(c) == NoClient

\* The connect that a turn finds in flight.
Found(c) == inflight

\* The second half, once no entry is in the way: wait for the connect in
\* flight, or begin one.
Connect(c, wants) ==
  \/ /\ Found(c) # NoClient
     /\ fetch' = [fetch EXCEPT ![c] = [at |-> "waits", wants |-> wants, client |-> NoClient]]
     /\ UNCHANGED <<inflight, connects>>
  \/ /\ Found(c) = NoClient /\ connects < MaxConnects
     /\ connects' = connects + 1
     /\ inflight' = c
     /\ fetch' = [fetch EXCEPT ![c] = [at |-> "connects", wants |-> wants,
                                       client |-> <<connects + 1, wants>>]]

\* The pooled client fits and is handed out; or it is disconnected first; or
\* there is none.
GetClient(c) ==
  /\ fetch[c].at = "rest"
  /\ \/ entry # NoClient /\ entry[2] = config
        /\ UNCHANGED <<inflight, fetch, connects>>
     \/ /\ entry # NoClient /\ entry[2] # config
        /\ fetch' = [fetch EXCEPT ![c] = [at |-> "closes", wants |-> config, client |-> entry]]
        /\ UNCHANGED <<inflight, connects>>
     \/ entry = NoClient /\ Connect(c, config)
  /\ UNCHANGED <<config, entry, opened, evicting>>

\* Bug: the entry stays in the pool.
EntryKept == entry

\* pool.entries.delete
EntryDeleted == NoClient

\* The stale client is disconnected; the entry of this id goes, whichever it
\* is by now.
StaleClosed(c) ==
  /\ fetch[c].at = "closes"
  /\ opened' = opened \ {fetch[c].client}
  /\ entry' = EntryDeleted
  /\ Connect(c, fetch[c].wants)
  /\ UNCHANGED <<config, evicting>>

\* A connect ends, for its turn and for those that wait for it.
ConnectEnds(c) ==
  /\ fetch[c].at = "connects"
  /\ \/ entry' = fetch[c].client /\ opened' = opened \cup {fetch[c].client}
     \/ UNCHANGED <<entry, opened>>
  /\ inflight' = NoClient
  /\ fetch' = [d \in Turns |-> IF d = c \/ fetch[d].at = "waits" THEN Resting ELSE fetch[d]]
  /\ UNCHANGED <<config, evicting, connects>>

-----------------------------------------------------------------------------
(* evictMcpClient *)

Evict ==
  /\ IF entry = NoClient THEN UNCHANGED evicting ELSE evicting' = evicting \cup {entry}
  /\ entry' = EntryDeleted
  /\ UNCHANGED <<inflight, fetch, opened, connects>>

\* The operator edits the server: the configuration is stored, then evicted.
EditServer == config <= MaxEdits /\ config' = config + 1 /\ Evict

\* A tool call of some turn, old or new, found its connection broken.
ToolBroke == entry # NoClient /\ Evict /\ UNCHANGED config

EvictEnds(k) ==
  /\ k \in evicting
  /\ evicting' = evicting \ {k} /\ opened' = opened \ {k}
  /\ UNCHANGED <<config, entry, inflight, fetch, connects>>

PoolNext ==
  \/ \E c \in Turns : GetClient(c) \/ StaleClosed(c) \/ ConnectEnds(c)
  \/ EditServer \/ ToolBroke
  \/ \E k \in Clients : EvictEnds(k)

PoolSpec == PoolInit /\ [][PoolNext]_poolVars

-----------------------------------------------------------------------------
PoolTypeOK ==
  /\ config \in Configs /\ entry \in Clients \cup {NoClient} /\ inflight \in Turns \cup {NoClient}
  /\ fetch \in [Turns -> [at : {"rest", "closes", "waits", "connects"}, wants : Configs,
                          client : Clients \cup {NoClient}]]
  /\ opened \subseteq Clients /\ evicting \subseteq Clients /\ connects \in 0 .. MaxConnects

\* Turns that ask at once share one connect: never are two under way, and
\* never is a connect under way while the pool holds a client.
OneConnect ==
  \A c \in Turns : fetch[c].at = "connects" =>
    entry = NoClient /\ \A d \in Turns : fetch[d].at = "connects" => d = c

\* Somebody has the client and will close it, or hand it out.
Kept(k) == k = entry \/ k \in evicting \/ \E c \in Turns : fetch[c].at = "closes" /\ fetch[c].client = k

\* An open client is lost from sight in one way only: a turn that was closing
\* a stale client deletes the entry it finds, which another turn has renewed.
LostOnlyByLateDelete ==
  [][\A k \in opened' : (k \in opened => Kept(k)) /\ ~Kept(k)' =>
       \E c \in Turns : /\ fetch[c].at = "closes" /\ fetch'[c].at # "closes"
                        /\ fetch[c].client # entry]_poolVars

\* A client that the pool may hand out is open: what is closed, or about to be
\* closed by an eviction, is never found in the pool again.
PooledIsOpen == entry # NoClient => entry \in opened \ evicting
=============================================================================
