---------------------------- MODULE ServiceProofs ----------------------------
(***************************************************************************)
(* For any number of turns, events, tasks, questions and faults: what the  *)
(* pool of MCP clients, the queue of wakes, the scheduler and the          *)
(* questions to the human promise.  They share no state; the proof of each *)
(* stands by itself.                                                       *)
(***************************************************************************)
EXTENDS McpPool, WakeQueue, Scheduler, HumanQuestions, FiniteSetTheorems, TLAPS

\* What is left of a sequence after its head.
LEMMA TailIs ==
  ASSUME NEW S, NEW s \in Seq(S), s # <<>>
  PROVE  /\ Tail(s) \in Seq(S) /\ Len(Tail(s)) = Len(s) - 1
         /\ 1 \in DOMAIN s /\ Head(s) = s[1] /\ s[1] \in S
         /\ \A i \in DOMAIN Tail(s) : i + 1 \in DOMAIN s /\ Tail(s)[i] = s[i + 1]
         /\ Len(s) \in DOMAIN s /\ Len(s) \in Nat
         /\ Tail(s) = <<>> => Len(s) = 1
         /\ Tail(s) # <<>> => Tail(s)[Len(Tail(s))] = s[Len(s)]
<1> DEFINE n == Len(s)
<1>1. n \in Nat /\ n # 0 /\ DOMAIN s = 1 .. n
  OBVIOUS
<1>2. Tail(s) \in Seq(S) /\ Len(Tail(s)) = n - 1 /\ DOMAIN Tail(s) = 1 .. n - 1
  OBVIOUS
<1>3. \A i \in 1 .. n - 1 : i + 1 \in 1 .. n /\ Tail(s)[i] = s[i + 1]
  BY <1>1
<1>4. Head(s) = s[1] /\ s[1] \in S
  BY <1>1
<1>5. Tail(s) = <<>> => n = 1
  <2>1. Len(<<>>) = 0 OBVIOUS
  <2>2. Tail(s) = <<>> => Len(Tail(s)) = Len(<<>>) BY Zenon
  <2> QED BY <1>1, <1>2, <2>1, <2>2
<1>6. Tail(s) # <<>> => n - 1 \in 1 .. n - 1
  BY <1>1, <1>2
<1> HIDE DEF n
<1>7. Tail(s) # <<>> => Tail(s)[Len(Tail(s))] = s[n]
  BY <1>1, <1>2, <1>3, <1>6
<1> QED BY <1>1, <1>2, <1>3, <1>4, <1>5, <1>7 DEF n

-----------------------------------------------------------------------------
(* The pool: one connect at a time, no closed client in the pool, and the one
   way in which a client is lost. *)

\* Clients that some part of the pool may name.
Named == opened \cup evicting \cup {entry}
           \cup {fetch[c].client : c \in {c \in Turns : fetch[c].at = "closes"}}

\* The connect in flight is that of the turn that connects, while the pool is
\* empty; and its client is new.
OneInFlight ==
  \A c \in Turns : fetch[c].at = "connects" => inflight = c /\ entry = NoClient

ClientIsNew ==
  /\ \A k \in Named \ {NoClient} : k[1] <= connects
  /\ \A c \in Turns : fetch[c].at \in {"connects", "closes"} => fetch[c].client \in Clients
  /\ \A c \in Turns : fetch[c].at = "connects" =>
       fetch[c].client[1] <= connects /\ fetch[c].client \notin Named

PoolIInv == PoolTypeOK /\ OneInFlight /\ ClientIsNew /\ PooledIsOpen

-----------------------------------------------------------------------------
LEMMA NoClientIsNone == NoClient \notin Turns /\ NoClient \notin Clients
  BY PoolAssumption DEF Clients, Configs

LEMMA ConnectTyped ==
  ASSUME PoolTypeOK, NEW c \in Turns, NEW wants \in Configs, Connect(c, wants)
  PROVE  /\ inflight' \in Turns \cup {NoClient}
         /\ fetch' \in [Turns -> [at : {"rest", "closes", "waits", "connects"}, wants : Configs,
                                  client : Clients \cup {NoClient}]]
         /\ connects' \in 0 .. MaxConnects
<1>1. CASE /\ fetch' = [fetch EXCEPT ![c] = [at |-> "waits", wants |-> wants, client |-> NoClient]]
           /\ UNCHANGED <<inflight, connects>>
  BY <1>1 DEF PoolTypeOK
<1>2. CASE /\ connects < MaxConnects /\ connects' = connects + 1
           /\ inflight' = c
           /\ fetch' = [fetch EXCEPT ![c] = [at |-> "connects", wants |-> wants,
                                             client |-> <<connects + 1, wants>>]]
  <2>1. connects' \in 0 .. MaxConnects BY <1>2, PoolAssumption DEF PoolTypeOK
  <2>2. <<connects + 1, wants>> \in Clients BY <1>2, PoolAssumption DEF PoolTypeOK, Clients
  <2> QED BY <1>2, <2>1, <2>2 DEF PoolTypeOK
<1> QED BY <1>1, <1>2 DEF Connect

LEMMA PoolTypeStep == PoolTypeOK /\ ClientIsNew /\ [PoolNext]_poolVars => PoolTypeOK'
<1> SUFFICES ASSUME PoolTypeOK, ClientIsNew, [PoolNext]_poolVars PROVE PoolTypeOK'
  OBVIOUS
<1> USE DEF PoolTypeOK
<1>1. ASSUME NEW c \in Turns, GetClient(c) PROVE PoolTypeOK'
  <2>1. CASE UNCHANGED <<inflight, fetch, connects>>
    BY <1>1, <2>1 DEF GetClient
  <2>2. CASE /\ entry # NoClient
             /\ fetch' = [fetch EXCEPT ![c] = [at |-> "closes", wants |-> config, client |-> entry]]
             /\ UNCHANGED <<inflight, connects>>
    BY <1>1, <2>2 DEF GetClient
  <2>3. CASE Connect(c, config)
    BY <1>1, <2>3, ConnectTyped DEF GetClient
  <2> QED BY <1>1, <2>1, <2>2, <2>3 DEF GetClient
<1>2. ASSUME NEW c \in Turns, StaleClosed(c) PROVE PoolTypeOK'
  <2>1. fetch[c].wants \in Configs OBVIOUS
  <2> QED BY <1>2, <2>1, ConnectTyped DEF StaleClosed, EntryDeleted
<1>3. ASSUME NEW c \in Turns, ConnectEnds(c) PROVE PoolTypeOK'
  <2>1. Resting \in [at : {"rest", "closes", "waits", "connects"}, wants : Configs,
                     client : Clients \cup {NoClient}]
    BY PoolAssumption DEF Resting, Configs
  <2>2. fetch' \in [Turns -> [at : {"rest", "closes", "waits", "connects"}, wants : Configs,
                              client : Clients \cup {NoClient}]]
    BY <1>3, <2>1 DEF ConnectEnds
  <2>3. entry' \in Clients \cup {NoClient} /\ opened' \subseteq Clients
    BY <1>3 DEF ConnectEnds, ClientIsNew
  <2> QED BY <1>3, <2>2, <2>3 DEF ConnectEnds
<1>4. CASE EditServer
  BY <1>4, PoolAssumption DEF EditServer, Evict, EntryDeleted, Configs
<1>5. CASE ToolBroke BY <1>5 DEF ToolBroke, Evict, EntryDeleted
<1>6. ASSUME NEW k \in Clients, EvictEnds(k) PROVE PoolTypeOK'
  BY <1>6 DEF EvictEnds
<1>7. CASE UNCHANGED poolVars BY <1>7 DEF poolVars
<1> QED BY <1>1, <1>2, <1>3, <1>4, <1>5, <1>6, <1>7 DEF PoolNext

-----------------------------------------------------------------------------
(* Steps.  What a connect does is the same after GetClient and StaleClosed. *)

LEMMA ConnectKeeps ==
  ASSUME PoolIInv, NEW c \in Turns, NEW wants \in Configs, Connect(c, wants),
         fetch[c].at # "connects", entry' = NoClient, UNCHANGED evicting,
         opened' \subseteq opened, opened' \subseteq Named,
         fetch[c].at = "closes" \/ entry = NoClient
  PROVE  OneInFlight' /\ ClientIsNew'
<1> USE DEF PoolIInv
<1>1. ASSUME NEW k \in Named' \ {NoClient} PROVE k \in Named /\ k[1] <= connects
  <2>1. \A d \in Turns : fetch'[d].at = "closes" => fetch'[d] = fetch[d]
    BY DEF Connect, PoolTypeOK
  <2> QED BY <1>1, <2>1 DEF Named, ClientIsNew
<1>2. CASE /\ fetch' = [fetch EXCEPT ![c] = [at |-> "waits", wants |-> wants, client |-> NoClient]]
           /\ UNCHANGED <<inflight, connects>>
  <2>1. \A d \in Turns : fetch'[d].at \in {"connects", "closes"} => fetch'[d] = fetch[d]
    BY <1>2 DEF PoolTypeOK
  <2>2. OneInFlight' BY <1>2, <2>1 DEF OneInFlight
  <2>3. ClientIsNew' BY <1>1, <1>2, <2>1, NoClientIsNone DEF ClientIsNew
  <2> QED BY <2>2, <2>3
<1>3. CASE /\ inflight = NoClient
           /\ connects' = connects + 1 /\ inflight' = c
           /\ fetch' = [fetch EXCEPT ![c] = [at |-> "connects", wants |-> wants,
                                             client |-> <<connects + 1, wants>>]]
  <2>1. connects \in Nat /\ connects' = connects + 1 BY <1>3 DEF PoolTypeOK
  <2>2. \A d \in Turns : fetch[d].at # "connects"
    BY <1>3, NoClientIsNone DEF OneInFlight
  <2>3. /\ \A d \in Turns \ {c} : fetch'[d] = fetch[d]
        /\ fetch'[c].at = "connects" /\ fetch'[c].client = <<connects + 1, wants>>
    BY <1>3 DEF PoolTypeOK
  <2>4. OneInFlight' BY <1>3, <2>2, <2>3 DEF OneInFlight
  <2>5. \A k \in Named' \ {NoClient} : k[1] <= connects'
    <3>1. ASSUME NEW k \in Named' \ {NoClient} PROVE k[1] <= connects'
      <4>1. k \in Clients BY <1>1, <3>1 DEF Named, PoolTypeOK, ClientIsNew
      <4>2. k[1] \in Int BY <4>1 DEF Clients
      <4> QED BY <1>1, <2>1, <3>1, <4>2
    <3> QED BY <3>1
  <2>6. <<connects + 1, wants>> \in Clients
    <3>1. connects + 1 \in 1 .. MaxConnects
      BY <1>3, ConnectTyped, PoolAssumption DEF PoolTypeOK
    <3> QED BY <3>1 DEF Clients
  <2>7. <<connects + 1, wants>> \notin Named'
    <3>1. SUFFICES ASSUME <<connects + 1, wants>> \in Named' PROVE FALSE
      OBVIOUS
    <3>2. <<connects + 1, wants>> # NoClient BY <2>6, NoClientIsNone
    <3>3. <<connects + 1, wants>>[1] <= connects BY <1>1, <3>1, <3>2
    <3> QED BY <2>1, <3>3
  <2>8. ClientIsNew' BY <2>1, <2>2, <2>3, <2>5, <2>6, <2>7 DEF ClientIsNew
  <2> QED BY <2>4, <2>8
<1> QED BY <1>2, <1>3 DEF Connect, Found

LEMMA EvictKeeps ==
  ASSUME PoolIInv, Evict PROVE OneInFlight' /\ ClientIsNew' /\ PooledIsOpen'
<1>1. Named' \ {NoClient} \subseteq Named
  BY DEF Evict, EntryDeleted, Named
<1>2. Named' \subseteq Named \cup {NoClient} BY <1>1
<1>3. OneInFlight' BY DEF PoolIInv, OneInFlight, Evict, EntryDeleted
<1>4. ClientIsNew'
  BY <1>1, <1>2, NoClientIsNone DEF PoolIInv, ClientIsNew, Evict
<1>5. PooledIsOpen' BY DEF Evict, EntryDeleted, PooledIsOpen
<1> QED BY <1>3, <1>4, <1>5

LEMMA PoolStep == PoolIInv /\ [PoolNext]_poolVars => PoolIInv'
<1> SUFFICES ASSUME PoolIInv, [PoolNext]_poolVars PROVE PoolIInv'
  OBVIOUS
<1> USE DEF PoolIInv
<1>0. PoolTypeOK' BY PoolTypeStep
<1>1. ASSUME NEW c \in Turns, GetClient(c) PROVE OneInFlight' /\ ClientIsNew' /\ PooledIsOpen'
  <2>1. CASE UNCHANGED <<inflight, fetch, connects>>
    BY <1>1, <2>1 DEF GetClient, OneInFlight, ClientIsNew, PooledIsOpen, Named
  <2>2. CASE /\ entry # NoClient
             /\ fetch' = [fetch EXCEPT ![c] = [at |-> "closes", wants |-> config, client |-> entry]]
             /\ UNCHANGED <<inflight, connects>>
    <3>1. /\ \A d \in Turns \ {c} : fetch'[d] = fetch[d]
          /\ fetch'[c].at = "closes" /\ fetch'[c].client = entry
      BY <2>2 DEF PoolTypeOK
    <3>2. Named' = Named BY <1>1, <2>2, <3>1 DEF GetClient, Named
    <3>3. entry \in Clients BY <2>2 DEF PoolTypeOK
    <3> QED BY <1>1, <2>2, <3>1, <3>2, <3>3
            DEF GetClient, OneInFlight, ClientIsNew, PooledIsOpen
  <2>3. CASE entry = NoClient /\ Connect(c, config)
    <3>1. config \in Configs /\ fetch[c].at = "rest"
          /\ UNCHANGED <<entry, opened, evicting>> /\ opened \subseteq Named
      BY <1>1 DEF GetClient, PoolTypeOK, Named
    <3>2. OneInFlight' /\ ClientIsNew' BY <2>3, <3>1, ConnectKeeps
    <3> QED BY <2>3, <3>1, <3>2 DEF PooledIsOpen
  <2> QED BY <1>1, <2>1, <2>2, <2>3 DEF GetClient
<1>2. ASSUME NEW c \in Turns, StaleClosed(c) PROVE OneInFlight' /\ ClientIsNew' /\ PooledIsOpen'
  <2>1. /\ fetch[c].wants \in Configs /\ fetch[c].at = "closes" /\ Connect(c, fetch[c].wants)
        /\ entry' = NoClient /\ evicting' = evicting /\ opened' = opened \ {fetch[c].client}
    BY <1>2 DEF StaleClosed, EntryDeleted, PoolTypeOK
  <2>2. opened' \subseteq opened /\ opened' \subseteq Named BY <2>1 DEF Named
  <2>3. OneInFlight' /\ ClientIsNew' BY <2>1, <2>2, ConnectKeeps
  <2> QED BY <2>1, <2>3 DEF PooledIsOpen
<1>3. ASSUME NEW c \in Turns, ConnectEnds(c) PROVE OneInFlight' /\ ClientIsNew' /\ PooledIsOpen'
  <2> DEFINE k == fetch[c].client
  <2>1. /\ fetch[c].at = "connects" /\ inflight = c /\ entry = NoClient
        /\ k \in Clients /\ k \notin Named /\ k[1] <= connects
        /\ evicting' = evicting /\ connects' = connects
    BY <1>3 DEF ConnectEnds, OneInFlight, ClientIsNew
  <2>2. /\ \A d \in Turns : fetch'[d].at # "connects"
        /\ \A d \in Turns : fetch'[d].at = "closes" => fetch'[d] = fetch[d]
    BY <1>3, <2>1 DEF ConnectEnds, OneInFlight, Resting
  <2>3. opened' \subseteq opened \cup {k} /\ entry' \in {k, NoClient}
    BY <1>3, <2>1 DEF ConnectEnds
  <2>4. Named' \ {NoClient} \subseteq Named \cup {k}
    BY <2>1, <2>2, <2>3 DEF Named
  <2>5. OneInFlight' BY <2>2 DEF OneInFlight
  <2>6. ClientIsNew' BY <2>1, <2>2, <2>4 DEF ClientIsNew
  <2>7. entry' # NoClient => entry' = k /\ k \in opened' /\ k \notin evicting
    BY <1>3, <2>1 DEF ConnectEnds, Named
  <2> QED BY <2>1, <2>5, <2>6, <2>7 DEF PooledIsOpen
<1>4. CASE EditServer BY <1>0, <1>4, EvictKeeps DEF EditServer
<1>5. CASE ToolBroke BY <1>0, <1>5, EvictKeeps DEF ToolBroke
<1>6. ASSUME NEW k \in Clients, EvictEnds(k) PROVE OneInFlight' /\ ClientIsNew' /\ PooledIsOpen'
  <2>1. Named' \subseteq Named BY <1>6 DEF EvictEnds, Named
  <2> QED BY <1>6, <2>1 DEF EvictEnds, OneInFlight, ClientIsNew, PooledIsOpen
<1>7. CASE UNCHANGED poolVars
  BY <1>0, <1>7 DEF poolVars, OneInFlight, ClientIsNew, PooledIsOpen, Named
<1> QED BY <1>0, <1>1, <1>2, <1>3, <1>4, <1>5, <1>6, <1>7 DEF PoolNext

LEMMA PoolStarts == PoolInit => PoolIInv
<1> SUFFICES ASSUME PoolInit PROVE PoolIInv
  OBVIOUS
<1>1. \A c \in Turns : fetch[c] = Resting /\ fetch[c].at = "rest" BY DEF PoolInit, Resting
<1>2. 1 \in Configs /\ 0 \in 0 .. MaxConnects BY PoolAssumption DEF Configs
<1>3. PoolTypeOK BY <1>2 DEF PoolInit, PoolTypeOK, Resting
<1>4. Named \subseteq {NoClient} BY <1>1 DEF PoolInit, Named
<1> QED BY <1>1, <1>3, <1>4 DEF PoolInit, PoolIInv, OneInFlight, ClientIsNew, PooledIsOpen

-----------------------------------------------------------------------------
\* The inductive invariant holds in every state.
THEOREM PoolInvariance == PoolSpec => []PoolIInv
  BY PoolStarts, PoolStep, PTL DEF PoolSpec

\* Turns that ask at once share one connect (getOrConnectMcpClient).
THEOREM ConnectsShared == PoolSpec => []OneConnect
<1>1. PoolIInv => OneConnect BY DEF PoolIInv, OneInFlight, OneConnect
<1> QED BY PoolInvariance, <1>1, PTL

\* The pool holds no client that is closed or about to be.
THEOREM PoolHoldsOpenClients == PoolSpec => []PooledIsOpen
<1>1. PoolIInv => PooledIsOpen BY DEF PoolIInv
<1> QED BY PoolInvariance, <1>1, PTL

\* A client is lost, open, only by the late delete of getOrConnectMcpClient.
THEOREM OnlyLateDeleteLoses == PoolSpec => LostOnlyByLateDelete
<1> DEFINE Lost == \A k \in opened' : (k \in opened => Kept(k)) /\ ~Kept(k)' =>
                     \E c \in Turns : /\ fetch[c].at = "closes" /\ fetch'[c].at # "closes"
                                      /\ fetch[c].client # entry
<1>1. ASSUME PoolIInv, [PoolNext]_poolVars PROVE Lost \/ UNCHANGED poolVars
  <2> SUFFICES ASSUME PoolNext, NEW k \in opened', k \in opened => Kept(k), ~Kept(k)'
               PROVE  \E c \in Turns : /\ fetch[c].at = "closes" /\ fetch'[c].at # "closes"
                                       /\ fetch[c].client # entry
    BY <1>1
  <2> USE <1>1 DEF PoolIInv
  <2>1. ASSUME NEW c \in Turns, GetClient(c) PROVE FALSE
    <3>1. \A d \in Turns : fetch[d].at = "closes" => fetch'[d] = fetch[d]
      BY <2>1 DEF GetClient, Connect, PoolTypeOK
    <3> QED BY <2>1, <3>1 DEF GetClient, Kept
  <2>2. ASSUME NEW c \in Turns, StaleClosed(c)
        PROVE  fetch[c].at = "closes" /\ fetch'[c].at # "closes" /\ fetch[c].client # entry
    <3>1. /\ fetch[c].at = "closes" /\ fetch'[c].at # "closes"
          /\ \A d \in Turns \ {c} : fetch'[d] = fetch[d]
      BY <2>2 DEF StaleClosed, Connect, PoolTypeOK
    <3>2. k \in opened /\ k # fetch[c].client /\ evicting' = evicting
      BY <2>2 DEF StaleClosed
    <3>3. k = entry BY <3>1, <3>2 DEF Kept
    <3> QED BY <3>1, <3>2, <3>3
  <2>3. ASSUME NEW c \in Turns, ConnectEnds(c) PROVE FALSE
    <3>1. entry = NoClient /\ NoClient \notin opened
      BY <2>3, NoClientIsNone DEF ConnectEnds, OneInFlight, PoolTypeOK
    <3>2. \A d \in Turns : fetch[d].at = "closes" => fetch'[d] = fetch[d]
      BY <2>3 DEF ConnectEnds
    <3> QED BY <2>3, <3>1, <3>2 DEF ConnectEnds, Kept
  <2>4. ASSUME Evict PROVE FALSE
    BY <2>4, NoClientIsNone DEF Evict, Kept, PoolTypeOK
  <2>5. ASSUME NEW j \in Clients, EvictEnds(j) PROVE FALSE
    BY <2>5 DEF EvictEnds, Kept
  <2> QED BY <2>1, <2>2, <2>3, <2>4, <2>5 DEF PoolNext, EditServer, ToolBroke
<1>2. LostOnlyByLateDelete <=> [][Lost]_poolVars
  BY DEF LostOnlyByLateDelete
<1> QED BY <1>1, <1>2, PoolInvariance, PTL DEF PoolSpec

-----------------------------------------------------------------------------
(* Wakes: none is lost between the timer and the lane, and one gives way to more
   urgent ones only. *)

\* Where the events are: those that wait do so behind an armed timer.
WaitingIsArmed == \A k \in Targets : pending[k] # {} => wakeTimer # "none"

WakeIInv == pending \in [Targets -> SUBSET Events] /\ WaitingIsArmed /\ EveryEventAccounted

-----------------------------------------------------------------------------
(* What is kept *)

LEMMA KeptIsPart ==
  ASSUME NEW S \in SUBSET Events, NEW T \in KeptOf(S) PROVE T \subseteq S
  BY DEF KeptOf, AnyKept

\* Where an event is not kept, there are as many as can be, none less urgent.
LEMMA KeptAreUrgent ==
  ASSUME NEW S \in SUBSET Events, NEW T \in KeptOf(S), NEW e \in S \ T
  PROVE  Cardinality(T) = MaxWakeEvents /\ \A f \in T : Urgency[f] >= Urgency[e]
<1>1. /\ T \subseteq S
      /\ Cardinality(T) = IF Cardinality(S) < MaxWakeEvents THEN Cardinality(S) ELSE MaxWakeEvents
      /\ \A d \in S \ T, f \in T : Urgency[d] <= Urgency[f]
  BY DEF KeptOf, AnyKept
<1>2. IsFiniteSet(S) BY WakeAssumption, FS_Subset
<1>3. Cardinality(T) # Cardinality(S) BY <1>1, <1>2, FS_Subset
<1>4. \A f \in T : Urgency[f] \in Nat /\ Urgency[e] \in Nat /\ Urgency[e] <= Urgency[f]
  BY <1>1, WakeAssumption
<1> QED BY <1>1, <1>3, <1>4

-----------------------------------------------------------------------------
(* What the steps do *)

\* A request adds its event to a target, and arms the timer.
LEMMA RequestIs ==
  ASSUME WakeIInv, NEW e \in Events, NEW k \in {"agent", "session"}, RequestWake(e, k)
  PROVE  /\ requested' = requested \cup {e} /\ UNCHANGED <<delivered, dropped>>
         /\ pending' \in [Targets -> SUBSET Events]
         /\ pending'[k] \in KeptOf(pending[k] \cup {e})
         /\ \A j \in Targets \ {k} : pending'[j] = pending[j]
         /\ evicted' = evicted \cup ((pending[k] \cup {e}) \ pending'[k])
         /\ wakeTimer' # "none"
<1>1. PICK T \in KeptOf(pending[k] \cup {e}) :
        /\ pending' = [pending EXCEPT ![k] = T]
        /\ evicted' = evicted \cup ((pending[k] \cup {e}) \ T)
  BY DEF RequestWake
<1>2. k \in Targets BY DEF Targets
<1>3. pending[k] \cup {e} \in SUBSET Events BY <1>2 DEF WakeIInv
<1>4. T \subseteq Events BY <1>1, <1>3, KeptIsPart
<1>5. pending'[k] = T /\ pending' \in [Targets -> SUBSET Events]
      /\ \A j \in Targets \ {k} : pending'[j] = pending[j]
  BY <1>1, <1>2, <1>4 DEF WakeIInv
<1>6. wakeTimer' # "none" BY DEF RequestWake, ArmedTimer
<1> QED BY <1>1, <1>5, <1>6 DEF RequestWake

\* A flush that finds nothing, or nobody to wake, drops what waits.
DropsAll ==
  /\ UNCHANGED <<delivered, evicted, requested>>
  /\ dropped' = dropped \cup UNION {pending[k] : k \in Targets}
  /\ pending' = [k \in Targets |-> {}]

\* One that finds somebody to wake hands some targets to the lane, and puts the
\* rest, what waits together, behind the retry timer.
HandsOver ==
  \E first \in SUBSET Targets, waiting \in [Targets -> SUBSET Events] :
    /\ UNCHANGED <<dropped, requested>>
    /\ delivered' = delivered \cup UNION {pending[k] : k \in first}
    /\ \A k \in Targets \ first : \A e \in pending[k] : \E j \in Targets : e \in waiting[j]
    /\ \A j \in Targets : waiting[j] # {} => wakeTimer' # "none"
    /\ pending' \in [Targets -> SUBSET Events]
    /\ \A j \in Targets : pending'[j] \in KeptOf(waiting[j])
    /\ evicted' = evicted \cup UNION {waiting[j] \ pending'[j] : j \in Targets}

LEMMA FlushIs == WakeIInv /\ FlushWakes => DropsAll \/ HandsOver
<1> SUFFICES ASSUME WakeIInv, FlushWakes PROVE DropsAll \/ HandsOver
  OBVIOUS
<1>1. CASE DropWakes
  <2>1. UNION {pending[k] : k \in Gathered} = UNION {pending[k] : k \in Targets} BY DEF Gathered
  <2>2. UNCHANGED requested BY DEF FlushWakes
  <2> QED BY <1>1, <2>1, <2>2 DEF DropsAll, DropWakes
<1>2. ASSUME NEW first \in SUBSET Gathered, NEW threw \in SUBSET Gathered, HandOver(first, threw)
      PROVE  HandsOver
  <2> DEFINE late == Gathered \ first
             waiting == Waiting(late, threw)
  <2>1. /\ evicted' = evicted \cup UNION {waiting[k] \ pending'[k] : k \in Targets}
        /\ wakeTimer' = IF late = {} THEN "none" ELSE "retry"
        /\ delivered' = delivered \cup UNION {pending[k] : k \in first}
        /\ UNCHANGED dropped
    BY <1>2 DEF HandOver, Retried
  <2>2. waiting \in [Targets -> SUBSET Events] BY DEF WakeIInv, Waiting, Gathered
  <2>7. /\ pending' \in [Targets -> SUBSET Events]
        /\ \A k \in Targets : pending'[k] \in KeptOf(waiting[k])
    <3>1. PICK a \in KeptOf(waiting["agent"]), s \in KeptOf(waiting["session"]), b \in KeptOf(waiting["both"]) :
            pending' = [k \in Targets |-> IF k = "agent" THEN a ELSE IF k = "session" THEN s ELSE b]
      BY <1>2 DEF HandOver, Retried
    <3> HIDE DEF waiting
    <3>2. \A k \in Targets : pending'[k] \in KeptOf(waiting[k]) BY <3>1 DEF Targets
    <3>3. \A k \in Targets : pending'[k] \subseteq Events BY <2>2, <3>2, KeptIsPart
    <3> QED BY <3>1, <3>2, <3>3
  <2>3. ASSUME NEW k \in Targets \ first, NEW e \in pending[k] PROVE \E j \in Targets : e \in waiting[j]
    <3> DEFINE j == IF k = "agent" /\ k \notin threw THEN "both" ELSE k
    <3>1. k \in late BY <2>3 DEF Gathered
    <3>2. j \in Targets BY DEF Targets
    <3>3. e \in waiting[j] BY <2>3, <3>1, <3>2 DEF Waiting
    <3> QED BY <3>2, <3>3
  <2>4. \A j \in Targets : waiting[j] # {} => late # {} BY DEF Waiting
  <2>5. \A j \in Targets : waiting[j] # {} => wakeTimer' # "none" BY <2>1, <2>4
  <2>6. first \in SUBSET Targets /\ UNCHANGED requested BY DEF Gathered, FlushWakes
  <2> HIDE DEF waiting
  <2> QED BY <2>1, <2>2, <2>3, <2>5, <2>6, <2>7 DEF HandsOver
<1> QED BY <1>1, <1>2 DEF FlushWakes

\* The other steps move no event.
Rests == UNCHANGED <<pending, wakeTimer, requested, delivered, evicted, dropped>>

LEMMA OthersRest == LaneTaken \/ LaneFreed \/ Disabled \/ UNCHANGED wakeVars => Rests
  BY DEF LaneTaken, LaneFreed, Disabled, wakeVars, Rests

-----------------------------------------------------------------------------
(* Theorems *)

LEMMA WakeStep == WakeIInv /\ [WakeNext]_wakeVars => WakeIInv'
<1> SUFFICES ASSUME WakeIInv, [WakeNext]_wakeVars PROVE WakeIInv'
  OBVIOUS
<1>1. ASSUME NEW e \in Events, NEW k \in {"agent", "session"}, RequestWake(e, k) PROVE WakeIInv'
  <2>1. /\ requested' = requested \cup {e} /\ UNCHANGED <<delivered, dropped>>
        /\ pending' \in [Targets -> SUBSET Events]
        /\ \A j \in Targets \ {k} : pending'[j] = pending[j]
        /\ evicted' = evicted \cup ((pending[k] \cup {e}) \ pending'[k])
        /\ wakeTimer' # "none"
    BY <1>1, RequestIs
  <2>2. k \in Targets BY DEF Targets
  <2>3. \A j \in Targets : \A d \in pending[j] : d \in pending'[j] \/ d \in evicted'
    BY <2>1
  <2>4. e \in pending'[k] \/ e \in evicted' BY <2>1
  <2>5. EveryEventAccounted'
    BY <2>1, <2>2, <2>3, <2>4 DEF WakeIInv, EveryEventAccounted
  <2> QED BY <2>1, <2>5 DEF WakeIInv, WaitingIsArmed
<1>2. CASE DropsAll
  <2>1. \A k \in Targets : pending[k] \subseteq dropped' BY <1>2 DEF DropsAll
  <2>2. EveryEventAccounted' BY <1>2, <2>1 DEF DropsAll, WakeIInv, EveryEventAccounted
  <2> QED BY <1>2, <2>2 DEF DropsAll, WakeIInv, WaitingIsArmed
<1>3. CASE HandsOver
  <2>1. PICK first \in SUBSET Targets, waiting \in [Targets -> SUBSET Events] :
          /\ UNCHANGED <<dropped, requested>>
          /\ delivered' = delivered \cup UNION {pending[k] : k \in first}
          /\ \A k \in Targets \ first : \A e \in pending[k] : \E j \in Targets : e \in waiting[j]
          /\ \A j \in Targets : waiting[j] # {} => wakeTimer' # "none"
          /\ pending' \in [Targets -> SUBSET Events]
          /\ \A j \in Targets : pending'[j] \in KeptOf(waiting[j])
          /\ evicted' = evicted \cup UNION {waiting[j] \ pending'[j] : j \in Targets}
    BY <1>3 DEF HandsOver
  <2>2. \A j \in Targets : pending'[j] \subseteq waiting[j] BY <2>1, KeptIsPart
  <2>3. WaitingIsArmed' BY <2>1, <2>2 DEF WaitingIsArmed
  <2>4. ASSUME NEW j \in Targets, NEW e \in waiting[j]
        PROVE  (wakeTimer' # "none" /\ e \in pending'[j]) \/ e \in evicted'
    BY <2>1, <2>4
  <2>5. ASSUME NEW k \in Targets, NEW e \in pending[k]
        PROVE  \/ wakeTimer' # "none" /\ \E j \in Targets : e \in pending'[j]
               \/ e \in delivered' \cup evicted'
    <3>1. CASE k \in first BY <2>1, <2>5, <3>1
    <3>2. CASE k \notin first BY <2>1, <2>4, <2>5, <3>2
    <3> QED BY <3>1, <3>2
  <2>6. delivered \subseteq delivered' /\ evicted \subseteq evicted' BY <2>1
  <2>7. EveryEventAccounted'
    BY <2>1, <2>5, <2>6 DEF WakeIInv, EveryEventAccounted
  <2> QED BY <2>1, <2>3, <2>7 DEF WakeIInv
<1>4. CASE Rests BY <1>4 DEF Rests, WakeIInv, WaitingIsArmed, EveryEventAccounted
<1> QED BY <1>1, <1>2, <1>3, <1>4, FlushIs, OthersRest DEF WakeNext

\* What the invariant leaves out.
WakeTyped ==
  /\ WakeIInv /\ wakeTimer \in {"none", "normal", "retry"}
  /\ laneBusy \in BOOLEAN /\ wakeable \in BOOLEAN
  /\ \A k \in Targets : Cardinality(pending[k]) <= MaxWakeEvents
  /\ UNION {requested, delivered, evicted, dropped} \subseteq Events

LEMMA KeptAreFew ==
  ASSUME NEW S \in SUBSET Events, NEW T \in KeptOf(S)
  PROVE  Cardinality(T) <= MaxWakeEvents
<1>1. Cardinality(T) = IF Cardinality(S) < MaxWakeEvents THEN Cardinality(S) ELSE MaxWakeEvents
  BY DEF KeptOf, AnyKept
<1>2. IsFiniteSet(S) BY WakeAssumption, FS_Subset
<1>3. Cardinality(S) \in Nat /\ MaxWakeEvents \in Nat BY <1>2, FS_CardinalityType, WakeAssumption
<1> QED BY <1>1, <1>3

LEMMA WakeTypedStarts == WakeInit => WakeTyped
<1> SUFFICES ASSUME WakeInit PROVE WakeTyped
  OBVIOUS
<1>1. WakeIInv BY DEF WakeInit, WakeIInv, WaitingIsArmed, EveryEventAccounted
<1>2. ASSUME NEW k \in Targets PROVE Cardinality(pending[k]) <= MaxWakeEvents
  <2>1. pending[k] = {} BY DEF WakeInit
  <2> QED BY <2>1, FS_EmptySet, WakeAssumption
<1> QED BY <1>1, <1>2 DEF WakeInit, WakeTyped

LEMMA WakeTypedStep == WakeTyped /\ [WakeNext]_wakeVars => WakeTyped'
<1> SUFFICES ASSUME WakeTyped, [WakeNext]_wakeVars PROVE WakeTyped'
  OBVIOUS
<1>0. WakeIInv BY DEF WakeTyped
<1>1. WakeIInv' BY <1>0, WakeStep
<1>2. wakeTimer' \in {"none", "normal", "retry"} /\ laneBusy' \in BOOLEAN /\ wakeable' \in BOOLEAN
  <2>1. ASSUME NEW e \in Events, NEW k \in {"agent", "session"}, RequestWake(e, k)
        PROVE  wakeTimer' \in {"none", "normal", "retry"} /\ UNCHANGED <<laneBusy, wakeable>>
    BY <2>1 DEF RequestWake, ArmedTimer, WakeTyped
  <2>2. CASE FlushWakes
    <3>1. CASE DropWakes BY <2>2, <3>1 DEF FlushWakes, DropWakes, WakeTyped
    <3>2. ASSUME NEW first \in SUBSET Gathered, NEW threw \in SUBSET Gathered, HandOver(first, threw)
          PROVE  wakeTimer' \in {"none", "normal", "retry"} /\ laneBusy' \in BOOLEAN
      BY <3>2 DEF HandOver, WakeTyped
    <3> QED BY <2>2, <3>1, <3>2 DEF FlushWakes, WakeTyped
  <2>3. CASE LaneTaken \/ LaneFreed \/ Disabled \/ UNCHANGED wakeVars
    BY <2>3 DEF LaneTaken, LaneFreed, Disabled, wakeVars, WakeTyped
  <2> QED BY <2>1, <2>2, <2>3 DEF WakeNext, WakeTyped
<1> DEFINE Few == \A k \in Targets : Cardinality(pending'[k]) <= MaxWakeEvents
           Known == UNION {requested, delivered, evicted, dropped} \subseteq Events
<1>3. requested \subseteq Events /\ delivered \subseteq Events /\ evicted \subseteq Events
      /\ dropped \subseteq Events /\ pending \in [Targets -> SUBSET Events]
  BY DEF WakeTyped, WakeIInv
<1>4. Few /\ Known'
  <2>1. ASSUME NEW e \in Events, NEW k \in {"agent", "session"}, RequestWake(e, k) PROVE Few /\ Known'
    <3>1. /\ requested' = requested \cup {e} /\ UNCHANGED <<delivered, dropped>>
          /\ pending' \in [Targets -> SUBSET Events]
          /\ pending'[k] \in KeptOf(pending[k] \cup {e})
          /\ \A j \in Targets \ {k} : pending'[j] = pending[j]
          /\ evicted' = evicted \cup ((pending[k] \cup {e}) \ pending'[k])
          /\ wakeTimer' # "none"
      BY <1>0, <2>1, RequestIs
    <3>2. pending[k] \cup {e} \in SUBSET Events BY <1>3 DEF Targets
    <3>3. Cardinality(pending'[k]) <= MaxWakeEvents BY <3>1, <3>2, KeptAreFew
    <3>4. Few BY <3>1, <3>3 DEF WakeTyped
    <3> QED BY <1>3, <3>1, <3>2, <3>4
  <2>2. CASE DropsAll
    <3>1. ASSUME NEW k \in Targets PROVE Cardinality(pending'[k]) <= MaxWakeEvents
      <4>1. pending'[k] = {} BY <2>2 DEF DropsAll
      <4> QED BY <4>1, FS_EmptySet, WakeAssumption
    <3> QED BY <1>3, <2>2, <3>1 DEF DropsAll
  <2>3. CASE HandsOver
    <3>1. PICK first \in SUBSET Targets, waiting \in [Targets -> SUBSET Events] :
            /\ UNCHANGED <<dropped, requested>>
            /\ delivered' = delivered \cup UNION {pending[k] : k \in first}
            /\ \A j \in Targets : pending'[j] \in KeptOf(waiting[j])
            /\ evicted' = evicted \cup UNION {waiting[j] \ pending'[j] : j \in Targets}
      BY <2>3 DEF HandsOver
    <3>2. Few BY <3>1, KeptAreFew
    <3> QED BY <1>3, <3>1, <3>2
  <2>4. CASE Rests BY <2>4 DEF Rests, WakeTyped
  <2> QED BY <1>0, <2>1, <2>2, <2>3, <2>4, FlushIs, OthersRest DEF WakeNext
<1> QED BY <1>1, <1>2, <1>4 DEF WakeTyped

LEMMA WakeIsTyped == WakeTyped => WakeTypeOK
BY DEF WakeTyped, WakeIInv, WakeTypeOK

\* The inductive invariant: every event is accounted for, and what waits does so
\* behind an armed timer, so that scheduleFlush and flushWakes forget no target.
THEOREM WakeInvariance == WakeSpec => []WakeIInv
<1>1. WakeInit => WakeIInv BY DEF WakeInit, WakeIInv, WaitingIsArmed, EveryEventAccounted
<1> QED BY <1>1, WakeStep, PTL DEF WakeSpec

\* No event that was asked for is lost between the timer and the lane
\* (requestHeartbeatNow, flushWakes, and the merging of targets by a retry).
THEOREM NoWakeIsLost == WakeSpec => []EveryEventAccounted
<1>1. WakeIInv => EveryEventAccounted BY DEF WakeIInv
<1> QED BY <1>1, WakeInvariance, PTL

\* An event that uniqueWakeEvents leaves out gave way to as many as can be kept,
\* none of them less urgent, also where a retry merges two targets.
THEOREM GivesWay == WakeSpec => GivesWayToUrgent
<1> DEFINE Fair(e) == \E k \in Targets : /\ Cardinality(pending'[k]) = MaxWakeEvents
                                         /\ \A f \in pending'[k] : Urgency[f] >= Urgency[e]
           A == \A e \in evicted' \ evicted : Fair(e)
<1>1. ASSUME WakeIInv, [WakeNext]_wakeVars PROVE A
  <2>1. ASSUME NEW d \in Events, NEW k \in {"agent", "session"}, RequestWake(d, k) PROVE A
    <3>1. /\ pending'[k] \in KeptOf(pending[k] \cup {d})
          /\ evicted' = evicted \cup ((pending[k] \cup {d}) \ pending'[k])
      BY <1>1, <2>1, RequestIs
    <3>2. k \in Targets BY DEF Targets
    <3>3. pending[k] \cup {d} \in SUBSET Events BY <1>1, <3>2 DEF WakeIInv
    <3> QED BY <3>1, <3>2, <3>3, KeptAreUrgent
  <2>2. CASE DropsAll BY <2>2 DEF DropsAll
  <2>3. CASE HandsOver
    <3>1. PICK waiting \in [Targets -> SUBSET Events] :
            /\ \A j \in Targets : pending'[j] \in KeptOf(waiting[j])
            /\ evicted' = evicted \cup UNION {waiting[j] \ pending'[j] : j \in Targets}
      BY <2>3 DEF HandsOver
    <3>2. ASSUME NEW e \in evicted' \ evicted PROVE Fair(e)
      <4>1. PICK j \in Targets : e \in waiting[j] \ pending'[j] BY <3>1, <3>2
      <4>2. waiting[j] \in SUBSET Events BY <3>1
      <4> QED BY <3>1, <4>1, <4>2, KeptAreUrgent
    <3> QED BY <3>2
  <2>4. CASE Rests BY <2>4 DEF Rests
  <2> QED BY <1>1, <2>1, <2>2, <2>3, <2>4, FlushIs, OthersRest DEF WakeNext
<1>2. WakeIInv /\ [WakeNext]_wakeVars => [A]_wakeVars BY <1>1
<1> QED BY <1>2, WakeInvariance, PTL DEF WakeSpec, GivesWayToUrgent

-----------------------------------------------------------------------------
(* The scheduler: one run in flight, and no schedule that runs once is over
   without an answer. *)

\* What a handler may leave to do.
Statements == [do : {"save", "enqueue", "enqueueByHand", "wake", "protocol"},
               task : {0} \cup Board, row : ScheduleRow]
Enqueues(s) == s.do \in {"enqueue", "enqueueByHand"}
Starting(s) == s.do \in {"enqueue", "wake", "protocol"}

ScheduleTyped ==
  /\ ScheduleTypeOK
  /\ left \in Seq(Statements) /\ \A i \in DOMAIN left : Enqueues(left[i]) => left[i].task \in Board

\* Nobody edits the row while a handler has something left to do.
RowsAreFresh ==
  \A i \in DOMAIN left : left[i].row.signature = schedule.signature /\ left[i].row.status # "archived"

NoneInFlight == \A t \in Board : board[t].status \notin InFlight

\* Before the first edit all tasks are alike, one of them is in flight at most, and
\* none is when one will be put on the queue.
UneditedIsSerial ==
  schedule.signature = 1 =>
    /\ \A t \in Board : board[t].signature = 1
    /\ \A t, u \in Board : board[t].status \in InFlight /\ board[u].status \in InFlight => t = u
    /\ \A i \in DOMAIN left : Enqueues(left[i]) =>
         NoneInFlight /\ \A j \in DOMAIN left : Enqueues(left[j]) => i = j

\* Some answer was given, or the last thing left to do is to start the run.
Answered == answers # {} \/ (left # <<>> /\ Starting(left[Len(left)]))

\* A completed row has its answer, also one that is yet to be saved, and one that
\* was archived as completed.
CompletedIsAnswered ==
  /\ schedule.status = "completed" => Answered
  /\ \A i \in DOMAIN left : left[i].do = "save" /\ left[i].row.status = "completed" => Answered
  /\ schedule.status = "archived" /\ schedule.from = "completed" => answers # {}

ScheduleIInv == ScheduleTyped /\ RowsAreFresh /\ UneditedIsSerial /\ CompletedIsAnswered


-----------------------------------------------------------------------------
(* What is written *)

LEMMA AdvancedIs ==
  ASSUME NEW row \in ScheduleRow
  PROVE  /\ Advanced(row) \in ScheduleRow
         /\ Advanced(row).signature = row.signature
         /\ Advanced(row).from = row.from
         /\ Advanced(row).status \in {row.status, "completed"}
  BY DEF Advanced, ScheduleRow, ScheduleStatuses

LEMMA PreparedIs ==
  ASSUME ScheduleIInv, PreparedTask.id \in Board
  PROVE  /\ PreparedTask.signature \in 1 .. MaxScheduleEdits + 1
         /\ schedule.signature = 1 => PreparedTask.signature = 1
<1>1. schedule.linked # 0 => schedule.linked \in Board
  BY DEF ScheduleIInv, ScheduleTyped, ScheduleTypeOK, ScheduleRow
<1>2. /\ schedule.signature \in 1 .. MaxScheduleEdits + 1
      /\ \A t \in Board : board[t].signature \in 1 .. MaxScheduleEdits + 1
  BY DEF ScheduleIInv, ScheduleTyped, ScheduleTypeOK, ScheduleRow
<1>3. \/ PreparedTask.signature = schedule.signature
      \/ schedule.linked # 0 /\ PreparedTask.signature = board[schedule.linked].signature
  BY DEF PreparedTask
<1> QED BY <1>1, <1>2, <1>3 DEF ScheduleIInv, UneditedIsSerial

\* The board after a task was made ready.
LEMMA SaveIs ==
  ASSUME ScheduleIInv, SaveScheduled(PreparedTask)
  PROVE  /\ PreparedTask.id \in Board
         /\ board' \in [Board -> [status : {"none", "backlog", "queued", "running", "over"},
                                  signature : 1 .. MaxScheduleEdits + 1]]
         /\ \A t \in Board : board'[t].status \in InFlight => board[t].status \in InFlight
         /\ schedule.signature = 1 => \A t \in Board : board'[t].signature = 1
<1>1. PreparedTask.id \in Board BY DEF SaveScheduled
<1>2. board' = [board EXCEPT ![PreparedTask.id] =
                  [status |-> "backlog", signature |-> PreparedTask.signature]]
  BY DEF SaveScheduled
<1>3. board \in [Board -> [status : {"none", "backlog", "queued", "running", "over"},
                           signature : 1 .. MaxScheduleEdits + 1]]
  BY DEF ScheduleIInv, ScheduleTyped, ScheduleTypeOK
<1>4. schedule.signature = 1 => \A t \in Board : board[t].signature = 1
  BY DEF ScheduleIInv, UneditedIsSerial
<1> HIDE DEF ScheduleIInv
<1> QED BY <1>1, <1>2, <1>3, <1>4, PreparedIs DEF InFlight

\* Before an edit, a key that is not in flight means that no task is.
LEMMA NotInFlightIs ==
  ASSUME ScheduleIInv, ~RunInFlight(schedule.signature), schedule.signature = 1
  PROVE  NoneInFlight
  BY DEF ScheduleIInv, UneditedIsSerial, RunInFlight, NoneInFlight

-----------------------------------------------------------------------------
(* The steps *)

\* Where nothing is left to do before and after.
LEMMA RestIs ==
  ASSUME ScheduleIInv, ScheduleTypeOK', left' = <<>>,
         schedule'.signature = 1 =>
           /\ \A t \in Board : board'[t].signature = 1
           /\ \A t, u \in Board : board'[t].status \in InFlight /\ board'[u].status \in InFlight => t = u,
         schedule'.status = "completed" => answers' # {},
         schedule'.status = "archived" /\ schedule'.from = "completed" => answers' # {}
  PROVE  ScheduleIInv'
  BY DEF ScheduleIInv, ScheduleTyped, RowsAreFresh, UneditedIsSerial, CompletedIsAnswered, Answered

\* Where nothing is left to do and the board stays.
LEMMA RowStep ==
  ASSUME ScheduleIInv, left = <<>>, left' = <<>>, board' = board, UNCHANGED <<kind, mode>>,
         schedule' \in ScheduleRow, schedule'.signature = 1 => schedule.signature = 1,
         gate' \in {"open", "skip", "defer", "gone"}, session' \in BOOLEAN, answers' \subseteq Answers,
         edits' \in 0 .. MaxScheduleEdits, scheduleFaults' \in 0 .. MaxScheduleFaults,
         schedule'.status = "completed" => answers' # {},
         schedule'.status = "archived" /\ schedule'.from = "completed" => answers' # {}
  PROVE  ScheduleIInv'
<1>1. ScheduleTypeOK' BY DEF ScheduleIInv, ScheduleTyped, ScheduleTypeOK
<1> QED BY <1>1, RestIs DEF ScheduleIInv, UneditedIsSerial

\* With nothing left to do, what is completed was answered.
LEMMA AnsweredAtRest ==
  ASSUME ScheduleIInv, left = <<>>
  PROVE  /\ schedule.status = "completed" => answers # {}
         /\ schedule.status = "archived" /\ schedule.from = "completed" => answers # {}
  BY DEF ScheduleIInv, CompletedIsAnswered, Answered

\* A handler that leaves one statement behind.
LEMMA OneLeft ==
  ASSUME NEW s \in Statements, left' = <<s>>
  PROVE  /\ left' \in Seq(Statements) /\ Len(left') = 1 /\ DOMAIN left' = {1} /\ left'[1] = s
         /\ left' # <<>>
  OBVIOUS

LEMMA TwoLeft ==
  ASSUME NEW s \in Statements, NEW u \in Statements, left' = <<s, u>>
  PROVE  /\ left' \in Seq(Statements) /\ Len(left') = 2 /\ DOMAIN left' = {1, 2}
         /\ left'[1] = s /\ left'[2] = u /\ left' # <<>>
  OBVIOUS

LEMMA TickKeeps ==
  ASSUME ScheduleIInv, Tick
  PROVE  ScheduleIInv'
<1>1. /\ left = <<>> /\ schedule.status = "active" /\ schedule \in ScheduleRow /\ answers \subseteq Answers
      /\ schedule.signature = 1 => \A t \in Board : board[t].signature = 1
  BY DEF Tick, ActiveAndDue, ScheduleIInv, ScheduleTyped, ScheduleTypeOK, UneditedIsSerial
<1>2. UNCHANGED <<kind, mode, gate, session, edits, scheduleFaults>>
  BY DEF Tick
<1>3. /\ gate \in {"open", "skip", "defer", "gone"} /\ session \in BOOLEAN
      /\ edits \in 0 .. MaxScheduleEdits /\ scheduleFaults \in 0 .. MaxScheduleFaults
      /\ kind \in Kinds /\ mode \in Modes
  BY DEF ScheduleIInv, ScheduleTyped, ScheduleTypeOK
<1>4. /\ Advanced(schedule) \in ScheduleRow
      /\ Advanced(schedule).signature = schedule.signature
      /\ Advanced(schedule).status \in {"active", "completed"}
  BY <1>1, AdvancedIs
<1>5. CASE UNCHANGED <<schedule, board, left, answers>>
  BY <1>1, <1>2, <1>3, <1>5, RowStep, AnsweredAtRest
<1>6. CASE /\ schedule' = Advanced(schedule) /\ UNCHANGED <<board, left>>
           /\ answers' \in {answers \cup {"disabled"}, answers \cup {"inFlight"}}
  <2>1. answers' \subseteq Answers /\ answers' # {} BY <1>1, <1>6 DEF Answers
  <2> QED BY <1>1, <1>2, <1>3, <1>4, <1>6, <2>1, RowStep
<1>7. CASE schedule' = [schedule EXCEPT !.status = "failed"] /\ UNCHANGED <<board, left, answers>>
  <2>1. schedule' \in ScheduleRow /\ schedule'.status = "failed" /\ schedule'.signature = schedule.signature
    BY <1>1, <1>7 DEF ScheduleRow, ScheduleStatuses
  <2> QED BY <1>1, <1>2, <1>3, <1>7, <2>1, RowStep
<1>8. CASE /\ gate = "open" /\ ~RunInFlight(schedule.signature) /\ mode # "task"
           /\ schedule' = Advanced(schedule) /\ UNCHANGED <<board, answers>>
           /\ left' = <<[do |-> mode, task |-> 0, row |-> schedule']>>
  <2> DEFINE s == [do |-> mode, task |-> 0, row |-> schedule']
  <2>1. mode \in {"wake", "protocol"} BY <1>3, <1>8, ScheduleAssumption
  <2>2. s \in Statements BY <1>4, <1>8, <2>1 DEF Statements
  <2>3. s.do \in {"wake", "protocol"} /\ s.row = schedule' BY <2>1
  <2>4. left' = <<s>> BY <1>8
  <2> HIDE DEF s
  <2>5. /\ left' \in Seq(Statements) /\ Len(left') = 1 /\ DOMAIN left' = {1} /\ left'[1] = s
        /\ left' # <<>>
    BY <2>2, <2>4, OneLeft
  <2>6. ScheduleTyped'
    <3>1. schedule' \in ScheduleRow /\ Len(left') <= 2 BY <1>4, <1>8, <2>5
    <3>2. ScheduleTypeOK' BY <1>2, <1>8, <3>1 DEF ScheduleIInv, ScheduleTyped, ScheduleTypeOK
    <3> QED BY <2>3, <2>5, <3>2 DEF ScheduleTyped, Enqueues
  <2>7. RowsAreFresh' BY <1>4, <1>8, <2>3, <2>5 DEF RowsAreFresh
  <2>8. UneditedIsSerial' BY <1>4, <1>8, <2>3, <2>5 DEF ScheduleIInv, UneditedIsSerial, Enqueues
  <2>9. CompletedIsAnswered'
    <3>1. Answered' BY <2>3, <2>5 DEF Answered, Starting
    <3> QED BY <1>4, <1>8, <3>1 DEF CompletedIsAnswered
  <2> QED BY <2>6, <2>7, <2>8, <2>9 DEF ScheduleIInv
<1>9. CASE /\ ~RunInFlight(schedule.signature) /\ SaveScheduled(PreparedTask)
           /\ LET t == PreparedTask.id
                  row == [Advanced(schedule) EXCEPT !.linked = t]
              IN left' = <<[do |-> "save", task |-> t, row |-> row],
                           [do |-> "enqueue", task |-> t, row |-> row]>>
           /\ UNCHANGED <<schedule, answers>>
  <2> DEFINE t == PreparedTask.id
             row == [Advanced(schedule) EXCEPT !.linked = t]
             s == [do |-> "save", task |-> t, row |-> row]
             u == [do |-> "enqueue", task |-> t, row |-> row]
  <2>1. /\ t \in Board
        /\ board' \in [Board -> [status : {"none", "backlog", "queued", "running", "over"},
                                 signature : 1 .. MaxScheduleEdits + 1]]
        /\ \A v \in Board : board'[v].status \in InFlight => board[v].status \in InFlight
        /\ schedule.signature = 1 => \A v \in Board : board'[v].signature = 1
    BY <1>9, SaveIs
  <2>2. row \in ScheduleRow /\ row.signature = schedule.signature /\ row.status # "archived"
    BY <1>4, <2>1 DEF ScheduleRow
  <2>3. s \in Statements /\ u \in Statements BY <2>1, <2>2 DEF Statements
  <2>4. /\ s.do = "save" /\ s.row = row /\ u.do = "enqueue" /\ u.row = row
        /\ s.task \in Board /\ u.task \in Board
    BY <2>1
  <2>5. left' = <<s, u>> BY <1>9
  <2> HIDE DEF t, row, s, u
  <2>6. /\ left' \in Seq(Statements) /\ Len(left') = 2 /\ DOMAIN left' = {1, 2} /\ left'[1] = s
        /\ left'[2] = u /\ left' # <<>>
    BY <2>3, <2>5, TwoLeft
  <2>7. ScheduleTyped'
    <3>1. ScheduleTypeOK' BY <1>2, <1>9, <2>1, <2>6 DEF ScheduleIInv, ScheduleTyped, ScheduleTypeOK
    <3> QED BY <2>4, <2>6, <3>1 DEF ScheduleTyped
  <2>8. RowsAreFresh' BY <1>9, <2>2, <2>4, <2>6 DEF RowsAreFresh
  <2>9. UneditedIsSerial'
    <3>1. schedule.signature = 1 => NoneInFlight' BY <1>9, <2>1, NotInFlightIs DEF NoneInFlight
    <3>2. \A i, j \in DOMAIN left' : Enqueues(left'[i]) /\ Enqueues(left'[j]) => i = j
      BY <2>4, <2>6 DEF Enqueues
    <3> QED BY <1>9, <2>1, <3>1, <3>2 DEF UneditedIsSerial, NoneInFlight
  <2>10. CompletedIsAnswered'
    <3>1. Answered' BY <2>4, <2>6 DEF Answered, Starting
    <3> QED BY <1>1, <1>9, <3>1 DEF CompletedIsAnswered
  <2> QED BY <2>7, <2>8, <2>9, <2>10 DEF ScheduleIInv
<1> QED BY <1>1, <1>5, <1>6, <1>7, <1>8, <1>9 DEF Tick, Deferred, Skipped

LEMMA RunNowKeeps ==
  ASSUME ScheduleIInv, RunNow
  PROVE  ScheduleIInv'
<1> DEFINE t == PreparedTask.id
           row == [schedule EXCEPT !.linked = t]
           s == [do |-> "enqueueByHand", task |-> t, row |-> row]
           u == [do |-> "save", task |-> t, row |-> row]
<1>1. /\ left = <<>> /\ schedule.status # "archived" /\ ~RunInFlight(schedule.signature)
      /\ SaveScheduled(PreparedTask) /\ left' = <<s, u>>
      /\ edits < MaxScheduleEdits /\ edits' = edits + 1
      /\ UNCHANGED <<kind, mode, schedule, gate, session, answers, scheduleFaults>>
  BY DEF RunNow
<1>2. /\ t \in Board
      /\ board' \in [Board -> [status : {"none", "backlog", "queued", "running", "over"},
                               signature : 1 .. MaxScheduleEdits + 1]]
      /\ \A v \in Board : board'[v].status \in InFlight => board[v].status \in InFlight
      /\ schedule.signature = 1 => \A v \in Board : board'[v].signature = 1
  BY <1>1, SaveIs
<1>3. row \in ScheduleRow /\ row.signature = schedule.signature /\ row.status = schedule.status
  BY <1>2 DEF ScheduleIInv, ScheduleTyped, ScheduleTypeOK, ScheduleRow
<1>4. s \in Statements /\ u \in Statements BY <1>2, <1>3 DEF Statements
<1>5. /\ s.do = "enqueueByHand" /\ s.row = row /\ u.do = "save" /\ u.row = row
      /\ s.task \in Board /\ u.task \in Board
  BY <1>2
<1> HIDE DEF t, row, s, u
<1>6. /\ left' \in Seq(Statements) /\ Len(left') = 2 /\ DOMAIN left' = {1, 2} /\ left'[1] = s
      /\ left'[2] = u /\ left' # <<>>
  BY <1>1, <1>4, TwoLeft
<1>7. ScheduleTyped'
  <2>1. edits' \in 0 .. MaxScheduleEdits
    BY <1>1, ScheduleAssumption DEF ScheduleIInv, ScheduleTyped, ScheduleTypeOK
  <2>2. ScheduleTypeOK' BY <1>1, <1>2, <1>6, <2>1 DEF ScheduleIInv, ScheduleTyped, ScheduleTypeOK
  <2> QED BY <1>5, <1>6, <2>2 DEF ScheduleTyped
<1>8. RowsAreFresh' BY <1>1, <1>3, <1>5, <1>6 DEF RowsAreFresh
<1>9. UneditedIsSerial'
  <2>1. schedule.signature = 1 => NoneInFlight' BY <1>1, <1>2, NotInFlightIs DEF NoneInFlight
  <2>2. \A i, j \in DOMAIN left' : Enqueues(left'[i]) /\ Enqueues(left'[j]) => i = j
    BY <1>5, <1>6 DEF Enqueues
  <2> QED BY <1>1, <1>2, <2>1, <2>2 DEF UneditedIsSerial, NoneInFlight
<1>10. CompletedIsAnswered'
  BY <1>1, <1>3, <1>5, <1>6, AnsweredAtRest DEF CompletedIsAnswered, Answered
<1> QED BY <1>7, <1>8, <1>9, <1>10 DEF ScheduleIInv

\* What a statement does to the row, the board and the answers.
Saves(s) == s.do = "save" /\ schedule' = s.row /\ UNCHANGED <<board, answers>>
PutsOnQueue(s) ==
  /\ Enqueues(s) /\ UNCHANGED schedule
  /\ board' = [board EXCEPT ![s.task].status = "queued"]
  /\ answers' = answers \cup (IF s.do = "enqueue" THEN {"started"} ELSE {})
Launches(s) ==
  /\ s.do \in {"wake", "protocol"} /\ UNCHANGED <<schedule, board>>
  /\ answers' \subseteq Answers /\ answers \subseteq answers' /\ answers' # {}

LEMMA StatementIs ==
  ASSUME ScheduleIInv, Statement
  PROVE  /\ left # <<>> /\ left' = Tail(left) /\ session' \in BOOLEAN
         /\ Saves(Head(left)) \/ PutsOnQueue(Head(left)) \/ Launches(Head(left))
         /\ UNCHANGED <<kind, mode, gate, edits, scheduleFaults>>
<1> DEFINE s == Head(left)
<1>1. left # <<>> /\ left' = Tail(left) /\ UNCHANGED <<kind, mode, gate, edits, scheduleFaults>>
  BY DEF Statement
<1>2. session \in BOOLEAN /\ answers \subseteq Answers
  BY DEF ScheduleIInv, ScheduleTyped, ScheduleTypeOK
<1>3. CASE s.do = "save" /\ schedule' = s.row /\ UNCHANGED <<board, session, answers>>
  BY <1>1, <1>2, <1>3 DEF Saves
<1>4. CASE /\ s.do \in {"enqueue", "enqueueByHand"}
           /\ board' = [board EXCEPT ![s.task].status = "queued"]
           /\ answers' = answers \cup (IF s.do = "enqueue" THEN {"started"} ELSE {})
           /\ UNCHANGED <<schedule, session>>
  BY <1>1, <1>2, <1>4 DEF PutsOnQueue, Enqueues
<1>5. CASE /\ s.do = "wake" /\ answers' = answers \cup {"started"}
           /\ UNCHANGED <<schedule, board, session>>
  BY <1>1, <1>2, <1>5 DEF Launches, Answers
<1>6. CASE /\ s.do = "protocol" /\ session' = TRUE
           /\ answers' = answers \cup {IF session THEN "sessionActive" ELSE "started"}
           /\ UNCHANGED <<schedule, board>>
  BY <1>1, <1>2, <1>6 DEF Launches, Answers
<1>7. CASE /\ s.do = "protocol" /\ ~session /\ answers' = answers \cup {"launchThrew"}
           /\ UNCHANGED <<schedule, board, session>>
  BY <1>1, <1>2, <1>7 DEF Launches, Answers
<1> QED BY <1>3, <1>4, <1>5, <1>6, <1>7 DEF Statement

LEMMA StatementKeeps ==
  ASSUME ScheduleIInv, Statement
  PROVE  ScheduleIInv'
<1> DEFINE s == Head(left)
<1>1. /\ left # <<>> /\ left' = Tail(left) /\ session' \in BOOLEAN
      /\ Saves(s) \/ PutsOnQueue(s) \/ Launches(s)
      /\ UNCHANGED <<kind, mode, gate, edits, scheduleFaults>>
  BY StatementIs
<1>2. /\ left' \in Seq(Statements) /\ Len(left') = Len(left) - 1
      /\ 1 \in DOMAIN left /\ s = left[1] /\ s \in Statements
      /\ \A i \in DOMAIN left' : i + 1 \in DOMAIN left /\ left'[i] = left[i + 1]
      /\ Len(left) \in DOMAIN left /\ Len(left) \in Nat
      /\ left' = <<>> => Len(left) = 1
      /\ left' # <<>> => left'[Len(left')] = left[Len(left)]
  BY <1>1, TailIs DEF ScheduleIInv, ScheduleTyped
<1> HIDE DEF s
<1>3. /\ s.row \in ScheduleRow /\ s.row.signature = schedule.signature /\ s.row.status # "archived"
      /\ Enqueues(s) => s.task \in Board
  BY <1>2 DEF Statements, ScheduleIInv, RowsAreFresh, ScheduleTyped
<1>4. ScheduleTyped'
  <2>1. schedule' \in ScheduleRow
    BY <1>1, <1>3 DEF Saves, PutsOnQueue, Launches, ScheduleIInv, ScheduleTyped, ScheduleTypeOK
  <2>2. board' \in [Board -> [status : {"none", "backlog", "queued", "running", "over"},
                              signature : 1 .. MaxScheduleEdits + 1]]
    BY <1>1, <1>3 DEF Saves, PutsOnQueue, Launches, ScheduleIInv, ScheduleTyped, ScheduleTypeOK
  <2>3. answers' \subseteq Answers
    BY <1>1 DEF Saves, PutsOnQueue, Launches, ScheduleIInv, ScheduleTyped, ScheduleTypeOK, Answers
  <2>4. Len(left') <= 2 BY <1>2 DEF ScheduleIInv, ScheduleTyped, ScheduleTypeOK
  <2>5. ScheduleTypeOK'
    BY <1>1, <2>1, <2>2, <2>3, <2>4 DEF ScheduleIInv, ScheduleTyped, ScheduleTypeOK
  <2> QED BY <1>2, <2>5 DEF ScheduleIInv, ScheduleTyped
<1>5. schedule'.signature = schedule.signature
  BY <1>1, <1>3 DEF Saves, PutsOnQueue, Launches
<1>6. RowsAreFresh' BY <1>2, <1>5 DEF ScheduleIInv, RowsAreFresh
<1>7. UneditedIsSerial'
  <2> SUFFICES ASSUME schedule.signature = 1 PROVE UneditedIsSerial'
    BY <1>5 DEF UneditedIsSerial
  <2>1. /\ \A t \in Board : board[t].signature = 1
        /\ \A t, u \in Board : board[t].status \in InFlight /\ board[u].status \in InFlight => t = u
        /\ \A i \in DOMAIN left : Enqueues(left[i]) =>
             NoneInFlight /\ \A j \in DOMAIN left : Enqueues(left[j]) => i = j
    BY DEF ScheduleIInv, UneditedIsSerial
  <2>2. CASE PutsOnQueue(s)
    <3>1. NoneInFlight /\ \A j \in DOMAIN left : Enqueues(left[j]) => j = 1
      BY <1>2, <2>1, <2>2 DEF PutsOnQueue
    <3>2. \A i \in DOMAIN left' : ~Enqueues(left'[i])
      BY <1>2, <3>1
    <3>3. board \in [Board -> [status : {"none", "backlog", "queued", "running", "over"},
                               signature : 1 .. MaxScheduleEdits + 1]]
      BY DEF ScheduleIInv, ScheduleTyped, ScheduleTypeOK
    <3>4. \A t \in Board : board'[t].signature = 1 /\ (t # s.task => board'[t].status = board[t].status)
      BY <1>3, <2>1, <2>2, <3>3 DEF PutsOnQueue
    <3> QED BY <3>1, <3>2, <3>4 DEF UneditedIsSerial, NoneInFlight
  <2>3. CASE UNCHANGED board
    BY <1>2, <2>1, <2>3 DEF UneditedIsSerial, NoneInFlight
  <2> QED BY <1>1, <2>2, <2>3 DEF Saves, Launches
<1>8. CompletedIsAnswered'
  <2>1. Answered => Answered'
    <3>1. answers \subseteq answers' BY <1>1 DEF Saves, PutsOnQueue, Launches
    <3>2. CASE Starting(s)
      <4>1. answers' # {}
        BY <1>1, <3>2 DEF Saves, PutsOnQueue, Launches, Starting, Enqueues
      <4> QED BY <4>1 DEF Answered
    <3>3. CASE ~Starting(s)
      BY <1>2, <3>1, <3>3 DEF Answered
    <3> QED BY <3>2, <3>3
  <2>2. answers # {} => answers' # {} BY <1>1 DEF Saves, PutsOnQueue, Launches
  <2>3. CASE Saves(s)
    <3>1. schedule' = s.row /\ s.do = "save" BY <2>3 DEF Saves
    <3>2. s.row.status = "completed" => Answered
      BY <1>2, <3>1 DEF ScheduleIInv, CompletedIsAnswered
    <3> QED BY <1>2, <1>3, <2>1, <3>1, <3>2 DEF ScheduleIInv, CompletedIsAnswered
  <2>4. CASE UNCHANGED schedule
    BY <1>2, <2>1, <2>2, <2>4 DEF ScheduleIInv, CompletedIsAnswered
  <2> QED BY <1>1, <2>3, <2>4 DEF PutsOnQueue, Launches
<1> QED BY <1>4, <1>6, <1>7, <1>8 DEF ScheduleIInv

\* The requests of the operator.
LEMMA RouteKeeps ==
  ASSUME ScheduleIInv, Route
  PROVE  ScheduleIInv'
<1>1. /\ left = <<>> /\ left' = <<>> /\ edits < MaxScheduleEdits /\ edits' = edits + 1
      /\ UNCHANGED <<kind, mode, gate, session, scheduleFaults>>
      /\ answers' = IF schedule'.status = "active" /\ schedule.status # "active" THEN {} ELSE answers
  BY DEF Route
<1>2. /\ schedule \in ScheduleRow /\ edits \in 0 .. MaxScheduleEdits /\ answers \subseteq Answers
      /\ gate \in {"open", "skip", "defer", "gone"} /\ session \in BOOLEAN
      /\ scheduleFaults \in 0 .. MaxScheduleFaults
      /\ board \in [Board -> [status : {"none", "backlog", "queued", "running", "over"},
                              signature : 1 .. MaxScheduleEdits + 1]]
  BY DEF ScheduleIInv, ScheduleTyped, ScheduleTypeOK
<1>3. edits' \in 0 .. MaxScheduleEdits /\ edits + 2 \in 2 .. MaxScheduleEdits + 1
  BY <1>1, <1>2, ScheduleAssumption
<1>4. answers' \subseteq Answers BY <1>1, <1>2
<1>5. /\ schedule.status = "completed" => answers # {}
      /\ schedule.status = "archived" /\ schedule.from = "completed" => answers # {}
  BY <1>1, AnsweredAtRest
<1>6. Recomputed \subseteq {"none", "future", "past"} BY DEF Recomputed
<1>7. CASE Update
  <2>1. /\ schedule' \in ScheduleRow /\ schedule'.status \in {schedule.status, "paused", "active"}
        /\ schedule'.status # "archived" /\ (schedule'.signature = 1 => schedule.signature = 1)
        /\ board' = board
    <3>1. PICK next \in {"none", "future", "past"} :
            \/ schedule' = [schedule EXCEPT !.status = "paused", !.next = IF @ = "none" THEN next ELSE @]
            \/ schedule' = [schedule EXCEPT !.status = "active", !.next = next]
            \/ schedule' = [schedule EXCEPT !.signature = edits + 2, !.next = next]
            \/ schedule' = [schedule EXCEPT !.signature = edits + 2, !.next = IF @ = "none" THEN next ELSE @]
      BY <1>6, <1>7 DEF Update
    <3>2. schedule.status # "archived" /\ board' = board BY <1>7 DEF Update
    <3>3. \E v \in {"none", "future", "past"} :
            \/ schedule' = [schedule EXCEPT !.status = "paused", !.next = v]
            \/ schedule' = [schedule EXCEPT !.status = "active", !.next = v]
            \/ schedule' = [schedule EXCEPT !.signature = edits + 2, !.next = v]
      BY <1>2, <3>1 DEF ScheduleRow
    <3>4. PICK v \in {"none", "future", "past"} :
            \/ schedule' = [schedule EXCEPT !.status = "paused", !.next = v]
            \/ schedule' = [schedule EXCEPT !.status = "active", !.next = v]
            \/ schedule' = [schedule EXCEPT !.signature = edits + 2, !.next = v]
      BY <3>3
    <3>5. CASE schedule' = [schedule EXCEPT !.status = "paused", !.next = v]
      BY <1>2, <3>2, <3>5 DEF ScheduleRow, ScheduleStatuses
    <3>6. CASE schedule' = [schedule EXCEPT !.status = "active", !.next = v]
      BY <1>2, <3>2, <3>6 DEF ScheduleRow, ScheduleStatuses
    <3>7. CASE schedule' = [schedule EXCEPT !.signature = edits + 2, !.next = v]
      <4>1. edits + 2 \in 1 .. MaxScheduleEdits + 1 /\ edits + 2 # 1 BY <1>2, <1>3
      <4> DEFINE n == edits + 2
      <4>2. n \in 1 .. MaxScheduleEdits + 1 /\ n # 1 /\ schedule' = [schedule EXCEPT !.signature = n, !.next = v]
        BY <3>7, <4>1
      <4> HIDE DEF n
      <4> QED BY <1>2, <3>2, <4>2 DEF ScheduleRow
    <3> QED BY <3>4, <3>5, <3>6, <3>7
  <2> QED BY <1>1, <1>2, <1>3, <1>4, <1>5, <2>1, RowStep
<1>8. CASE Archive
  <2>1. /\ schedule' \in ScheduleRow /\ schedule'.status = "archived"
        /\ schedule'.signature = schedule.signature
        /\ schedule'.from = IF schedule.status = "archived" THEN schedule.from ELSE schedule.status
    BY <1>2, <1>8 DEF Archive, ScheduleRow, ScheduleStatuses
  <2>2. board' = [t \in Board |-> IF t \in Unused THEN board[t] ELSE [board[t] EXCEPT !.status = "over"]]
    BY <1>8 DEF Archive
  <2>3. /\ board' \in [Board -> [status : {"none", "backlog", "queued", "running", "over"},
                                 signature : 1 .. MaxScheduleEdits + 1]]
        /\ \A t \in Board : board'[t].signature = board[t].signature /\ board'[t].status \notin InFlight
    BY <1>2, <2>2 DEF Unused, InFlight
  <2>4. ScheduleTypeOK'
    BY <1>1, <1>2, <1>3, <1>4, <2>1, <2>3 DEF ScheduleIInv, ScheduleTyped, ScheduleTypeOK
  <2>5. schedule.signature = 1 => \A t \in Board : board[t].signature = 1
    BY DEF ScheduleIInv, UneditedIsSerial
  <2> QED BY <1>1, <1>5, <2>1, <2>3, <2>4, <2>5, RestIs
<1>9. CASE Restore
  <2>1. /\ schedule' \in ScheduleRow /\ schedule'.status = schedule.from
        /\ schedule'.signature = schedule.signature /\ schedule'.from = schedule.from
        /\ schedule.status = "archived" /\ board' = board
    BY <1>2, <1>6, <1>9 DEF Restore, ScheduleRow, ScheduleStatuses
  <2> QED BY <1>1, <1>2, <1>3, <1>4, <1>5, <2>1, RowStep
<1> QED BY <1>7, <1>8, <1>9 DEF Route

LEMMA TaskMovesKeeps ==
  ASSUME ScheduleIInv, NEW t \in Board, TaskMoves(t)
  PROVE  ScheduleIInv'
<1>1. /\ left = <<>> /\ left' = <<>>
      /\ UNCHANGED <<kind, mode, schedule, gate, session, answers, edits, scheduleFaults>>
  BY DEF TaskMoves
<1>2. board \in [Board -> [status : {"none", "backlog", "queued", "running", "over"},
                           signature : 1 .. MaxScheduleEdits + 1]]
  BY DEF ScheduleIInv, ScheduleTyped, ScheduleTypeOK
<1>3. /\ board' \in [Board -> [status : {"none", "backlog", "queued", "running", "over"},
                               signature : 1 .. MaxScheduleEdits + 1]]
      /\ \A u \in Board : /\ board'[u].signature = board[u].signature
                          /\ board'[u].status \in InFlight => board[u].status \in InFlight
  BY <1>2 DEF TaskMoves, InFlight
<1>4. ScheduleTypeOK' BY <1>1, <1>3 DEF ScheduleIInv, ScheduleTyped, ScheduleTypeOK
<1> QED BY <1>1, <1>3, <1>4, RestIs, AnsweredAtRest DEF ScheduleIInv, UneditedIsSerial

LEMMA ScheduleStep == ScheduleIInv /\ [ScheduleNext]_scheduleVars => ScheduleIInv'
<1> SUFFICES ASSUME ScheduleIInv, [ScheduleNext]_scheduleVars PROVE ScheduleIInv'
  OBVIOUS
<1>1. /\ schedule \in ScheduleRow /\ edits \in 0 .. MaxScheduleEdits /\ answers \subseteq Answers
      /\ gate \in {"open", "skip", "defer", "gone"} /\ session \in BOOLEAN
      /\ scheduleFaults \in 0 .. MaxScheduleFaults
  BY DEF ScheduleIInv, ScheduleTyped, ScheduleTypeOK
<1>2. CASE SlotComes
  <2>1. schedule' \in ScheduleRow /\ \A f \in {"status", "from", "signature"} : schedule'[f] = schedule[f]
    BY <1>1, <1>2 DEF SlotComes, ScheduleRow
  <2>2. /\ schedule'.status = schedule.status /\ schedule'.from = schedule.from
        /\ schedule'.signature = schedule.signature
    BY <2>1
  <2> QED BY <1>1, <1>2, <2>1, <2>2, RowStep, AnsweredAtRest DEF SlotComes
<1>3. CASE SessionEnds BY <1>1, <1>3, RowStep, AnsweredAtRest DEF SessionEnds
<1>4. CASE GateChanges BY <1>1, <1>4, RowStep, AnsweredAtRest DEF GateChanges
<1>5. CASE SchedulerDies
  <2>1. /\ left' = <<>> /\ answers' \subseteq Answers /\ answers' # {}
        /\ scheduleFaults' \in 0 .. MaxScheduleFaults
        /\ UNCHANGED <<kind, mode, schedule, board, gate, session, edits>>
    BY <1>1, <1>5, ScheduleAssumption DEF SchedulerDies, Answers
  <2>2. ScheduleTypeOK' BY <2>1 DEF ScheduleIInv, ScheduleTyped, ScheduleTypeOK
  <2> QED BY <2>1, <2>2, RestIs DEF ScheduleIInv, UneditedIsSerial
<1>6. CASE UNCHANGED scheduleVars
  BY <1>6 DEF scheduleVars, ScheduleIInv, ScheduleTyped, ScheduleTypeOK, RowsAreFresh, Unused,
              UneditedIsSerial, NoneInFlight, CompletedIsAnswered, Answered
<1> QED BY <1>2, <1>3, <1>4, <1>5, <1>6, TickKeeps, RunNowKeeps, StatementKeeps, RouteKeeps,
           TaskMovesKeeps DEF ScheduleNext

LEMMA ScheduleStarts == ScheduleInit => ScheduleIInv
<1> SUFFICES ASSUME ScheduleInit PROVE ScheduleIInv
  OBVIOUS
<1>1. left = <<>> /\ DOMAIN left = {} /\ Len(left) = 0 /\ left \in Seq(Statements)
  BY DEF ScheduleInit
<1>2. ScheduleTypeOK
  <2>1. 1 \in 1 .. MaxScheduleEdits + 1 /\ 0 \in 0 .. MaxScheduleEdits /\ 0 \in 0 .. MaxScheduleFaults
    BY ScheduleAssumption
  <2>2. schedule \in ScheduleRow BY <2>1 DEF ScheduleInit, ScheduleRow, ScheduleStatuses
  <2>3. board \in [Board -> [status : {"none", "backlog", "queued", "running", "over"},
                            signature : 1 .. MaxScheduleEdits + 1]]
    BY <2>1 DEF ScheduleInit
  <2>4. Len(left) <= 2 BY <1>1
  <2>5. /\ gate \in {"open", "skip", "defer", "gone"} /\ session \in BOOLEAN /\ answers \subseteq Answers
        /\ kind \in Kinds /\ mode \in Modes /\ edits = 0 /\ scheduleFaults = 0
    BY Zenon DEF ScheduleInit
  <2> QED BY <2>1, <2>2, <2>3, <2>4, <2>5 DEF ScheduleTypeOK
<1>3. UneditedIsSerial BY <1>1 DEF ScheduleInit, UneditedIsSerial, InFlight
<1>4. CompletedIsAnswered BY <1>1 DEF ScheduleInit, CompletedIsAnswered
<1> QED BY <1>1, <1>2, <1>3, <1>4 DEF ScheduleIInv, ScheduleTyped, RowsAreFresh

\* The scheduler's inductive invariant.
THEOREM ScheduleInvariance == ScheduleSpec => []ScheduleIInv
  BY ScheduleStarts, ScheduleStep, PTL DEF ScheduleSpec

\* For any number of tasks, requests and crashes: until it is edited a schedule has
\* one run in flight at most (the look at inFlightScheduleKeys in tick and
\* runScheduleNow), through crashes between the task, the row and the queue.
THEOREM ScheduleRunsOnce == ScheduleSpec => []OneRunInFlight
<1>1. ASSUME ScheduleIInv PROVE OneRunInFlight
  <2> DEFINE F == {t \in Board : board[t].status \in InFlight}
  <2> SUFFICES ASSUME ~(schedule.signature > 1) PROVE ~(Cardinality(F) > 1)
    BY DEF OneRunInFlight
  <2>1. schedule.signature = 1
    BY <1>1, ScheduleAssumption DEF ScheduleIInv, ScheduleTyped, ScheduleTypeOK, ScheduleRow
  <2>2. \A t, u \in F : t = u BY <1>1, <2>1 DEF ScheduleIInv, UneditedIsSerial
  <2> HIDE DEF F
  <2>3. CASE F = {} BY <2>3, FS_EmptySet
  <2>4. CASE F # {}
    <3>1. PICK t \in F : F = {t} BY <2>2, <2>4
    <3>2. Cardinality({t}) = 1 BY FS_Singleton
    <3> QED BY <3>1, <3>2
  <2> QED BY <2>3, <2>4
<1> QED BY <1>1, ScheduleInvariance, PTL

\* A schedule that runs once is over only when its slot was answered: advanceSchedule
\* ends it together with a run, a launch that threw, a skip that the code may make,
\* or a crash.
THEOREM OnceIsAnswered == ScheduleSpec => []OnceIsNotLost
<1>1. ASSUME ScheduleIInv PROVE OnceIsNotLost
  BY <1>1 DEF ScheduleIInv, CompletedIsAnswered, Answered, OnceIsNotLost
<1> QED BY <1>1, ScheduleInvariance, PTL

-----------------------------------------------------------------------------
(* Questions to the human: what the buttons of a card need, and that an answer
   resumes the agent once. *)

ScriptSteps == [what : {"card", "namesake", "request", "requestOfType", "answered", "superseded",
                        "cancel", "reply", "ack", "turn"},
                q : Questions]

\* Step i of s is for a question, and that is settled before.
ClosedBefore(s, i) ==
  s[i].q \in settled \/ \E h \in DOMAIN s : h < i /\ s[h].what \in Closed /\ s[h].q = s[i].q

\* A card is shown first, once, and its request follows; a wait is stopped after
\* its question is settled, and that before its reply and its request are; only
\* answers of cards start turns.
ScriptFits(s) ==
  \A i \in DOMAIN s :
    /\ s[i].what \in Shown =>
         /\ i = 1 /\ s[i].q \in Cards /\ card[s[i].q] = "none"
         /\ \E j \in DOMAIN s, w \in Requests : j > i /\ s[j] = [what |-> w, q |-> s[i].q]
    /\ s[i].what \in Closed => \E j \in DOMAIN s : j > i /\ s[j] = [what |-> "cancel", q |-> s[i].q]
    /\ s[i].what \in {"reply", "ack"} /\ s[i].q \in Cards => ClosedBefore(s, i)
    /\ s[i].what = "turn" => s[i].q \in Cards

Ahead(what, q) == \E i \in DOMAIN script : script[i] = [what |-> what, q |-> q]

\* A question that was shown and is not settled has its request, or will have it.
ShownIsOpen ==
  \A q \in Questions :
    card[q] # "none" => \/ q \in settled \cup OpenRequests \cup orphaned
                        \/ \E w \in Requests : Ahead(w, q)

\* The card of a settled question has been shown, is pending only if a turn wrote it
\* back or another was closed in its place, and is not shown for the first time by
\* what a turn holds.
CardsOfSettled ==
  /\ \A q \in Questions \cap Cards : q \in settled => card[q] # "none"
  /\ \A q \in Questions : q \in settled /\ card[q] = "pending" => q \in reopened \cup namesakes
  /\ \A q \in namesakes : card[q] # "none"
  /\ logCopy # NoCopy => \A q \in Questions : logCopy[q] # "none" => card[q] # "none"

\* A wait is not made after its question was settled, and stopped before it is told.
WaitsAreStopped ==
  /\ told \cap Cards \subseteq settled
  /\ \A q \in Cards \ lateWait : q \in settled /\ wait[q] = "active" => Ahead("cancel", q)
  /\ woken \cap Cards \subseteq lateWait /\ turns \subseteq Cards

\* What is known of the variables that are no script.
QuestionsTyped ==
  /\ card \in Logs /\ \A q \in Questions \ Cards : card[q] = "none"
  /\ (logCopy = NoCopy \/ (logCopy \in Logs /\ \A q \in Questions \ Cards : logCopy[q] = "none"))
  /\ box \in Boxes /\ (turnCopy = NoCopy \/ turnCopy \in Boxes)
  /\ wait \in [Questions -> {"none", "active", "cancelled", "triggered"}]
  /\ UNION {told, turns, woken, settled, reopened, namesakes, orphaned, lateWait} \subseteq Questions
  /\ slips \in 0 .. MaxSlips

Fits(s) == s \in Seq(ScriptSteps) /\ Len(s) <= 3 * Cardinality(Questions) + 2 /\ ScriptFits(s)

QuestionsIInv ==
  QuestionsTyped /\ Fits(script) /\ ShownIsOpen /\ CardsOfSettled /\ WaitsAreStopped

-----------------------------------------------------------------------------
(* The scripts *)

LEMMA SomeQuestion ==
  ASSUME NEW q \in Questions
  PROVE  Cardinality(Questions) \in Nat /\ Cardinality(Questions) >= 1
<1>1. IsFiniteSet(Questions) BY QuestionAssumption
<1>2. Cardinality(Questions) \in Nat /\ (Cardinality(Questions) = 0 <=> Questions = {})
  BY <1>1, FS_CardinalityType, FS_EmptySet
<1> QED BY <1>2

LEMMA EmptyFits ==
  ASSUME script' = <<>>
  PROVE  Fits(script)'
<1>1. IsFiniteSet(Questions) BY QuestionAssumption
<1>2. Cardinality(Questions) \in Nat BY <1>1, FS_CardinalityType
<1>3. DOMAIN script' = {} /\ Len(script') = 0 /\ script' \in Seq(ScriptSteps) OBVIOUS
<1> QED BY <1>2, <1>3 DEF Fits, ScriptFits

LEMMA StartFits ==
  ASSUME script = <<>>
  PROVE  Fits(script)
<1>1. IsFiniteSet(Questions) BY QuestionAssumption
<1>2. Cardinality(Questions) \in Nat BY <1>1, FS_CardinalityType
<1>3. DOMAIN script = {} /\ Len(script) = 0 /\ script \in Seq(ScriptSteps) OBVIOUS
<1> QED BY <1>2, <1>3 DEF Fits, ScriptFits

LEMMA AskFits ==
  ASSUME NEW q \in Questions, Ask(q)
  PROVE  Fits(script')
<1>1. Cardinality(Questions) \in Nat /\ Cardinality(Questions) >= 1 BY SomeQuestion
<1>2. PICK v \in Shown, w \in Requests :
        script' = IF q \in Cards THEN <<Do(v, q), Do(w, q)>> ELSE <<Do(w, q)>>
  BY DEF Ask
<1> DEFINE a == [what |-> v, q |-> q]
           b == [what |-> w, q |-> q]
<1>3. a \in ScriptSteps /\ b \in ScriptSteps BY <1>2 DEF ScriptSteps, Shown, Requests
<1>4. /\ card[q] = "none" /\ w \notin Shown \cup {"reply", "ack", "turn"} \cup Closed
      /\ v \in Shown /\ v \notin {"reply", "ack", "turn"} \cup Closed
  BY <1>2 DEF Ask, Shown, Requests, Closed
<1>5. a.what = v /\ a.q = q /\ b.what = w OBVIOUS
<1>6. b = [what |-> w, q |-> a.q] OBVIOUS
<1>7. CASE q \in Cards
  <2>1. script' = <<a, b>> BY <1>2, <1>7 DEF Do
  <2> HIDE DEF a, b
  <2>2. /\ script' \in Seq(ScriptSteps) /\ Len(script') = 2 /\ DOMAIN script' = {1, 2}
        /\ script'[1] = a /\ script'[2] = b
    BY <1>3, <2>1
  <2>3. \E j \in DOMAIN script', u \in Requests : j > 1 /\ script'[j] = [what |-> u, q |-> a.q]
    BY <1>2, <1>6, <2>2
  <2>4. ScriptFits(script') BY <1>4, <1>5, <1>7, <2>2, <2>3 DEF ScriptFits
  <2> QED BY <1>1, <2>2, <2>4 DEF Fits
<1>8. CASE q \notin Cards
  <2>1. script' = <<b>> BY <1>2, <1>8 DEF Do
  <2> HIDE DEF a, b
  <2>2. /\ script' \in Seq(ScriptSteps) /\ Len(script') = 1 /\ DOMAIN script' = {1} /\ script'[1] = b
    BY <1>3, <2>1
  <2>3. ScriptFits(script') BY <1>4, <1>5, <2>2 DEF ScriptFits
  <2> QED BY <1>1, <2>2, <2>3 DEF Fits
<1> QED BY <1>7, <1>8

LEMMA AnswerFits ==
  ASSUME NEW q \in Questions \cap Cards
  PROVE  Fits(AnswerScript(q))
<1>1. Cardinality(Questions) \in Nat /\ Cardinality(Questions) >= 1 BY SomeQuestion
<1> DEFINE a == [what |-> "answered", q |-> q]
           b == [what |-> "cancel", q |-> q]
           c == [what |-> "reply", q |-> q]
           d == [what |-> "ack", q |-> q]
           e == [what |-> "turn", q |-> q]
           s == AnswerScript(q)
<1>2. {a, b, c, d, e} \subseteq ScriptSteps BY DEF ScriptSteps
<1>3. s = <<a, b, c, d, e>> BY DEF AnswerScript, Do
<1>4. /\ a.what = "answered" /\ b.what = "cancel" /\ c.what = "reply" /\ d.what = "ack" /\ e.what = "turn"
      /\ a.q = q /\ c.q = q /\ d.q = q /\ e.q = q
  OBVIOUS
<1>5. b = [what |-> "cancel", q |-> a.q] OBVIOUS
<1> HIDE DEF a, b, c, d, e, s
<1>7. /\ s \in Seq(ScriptSteps) /\ Len(s) = 5 /\ DOMAIN s = {1, 2, 3, 4, 5}
      /\ s[1] = a /\ s[2] = b /\ s[3] = c /\ s[4] = d /\ s[5] = e
  BY <1>2, <1>3
<1>8. ScriptFits(s)
  <2>1. ClosedBefore(s, 3) /\ ClosedBefore(s, 4) BY <1>4, <1>7 DEF ClosedBefore, Closed
  <2>2. \E j \in DOMAIN s : j > 1 /\ s[j] = [what |-> "cancel", q |-> s[1].q] BY <1>5, <1>7
  <2> QED BY <1>4, <1>7, <2>1, <2>2 DEF ScriptFits, Closed, Shown
<1>9. Len(s) <= 3 * Cardinality(Questions) + 2 BY <1>1, <1>7
<1> QED BY <1>7, <1>8, <1>9 DEF Fits, s

LEMMA SupersedeFits ==
  ASSUME NEW S \in SUBSET Questions, NEW t \in NewestFirst(S)
  PROVE  Fits(SupersedeScript(t))
<1> DEFINE n == Cardinality(S)
           s == SupersedeScript(t)
<1>1. IsFiniteSet(Questions) /\ IsFiniteSet(S) BY QuestionAssumption, FS_Subset
<1>2. n \in Nat /\ Cardinality(Questions) \in Nat /\ n <= Cardinality(Questions)
  BY <1>1, FS_CardinalityType, FS_Subset
<1>3. t \in [1 .. n -> S] BY DEF NewestFirst
<1>4. t \in Seq(S) /\ Len(t) = n BY <1>2, <1>3
<1>5. s = [i \in 1 .. 3 * n |->
             IF i > 2 * n THEN [what |-> "cancel", q |-> t[i - 2 * n]]
             ELSE [what |-> IF i % 2 = 1 THEN "superseded" ELSE "ack", q |-> t[(i + 1) \div 2]]]
  BY <1>4 DEF SupersedeScript, Do
<1> HIDE DEF n, s
<1>6. \A i \in 1 .. 3 * n :
        IF i > 2 * n THEN i - 2 * n \in 1 .. n /\ s[i] = [what |-> "cancel", q |-> t[i - 2 * n]]
        ELSE /\ (i + 1) \div 2 \in 1 .. n /\ s[i].q = t[(i + 1) \div 2]
             /\ s[i].what = IF i % 2 = 1 THEN "superseded" ELSE "ack"
             /\ s[i] \in ScriptSteps
  <2> TAKE i \in 1 .. 3 * n
  <2>1. CASE i > 2 * n
    <3>1. i - 2 * n \in 1 .. n BY <1>2, <2>1
    <3>2. s[i] = [what |-> "cancel", q |-> t[i - 2 * n]] BY <1>5, <2>1
    <3> QED BY <2>1, <3>1, <3>2
  <2>2. CASE ~(i > 2 * n)
    <3> DEFINE k == (i + 1) \div 2
               w == IF i % 2 = 1 THEN "superseded" ELSE "ack"
    <3>1. k \in 1 .. n BY <1>2, <2>2
    <3>2. s[i] = [what |-> w, q |-> t[k]] BY <1>5, <2>2
    <3>3. w \in {"superseded", "ack"} OBVIOUS
    <3>4. t[k] \in Questions BY <1>3, <3>1
    <3> HIDE DEF k, w
    <3>5. s[i].what = w /\ s[i].q = t[k] /\ s[i] \in ScriptSteps BY <3>2, <3>3, <3>4 DEF ScriptSteps
    <3> QED BY <2>2, <3>1, <3>5 DEF k, w
  <2> QED BY <2>1, <2>2
<1>7. \A i \in 1 .. 3 * n : s[i] \in ScriptSteps
  <2> TAKE i \in 1 .. 3 * n
  <2>1. \A k \in 1 .. n : t[k] \in Questions BY <1>3
  <2>2. CASE i > 2 * n
    <3>1. t[i - 2 * n] \in Questions /\ s[i] = [what |-> "cancel", q |-> t[i - 2 * n]] BY <1>6, <2>1, <2>2
    <3> QED BY <3>1 DEF ScriptSteps
  <2> QED BY <1>6, <2>2
<1>8. 3 * n \in Nat /\ s \in [1 .. 3 * n -> ScriptSteps]
  <2>1. s = [i \in 1 .. 3 * n |-> s[i]] BY <1>5
  <2> QED BY <1>2, <1>7, <2>1
<1>9. s \in Seq(ScriptSteps) /\ Len(s) = 3 * n /\ DOMAIN s = 1 .. 3 * n
  BY <1>8
<1>10. ScriptFits(s)
  <2> SUFFICES ASSUME NEW i \in 1 .. 3 * n
               PROVE  /\ s[i].what \notin Shown \cup {"reply", "turn"}
                      /\ s[i].what \in Closed =>
                           \E j \in 1 .. 3 * n : j > i /\ s[j] = [what |-> "cancel", q |-> s[i].q]
                      /\ s[i].what = "ack" => ClosedBefore(s, i)
    BY <1>9 DEF ScriptFits, Closed
  <2>1. CASE i > 2 * n
    <3>1. s[i].what = "cancel"
      <4>1. s[i] = [what |-> "cancel", q |-> t[i - 2 * n]] BY <1>6, <2>1
      <4> QED BY <4>1
    <3> QED BY <3>1 DEF Closed, Shown
  <2>2. CASE ~(i > 2 * n)
    <3> DEFINE k == (i + 1) \div 2
    <3>1. /\ k \in 1 .. n /\ s[i].q = t[k] /\ s[i].what = IF i % 2 = 1 THEN "superseded" ELSE "ack"
      BY <1>6, <2>2
    <3>2. s[i].what \notin Shown \cup {"reply", "turn"} BY <3>1 DEF Shown
    <3>3. \E j \in 1 .. 3 * n : j > i /\ s[j] = [what |-> "cancel", q |-> t[k]]
      <4> DEFINE j == 2 * n + k
      <4>1. j \in 1 .. 3 * n /\ j > i /\ j > 2 * n /\ j - 2 * n = k BY <1>2, <2>2, <3>1
      <4>2. s[j] = [what |-> "cancel", q |-> t[k]] BY <1>6, <4>1
      <4> QED BY <4>1, <4>2
    <3>4. ASSUME s[i].what = "ack" PROVE ClosedBefore(s, i)
      <4> DEFINE h == i - 1
      <4>1. i % 2 # 1 BY <3>1, <3>4
      <4>2. h \in 1 .. 3 * n /\ h < i /\ ~(h > 2 * n) /\ h % 2 = 1 /\ (h + 1) \div 2 = k
        BY <1>2, <2>2, <4>1
      <4>3. s[h].what = "superseded" /\ s[h].q = t[k] BY <1>6, <4>2
      <4> QED BY <1>9, <3>1, <4>2, <4>3 DEF ClosedBefore, Closed
    <3> QED BY <3>1, <3>2, <3>3, <3>4
  <2> QED BY <2>1, <2>2
<1>11. Len(s) <= 3 * Cardinality(Questions) + 2 BY <1>2, <1>9
<1> QED BY <1>9, <1>10, <1>11 DEF Fits, s

LEMMA BridgeFits ==
  ASSUME Bridge
  PROVE  Fits(script')
<1>1. PICK q \in Bridgeable : script' = <<Do("reply", q), Do("ack", q)>> BY DEF Bridge
<1>2. q \in Questions /\ q \notin Cards BY DEF Bridgeable, OpenRequests
<1>3. Cardinality(Questions) \in Nat /\ Cardinality(Questions) >= 1 BY <1>2, SomeQuestion
<1> DEFINE a == [what |-> "reply", q |-> q]
           b == [what |-> "ack", q |-> q]
<1>4. a \in ScriptSteps /\ b \in ScriptSteps BY <1>2 DEF ScriptSteps
<1>5. script' = <<a, b>> BY <1>1 DEF Do
<1>6. a.what = "reply" /\ b.what = "ack" /\ a.q = q /\ b.q = q OBVIOUS
<1> HIDE DEF a, b
<1>7. /\ script' \in Seq(ScriptSteps) /\ Len(script') = 2 /\ DOMAIN script' = {1, 2}
      /\ script'[1] = a /\ script'[2] = b
  BY <1>4, <1>5
<1>8. ScriptFits(script') BY <1>2, <1>6, <1>7 DEF ScriptFits, Closed, Shown
<1> QED BY <1>3, <1>7, <1>8 DEF Fits

-----------------------------------------------------------------------------
(* The steps *)

\* A handler only leaves a script.
LEMMA HandleKeeps ==
  ASSUME QuestionsIInv, Handle
  PROVE  QuestionsIInv'
<1>1. /\ script = <<>>
      /\ UNCHANGED <<card, box, turnCopy, logCopy, wait, told, turns, woken, settled, reopened, namesakes,
                     orphaned, lateWait, slips>>
  BY DEF Handle, histories
<1>2. QuestionsTyped /\ Fits(script) /\ ShownIsOpen /\ CardsOfSettled /\ WaitsAreStopped
  BY DEF QuestionsIInv
<1>3. \A what, q : ~Ahead(what, q) BY <1>1 DEF Ahead
<1>4. Fits(script')
  <2>1. ASSUME NEW q \in Questions, Answer(q) PROVE Fits(script')
    <3>1. q \in Cards /\ script' = AnswerScript(q) BY <2>1 DEF Answer
    <3> QED BY <3>1, AnswerFits
  <2>2. CASE Supersede
    <3>1. OpenRequests \in SUBSET Questions BY DEF OpenRequests
    <3>2. PICK s \in NewestFirst(OpenRequests) : script' = SupersedeScript(s) BY <2>2 DEF Supersede
    <3> QED BY <3>1, <3>2, SupersedeFits
  <2> QED BY <2>1, <2>2, AskFits, BridgeFits DEF Handle
<1>5. ShownIsOpen'
  BY <1>1, <1>2, <1>3 DEF ShownIsOpen, OpenRequests
<1>6. WaitsAreStopped' /\ CardsOfSettled'
  BY <1>1, <1>2, <1>3 DEF WaitsAreStopped, CardsOfSettled
<1>7. QuestionsTyped' BY <1>1, <1>2 DEF QuestionsTyped
<1>8. Fits(script)'
  BY <1>1, <1>4 DEF Fits, ScriptFits, ClosedBefore
<1> QED BY <1>5, <1>6, <1>7, <1>8 DEF QuestionsIInv

\* What a statement of a handler does.
LEMMA CarryIs ==
  ASSUME QuestionsIInv, Carry
  PROVE  LET q == script[1].q
             what == script[1].what
         IN /\ q \in Questions /\ QuestionsTyped'
            /\ \A p \in Questions : card[p] # "none" => card'[p] # "none"
            /\ what \in Closed /\ q \in Cards \ namesakes => card'[q] \in Closed \cup {"lost"}
            /\ what \in Closed /\ q \in Cards => card'[q] # "none"
            /\ \A p \in Questions : card'[p] # "none" /\ card[p] = "none" =>
                 p = q /\ what \in Closed \cup Shown
            /\ \A p \in Questions : card'[p] = "pending" => card[p] = "pending" \/ (p = q /\ what \in Shown)
            /\ what \in Shown => card[q] = "none" /\ q \in Cards
            /\ settled' = IF what \in Closed THEN settled \cup {q} ELSE settled
            /\ namesakes' = IF what = "namesake" THEN namesakes \cup {q} ELSE namesakes
            /\ \A p \in OpenRequests : p \in OpenRequests' \/ (p = q /\ what \in {"ack", "requestOfType"})
            /\ what \in Shown => card'[q] = "pending"
            /\ what = "request" => q \in OpenRequests'
            /\ what = "requestOfType" => q \in orphaned'
            /\ orphaned \subseteq orphaned'
            /\ \A p \in Questions : wait'[p] = "active" => wait[p] = "active" /\ ~(p = q /\ what = "cancel")
            /\ told' \subseteq told \cup (IF what = "reply" THEN {q} ELSE {})
            /\ turns' \subseteq turns \cup (IF what = "turn" THEN {q} ELSE {})
            /\ UNCHANGED <<turnCopy, logCopy, woken, reopened, lateWait, slips>>
<1> DEFINE q == script[1].q
           what == script[1].what
<1>1. script \in Seq(ScriptSteps) /\ script # <<>> BY DEF QuestionsIInv, Fits, Carry
<1>2. Head(script) = script[1] /\ script[1] \in ScriptSteps /\ 1 \in DOMAIN script BY <1>1, TailIs
<1>3. q \in Questions BY <1>2 DEF ScriptSteps
<1>4. /\ card' = [card EXCEPT ![q] =
             IF what \in Shown THEN "pending"
             ELSE IF what \in Closed /\ q \in Cards \ namesakes /\ @ # "lost" THEN what ELSE @]
      /\ box' = [box EXCEPT ![q] =
             CASE what = "request" -> [@ EXCEPT !.request = "new"]
               [] what = "requestOfType" -> [@ EXCEPT !.request = "otherType"]
               [] what = "reply" -> [@ EXCEPT !.reply = TRUE]
               [] what = "ack" -> [@ EXCEPT !.request = IF @ = "new" THEN "ack" ELSE @]
               [] OTHER -> @]
      /\ wait' = [wait EXCEPT ![q] = IF what = "cancel" /\ @ = "active" THEN "cancelled" ELSE @]
      /\ told' = IF what = "reply" THEN told \cup {q} ELSE told
      /\ turns' \in IF what = "turn" THEN {turns, turns \cup {q}} ELSE {turns}
      /\ settled' = IF what \in Closed THEN settled \cup {q} ELSE settled
      /\ namesakes' = IF what = "namesake" THEN namesakes \cup {q} ELSE namesakes
      /\ orphaned' = IF what = "requestOfType" THEN orphaned \cup {q} ELSE orphaned
      /\ UNCHANGED <<turnCopy, logCopy, woken, reopened, lateWait, slips>>
  BY <1>2 DEF Carry
<1>5. /\ what \in Shown => q \in Cards /\ card[q] = "none"
      /\ what = "turn" => q \in Cards
  BY <1>2 DEF QuestionsIInv, Fits, ScriptFits
<1>6. /\ card \in [Questions -> {"none", "pending", "lost"} \cup Closed]
      /\ \A p \in Questions \ Cards : card[p] = "none"
      /\ (logCopy = NoCopy \/ (logCopy \in Logs /\ \A p \in Questions \ Cards : logCopy[p] = "none"))
      /\ box \in Boxes /\ (turnCopy = NoCopy \/ turnCopy \in Boxes)
      /\ wait \in [Questions -> {"none", "active", "cancelled", "triggered"}]
      /\ UNION {told, turns, woken, settled, reopened, namesakes, orphaned, lateWait} \subseteq Questions
      /\ slips \in 0 .. MaxSlips
  BY DEF QuestionsIInv, QuestionsTyped, Logs
<1> HIDE DEF q, what
<1>7. /\ card' \in [Questions -> {"none", "pending", "lost"} \cup Closed]
      /\ \A p \in Questions : card'[p] =
           IF p = q /\ what \in Shown THEN "pending"
           ELSE IF p = q /\ what \in Closed /\ q \in Cards \ namesakes /\ card[q] # "lost" THEN what
           ELSE card[p]
  BY <1>3, <1>4, <1>6 DEF Closed
<1>8. /\ wait' \in [Questions -> {"none", "active", "cancelled", "triggered"}]
      /\ \A p \in Questions : wait'[p] = "active" => wait[p] = "active" /\ ~(p = q /\ what = "cancel")
  BY <1>3, <1>4, <1>6
<1> DEFINE new == CASE what = "request" -> [box[q] EXCEPT !.request = "new"]
                    [] what = "requestOfType" -> [box[q] EXCEPT !.request = "otherType"]
                    [] what = "reply" -> [box[q] EXCEPT !.reply = TRUE]
                    [] what = "ack" -> [box[q] EXCEPT !.request = IF @ = "new" THEN "ack" ELSE @]
                    [] OTHER -> box[q]
<1>9. /\ new \in [request : {"none", "new", "ack", "otherType"}, reply : BOOLEAN]
      /\ what = "request" => new.request = "new"
      /\ what \notin {"request", "requestOfType", "ack"} => new.request = box[q].request
  <2>1. box[q] \in [request : {"none", "new", "ack", "otherType"}, reply : BOOLEAN]
    BY <1>3, <1>6 DEF Boxes
  <2>2. CASE what = "request" BY <2>1, <2>2
  <2>3. CASE what = "reply" BY <2>1, <2>3
  <2>4. CASE what = "ack" BY <2>1, <2>4
  <2>5. CASE what = "requestOfType" BY <2>1, <2>5
  <2>6. CASE what \notin {"request", "requestOfType", "reply", "ack"} BY <2>1, <2>6
  <2> QED BY <2>2, <2>3, <2>4, <2>5, <2>6
<1>10. box' = [box EXCEPT ![q] = new] BY <1>3, <1>4, <1>6 DEF Boxes
<1> HIDE DEF new
<1>11. /\ box' \in Boxes
       /\ \A p \in OpenRequests : p \in OpenRequests' \/ (p = q /\ what \in {"ack", "requestOfType"})
       /\ what = "request" => q \in OpenRequests'
  BY <1>3, <1>6, <1>9, <1>10 DEF Boxes, OpenRequests
<1>12. /\ told' \subseteq told \cup (IF what = "reply" THEN {q} ELSE {})
       /\ turns' \subseteq turns \cup (IF what = "turn" THEN {q} ELSE {})
       /\ what = "requestOfType" => q \in orphaned'
       /\ orphaned \subseteq orphaned'
  BY <1>4
<1>13. QuestionsTyped'
  <2>1. \A p \in Questions \ Cards : card'[p] = "none" BY <1>5, <1>6, <1>7
  <2>2. UNION {told', turns', woken', settled', reopened', namesakes', orphaned', lateWait'} \subseteq Questions
    BY <1>3, <1>4, <1>6
  <2>3. /\ turnCopy' = NoCopy \/ turnCopy' \in Boxes
        /\ logCopy' = NoCopy \/ (logCopy' \in Logs /\ \A p \in Questions \ Cards : logCopy'[p] = "none")
        /\ slips' \in 0 .. MaxSlips
    BY <1>4, <1>6
  <2> QED BY <1>7, <1>8, <1>11, <2>1, <2>2, <2>3 DEF QuestionsTyped, Boxes, Logs
<1>14. /\ \A p \in Questions : card[p] # "none" => card'[p] # "none"
       /\ what \in Closed /\ q \in Cards \ namesakes => card'[q] \in Closed \cup {"lost"}
       /\ what \in Closed /\ q \in Cards => card'[q] # "none"
       /\ \A p \in Questions : card'[p] # "none" /\ card[p] = "none" =>
            p = q /\ what \in Closed \cup Shown
       /\ \A p \in Questions : card'[p] = "pending" => card[p] = "pending" \/ (p = q /\ what \in Shown)
       /\ what \in Shown => card'[q] = "pending"
  <2>1. \A p \in namesakes : card[p] # "none" BY DEF QuestionsIInv, CardsOfSettled
  <2> QED BY <1>3, <1>5, <1>7, <2>1 DEF Closed, Shown
<1> QED BY <1>3, <1>4, <1>5, <1>8, <1>11, <1>12, <1>13, <1>14 DEF q, what

LEMMA CarryKeeps ==
  ASSUME QuestionsIInv, Carry
  PROVE  QuestionsIInv'
<1> DEFINE q == script[1].q
           what == script[1].what
<1>1. script \in Seq(ScriptSteps) /\ script # <<>> /\ script' = Tail(script)
  BY DEF QuestionsIInv, Fits, Carry
<1>2. /\ 1 \in DOMAIN script /\ script[1] \in ScriptSteps /\ script' \in Seq(ScriptSteps)
      /\ Len(script) \in Nat /\ Len(script') = Len(script) - 1
      /\ \A i \in DOMAIN script' : i + 1 \in DOMAIN script /\ script'[i] = script[i + 1]
  BY <1>1, TailIs
<1>3. /\ q \in Questions /\ QuestionsTyped'
      /\ \A p \in Questions : card[p] # "none" => card'[p] # "none"
      /\ what \in Closed /\ q \in Cards \ namesakes => card'[q] \in Closed \cup {"lost"}
      /\ what \in Closed /\ q \in Cards => card'[q] # "none"
      /\ \A p \in Questions : card'[p] # "none" /\ card[p] = "none" =>
           p = q /\ what \in Closed \cup Shown
      /\ \A p \in Questions : card'[p] = "pending" => card[p] = "pending" \/ (p = q /\ what \in Shown)
      /\ what \in Shown => card[q] = "none" /\ q \in Cards
      /\ settled' = IF what \in Closed THEN settled \cup {q} ELSE settled
      /\ namesakes' = IF what = "namesake" THEN namesakes \cup {q} ELSE namesakes
      /\ \A p \in OpenRequests : p \in OpenRequests' \/ (p = q /\ what \in {"ack", "requestOfType"})
      /\ what \in Shown => card'[q] = "pending"
      /\ what = "request" => q \in OpenRequests'
      /\ what = "requestOfType" => q \in orphaned'
      /\ orphaned \subseteq orphaned'
      /\ \A p \in Questions : wait'[p] = "active" => wait[p] = "active" /\ ~(p = q /\ what = "cancel")
      /\ told' \subseteq told \cup (IF what = "reply" THEN {q} ELSE {})
      /\ turns' \subseteq turns \cup (IF what = "turn" THEN {q} ELSE {})
      /\ UNCHANGED <<turnCopy, logCopy, woken, reopened, lateWait, slips>>
  BY CarryIs
<1>4. /\ Len(script) <= 3 * Cardinality(Questions) + 2 /\ ScriptFits(script)
      /\ ShownIsOpen /\ CardsOfSettled /\ WaitsAreStopped /\ QuestionsTyped
  BY DEF QuestionsIInv, Fits
<1>5. \A i \in DOMAIN script : i \in Nat /\ i >= 1 /\ (i # 1 => i - 1 \in DOMAIN script' /\ script'[i - 1] = script[i])
  <2>1. DOMAIN script = 1 .. Len(script) /\ DOMAIN script' = 1 .. Len(script) - 1
    BY <1>1, <1>2
  <2> TAKE i \in DOMAIN script
  <2>2. i # 1 => i - 1 \in DOMAIN script' /\ i - 1 + 1 = i BY <1>2, <2>1
  <2> QED BY <1>2, <2>1, <2>2
<1>6. ASSUME NEW w, NEW p, Ahead(w, p), ~(w = what /\ p = q)
      PROVE  Ahead(w, p)'
  <2>1. PICK i \in DOMAIN script : script[i] = [what |-> w, q |-> p] BY <1>6 DEF Ahead
  <2>2. script[i].what = w /\ script[i].q = p BY <2>1
  <2>3. i # 1 BY <1>6, <2>2
  <2> QED BY <1>5, <2>1, <2>3 DEF Ahead
<1>7. ASSUME NEW i \in DOMAIN script, NEW j \in DOMAIN script, j > i
      PROVE  \E k \in DOMAIN script' : k + 1 = j /\ script'[k] = script[j] /\ k >= i
  <2>1. j # 1 /\ j \in Nat /\ i \in Nat BY <1>5, <1>7
  <2> QED BY <1>5, <1>7, <2>1
<1>8. ScriptFits(script)'
  <2> SUFFICES ASSUME NEW i \in DOMAIN script'
               PROVE  /\ script'[i].what \notin Shown
                      /\ script'[i].what \in Closed =>
                           \E j \in DOMAIN script' : j > i /\ script'[j] = [what |-> "cancel", q |-> script'[i].q]
                      /\ script'[i].what \in {"reply", "ack"} /\ script'[i].q \in Cards => ClosedBefore(script, i)'
                      /\ script'[i].what = "turn" => script'[i].q \in Cards
    BY DEF ScriptFits
  <2> DEFINE m == i + 1
  <2>1. m \in DOMAIN script /\ script'[i] = script[m] /\ i \in Nat /\ i >= 1 /\ m # 1
    <3>1. DOMAIN script' = 1 .. Len(script') /\ Len(script') \in Nat BY <1>2
    <3>2. i \in Nat /\ i >= 1 BY <3>1
    <3> QED BY <1>2, <3>2
  <2>2. script[m].what \notin Shown /\ (script[m].what = "turn" => script[m].q \in Cards)
    BY <1>4, <2>1 DEF ScriptFits
  <2>3. ASSUME script[m].what \in Closed
        PROVE  \E j \in DOMAIN script' : j > i /\ script'[j] = [what |-> "cancel", q |-> script[m].q]
    <3>1. PICK j \in DOMAIN script : j > m /\ script[j] = [what |-> "cancel", q |-> script[m].q]
      BY <1>4, <2>1, <2>3 DEF ScriptFits
    <3>2. PICK k \in DOMAIN script' : k + 1 = j /\ script'[k] = script[j] /\ k >= m
      BY <1>7, <2>1, <3>1
    <3>3. k > i
      <4>1. DOMAIN script' = 1 .. Len(script') /\ Len(script') \in Nat BY <1>2
      <4> QED BY <2>1, <3>2, <4>1
    <3> QED BY <3>1, <3>2, <3>3
  <2>4. ASSUME script[m].what \in {"reply", "ack"}, script[m].q \in Cards
        PROVE  ClosedBefore(script, i)'
    <3>1. ClosedBefore(script, m) BY <1>4, <2>1, <2>4 DEF ScriptFits
    <3>2. script[m].q \in Questions BY <2>4, QuestionAssumption
    <3>3. CASE script[m].q \in settled
      BY <1>3, <2>1, <3>2, <3>3 DEF ClosedBefore
    <3>4. ASSUME NEW h \in DOMAIN script, h < m, script[h].what \in Closed, script[h].q = script[m].q
          PROVE  ClosedBefore(script, i)'
      <4>1. CASE h = 1
        BY <1>3, <2>1, <2>4, <3>4, <4>1 DEF ClosedBefore
      <4>2. CASE h # 1
        <5>1. h - 1 \in DOMAIN script' /\ script'[h - 1] = script[h] /\ h \in Nat BY <1>5, <4>2
        <5>2. h - 1 < i BY <2>1, <3>4, <5>1
        <5> QED BY <2>1, <3>4, <5>1, <5>2 DEF ClosedBefore
      <4> QED BY <4>1, <4>2
    <3> QED BY <3>1, <3>3, <3>4 DEF ClosedBefore
  <2> QED BY <2>1, <2>2, <2>3, <2>4
<1>9. Fits(script)'
  <2>1. IsFiniteSet(Questions) BY QuestionAssumption
  <2>2. Cardinality(Questions) \in Nat BY <2>1, FS_CardinalityType
  <2>3. Len(script') <= 3 * Cardinality(Questions) + 2 BY <1>2, <1>4, <2>2
  <2> QED BY <1>2, <1>8, <2>3 DEF Fits
<1>10. what \in {"reply", "ack"} /\ q \in Cards => q \in settled
  <2> SUFFICES ASSUME what \in {"reply", "ack"}, q \in Cards PROVE q \in settled
    OBVIOUS
  <2>1. ClosedBefore(script, 1) BY <1>2, <1>4 DEF ScriptFits
  <2>2. \A h \in DOMAIN script : ~(h < 1) BY <1>5
  <2> QED BY <2>1, <2>2 DEF ClosedBefore
<1>11. ShownIsOpen'
  <2> SUFFICES ASSUME NEW p \in Questions, card'[p] # "none", p \notin settled'
               PROVE  p \in OpenRequests' \cup orphaned' \/ \E w \in Requests : Ahead(w, p)'
    BY DEF ShownIsOpen
  <2>1. p \notin settled /\ ~(p = q /\ what \in Closed) BY <1>3
  <2>2. CASE p = q /\ what \in Shown
    <3>1. PICK j \in DOMAIN script, w \in Requests : j > 1 /\ script[j] = [what |-> w, q |-> q]
      BY <1>2, <1>4, <2>2 DEF ScriptFits
    <3>2. Ahead(w, q) BY <3>1 DEF Ahead
    <3>3. w # what BY <2>2 DEF Requests, Shown
    <3> QED BY <1>6, <2>2, <3>2, <3>3
  <2>3. CASE card[p] # "none"
    <3>1. p \in OpenRequests \cup orphaned \/ \E w \in Requests : Ahead(w, p)
      BY <1>4, <2>1, <2>3 DEF ShownIsOpen
    <3>2. p \in Cards BY <1>4, <2>3 DEF QuestionsTyped
    <3>3. ~(p = q /\ what = "ack") BY <1>10, <2>1, <3>2
    <3>4. ASSUME NEW w \in Requests, Ahead(w, p)
          PROVE  p \in OpenRequests' \cup orphaned' \/ Ahead(w, p)'
      BY <1>3, <1>6, <3>4 DEF Requests
    <3> QED BY <1>3, <3>1, <3>3, <3>4
  <2> QED BY <1>3, <2>1, <2>2, <2>3
<1>12. CardsOfSettled'
  <2>1. /\ \A p \in Questions \cap Cards : p \in settled => card[p] # "none"
        /\ \A p \in Questions : p \in settled /\ card[p] = "pending" => p \in reopened \cup namesakes
        /\ \A p \in namesakes : card[p] # "none"
        /\ logCopy # NoCopy => \A p \in Questions : logCopy[p] # "none" => card[p] # "none"
    BY <1>4 DEF CardsOfSettled
  <2>2. \A p \in Questions \cap Cards : p \in settled' => card'[p] # "none"
    BY <1>3, <2>1 DEF Closed
  <2>3. ASSUME NEW p \in Questions, p \in settled', card'[p] = "pending"
        PROVE  p \in reopened' \cup namesakes'
    <3> SUFFICES ASSUME p \notin namesakes PROVE p \in reopened'
      BY <1>3
    <3>1. p \in Cards BY <1>3, <2>3 DEF QuestionsTyped
    <3>2. ~(p = q /\ what \in Closed) BY <1>3, <2>3, <3>1 DEF Closed
    <3>3. p \in settled BY <1>3, <2>3, <3>2
    <3>4. ~(p = q /\ what \in Shown) BY <1>3, <2>1, <3>1, <3>3
    <3> QED BY <1>3, <2>1, <2>3, <3>3, <3>4
  <2>4. logCopy' # NoCopy => \A p \in Questions : logCopy'[p] # "none" => card'[p] # "none"
    BY <1>3, <2>1
  <2>5. \A p \in namesakes' : card'[p] # "none"
    <3>1. \A p \in namesakes : p \in Questions BY <1>4 DEF QuestionsTyped
    <3>2. what = "namesake" => card'[q] # "none" BY <1>3 DEF Shown
    <3> QED BY <1>3, <2>1, <3>1, <3>2
  <2> QED BY <2>2, <2>3, <2>4, <2>5 DEF CardsOfSettled
<1>13. WaitsAreStopped'
  <2>1. /\ told \cap Cards \subseteq settled
        /\ \A p \in Cards \ lateWait : p \in settled /\ wait[p] = "active" => Ahead("cancel", p)
        /\ woken \cap Cards \subseteq lateWait /\ turns \subseteq Cards
    BY <1>4 DEF WaitsAreStopped
  <2>2. told' \cap Cards \subseteq settled' BY <1>3, <1>10, <2>1
  <2>3. ASSUME NEW p \in Cards \ lateWait, p \in settled', wait'[p] = "active"
        PROVE  Ahead("cancel", p)'
    <3>1. p \in Questions BY QuestionAssumption
    <3>2. wait[p] = "active" /\ ~(p = q /\ what = "cancel") BY <1>3, <2>3, <3>1
    <3>3. CASE p \in settled
      <4>1. Ahead("cancel", p) BY <2>1, <3>2, <3>3
      <4> QED BY <1>6, <3>2, <4>1
    <3>4. CASE p = q /\ what \in Closed
      <4>1. \E j \in DOMAIN script : j > 1 /\ script[j] = [what |-> "cancel", q |-> q]
        BY <1>2, <1>4, <3>4 DEF ScriptFits
      <4>2. Ahead("cancel", q) BY <4>1 DEF Ahead
      <4> QED BY <1>6, <3>2, <3>4, <4>2
    <3> QED BY <1>3, <2>3, <3>3, <3>4
  <2>4. turns' \subseteq Cards
    <3>1. what = "turn" => q \in Cards BY <1>2, <1>4 DEF ScriptFits
    <3> QED BY <1>3, <2>1, <3>1
  <2> QED BY <1>3, <2>1, <2>2, <2>3, <2>4 DEF WaitsAreStopped
<1> QED BY <1>3, <1>9, <1>11, <1>12, <1>13 DEF QuestionsIInv

\* Between handlers nothing is ahead.
LEMMA NothingAhead ==
  ASSUME QuestionsIInv, script = <<>>
  PROVE  /\ \A q \in Questions : card[q] # "none" => q \in settled \cup OpenRequests \cup orphaned
         /\ CardsOfSettled
         /\ told \cap Cards \subseteq settled
         /\ \A q \in Cards \ lateWait : ~(q \in settled /\ wait[q] = "active")
         /\ woken \cap Cards \subseteq lateWait /\ turns \subseteq Cards
<1>1. \A what, q : ~Ahead(what, q) BY DEF Ahead
<1> QED BY <1>1 DEF QuestionsIInv, ShownIsOpen, WaitsAreStopped

\* What keeps the invariant between handlers.
LEMMA OtherKeeps ==
  ASSUME QuestionsTyped', script' = <<>>,
         \A q \in Questions : card'[q] # "none" => q \in settled' \cup OpenRequests' \cup orphaned',
         CardsOfSettled', told' \cap Cards \subseteq settled',
         \A q \in Cards \ lateWait' : ~(q \in settled' /\ wait'[q] = "active"),
         woken' \cap Cards \subseteq lateWait', turns' \subseteq Cards
  PROVE  QuestionsIInv'
  BY EmptyFits DEF QuestionsIInv, ShownIsOpen, WaitsAreStopped

LEMMA QuestionsStep == QuestionsIInv /\ [QuestionsNext]_questionVars => QuestionsIInv'
<1> SUFFICES ASSUME QuestionsIInv, [QuestionsNext]_questionVars PROVE QuestionsIInv'
  OBVIOUS
<1>1. /\ card \in Logs /\ \A q \in Questions \ Cards : card[q] = "none"
      /\ (logCopy = NoCopy \/ (logCopy \in Logs /\ \A q \in Questions \ Cards : logCopy[q] = "none"))
      /\ box \in Boxes /\ (turnCopy = NoCopy \/ turnCopy \in Boxes)
      /\ wait \in [Questions -> {"none", "active", "cancelled", "triggered"}]
      /\ UNION {told, turns, woken, settled, reopened, namesakes, orphaned, lateWait} \subseteq Questions
      /\ slips \in 0 .. MaxSlips
  BY DEF QuestionsIInv, QuestionsTyped
<1>2. ASSUME NEW q \in Questions, WaitForReply(q) PROVE QuestionsIInv'
  <2>1. /\ script = <<>> /\ script' = <<>> /\ wait' = [wait EXCEPT ![q] = "active"]
        /\ lateWait' = IF q \in settled THEN lateWait \cup {q} ELSE lateWait
        /\ UNCHANGED <<card, box, turnCopy, logCopy, told, turns, woken, settled, reopened, namesakes, orphaned,
                       slips>>
    BY <1>2 DEF WaitForReply, histories
  <2>2. QuestionsTyped' BY <1>1, <2>1 DEF QuestionsTyped, Boxes
  <2>3. CardsOfSettled' BY <2>1, NothingAhead DEF CardsOfSettled
  <2> QED BY <1>1, <2>1, <2>2, <2>3, NothingAhead, OtherKeeps, QuestionAssumption DEF OpenRequests
<1>3. ASSUME NEW q \in Questions, TellWatches(q) PROVE QuestionsIInv'
  <2>1. /\ script = <<>> /\ script' = <<>> /\ q \in told /\ told' = told \ {q}
        /\ wait' = [wait EXCEPT ![q] = IF @ = "active" THEN "triggered" ELSE @]
        /\ woken' = IF wait[q] = "active" THEN woken \cup {q} ELSE woken
        /\ UNCHANGED <<card, box, turnCopy, logCopy, turns, settled, reopened, namesakes, orphaned, lateWait, slips>>
    BY <1>3 DEF TellWatches, histories
  <2>2. QuestionsTyped' BY <1>1, <2>1 DEF QuestionsTyped, Boxes
  <2>3. \A p \in Questions : wait'[p] = "active" => wait[p] = "active" BY <1>1, <2>1
  <2>4. CardsOfSettled' BY <2>1, NothingAhead DEF CardsOfSettled
  <2> QED BY <1>1, <2>1, <2>2, <2>3, <2>4, NothingAhead, OtherKeeps, QuestionAssumption DEF OpenRequests
<1>4. CASE TurnReads
  <2>1. /\ script = <<>> /\ script' = <<>> /\ turnCopy' = box
        /\ UNCHANGED <<card, box, logCopy, wait, told, turns, woken, settled, reopened, namesakes, orphaned,
                       lateWait, slips>>
    BY <1>4 DEF TurnReads, histories
  <2>2. QuestionsTyped' BY <1>1, <2>1 DEF QuestionsTyped, Boxes
  <2>3. CardsOfSettled' BY <2>1, NothingAhead DEF CardsOfSettled
  <2> QED BY <2>1, <2>2, <2>3, NothingAhead, OtherKeeps DEF OpenRequests
<1>5. CASE TurnSaves
  <2>1. /\ script = <<>> /\ script' = <<>> /\ turnCopy # NoCopy /\ box' = turnCopy /\ turnCopy' = NoCopy
        /\ orphaned' = orphaned \cup {q \in OpenRequests : turnCopy[q].request # "new"}
        /\ UNCHANGED <<card, logCopy, wait, told, turns, woken, settled, reopened, namesakes, lateWait>>
    BY <1>5 DEF TurnSaves, histories
  <2>2. slips' \in 0 .. MaxSlips
    BY <1>1, <1>5, QuestionAssumption DEF TurnSaves, Slip
  <2>3. QuestionsTyped' BY <1>1, <2>1, <2>2 DEF QuestionsTyped, Boxes, OpenRequests
  <2>4. \A q \in OpenRequests : q \in OpenRequests' \cup orphaned'
    BY <2>1 DEF OpenRequests
  <2>5. CardsOfSettled' BY <2>1, NothingAhead DEF CardsOfSettled
  <2> QED BY <2>1, <2>3, <2>4, <2>5, NothingAhead, OtherKeeps
<1>6. ASSUME NEW q \in Questions, RemoveByHand(q) PROVE QuestionsIInv'
  <2>1. /\ script = <<>> /\ script' = <<>> /\ orphaned' = orphaned \cup {q}
        /\ UNCHANGED <<card, turnCopy, logCopy, wait, told, turns, woken, settled, reopened, namesakes, lateWait>>
    BY <1>6 DEF RemoveByHand, histories
  <2>2. PICK request \in {"ack", "none"} : box' = [box EXCEPT ![q].request = request]
    BY <1>6 DEF RemoveByHand
  <2>3. slips' \in 0 .. MaxSlips
    BY <1>1, <1>6, QuestionAssumption DEF RemoveByHand, Slip
  <2>4. box' \in Boxes /\ \A p \in Questions : p # q => box'[p] = box[p] BY <1>1, <2>2 DEF Boxes
  <2>5. QuestionsTyped' BY <1>1, <2>1, <2>3, <2>4 DEF QuestionsTyped, Boxes
  <2>6. \A p \in OpenRequests : p \in OpenRequests' \cup orphaned'
    BY <2>1, <2>4 DEF OpenRequests
  <2>7. CardsOfSettled' BY <2>1, NothingAhead DEF CardsOfSettled
  <2> QED BY <2>1, <2>5, <2>6, <2>7, NothingAhead, OtherKeeps
<1>7. CASE ServerDies
  <2>1. /\ script' = <<>> /\ told' = {} /\ turnCopy' = NoCopy /\ logCopy' = NoCopy
        /\ orphaned' = orphaned \cup {script[i].q : i \in {i \in DOMAIN script : script[i].what \in Requests}}
        /\ lateWait' = lateWait \cup {script[i].q : i \in DOMAIN script}
        /\ UNCHANGED <<card, box, wait, turns, woken, settled, reopened, namesakes>>
    BY <1>7 DEF ServerDies, histories
  <2>2. slips' \in 0 .. MaxSlips
    BY <1>1, <1>7, QuestionAssumption DEF ServerDies, Slip
  <2>3. script \in Seq(ScriptSteps) /\ ShownIsOpen /\ CardsOfSettled /\ WaitsAreStopped
    BY DEF QuestionsIInv, Fits
  <2>4. \A i \in DOMAIN script : script[i].q \in Questions
    <3>1. \A i \in DOMAIN script : script[i] \in ScriptSteps BY <2>3
    <3>2. \A e \in ScriptSteps : e.q \in Questions BY DEF ScriptSteps
    <3> QED BY <3>1, <3>2
  <2>5. QuestionsTyped' BY <1>1, <2>1, <2>2, <2>4 DEF QuestionsTyped, Boxes
  <2>6. \A q \in Questions : card'[q] # "none" => q \in settled' \cup OpenRequests' \cup orphaned'
    <3>1. \A q : \A w \in Requests : Ahead(w, q) => q \in orphaned'
      <4> SUFFICES ASSUME NEW q, NEW w \in Requests, Ahead(w, q) PROVE q \in orphaned'
        OBVIOUS
      <4>1. PICK i \in DOMAIN script : script[i] = [what |-> w, q |-> q] BY DEF Ahead
      <4>2. script[i].what \in Requests /\ script[i].q = q BY <4>1
      <4> QED BY <2>1, <4>2
    <3> QED BY <2>1, <2>3, <3>1 DEF ShownIsOpen, OpenRequests
  <2>7. \A q \in Cards \ lateWait' : ~(q \in settled' /\ wait'[q] = "active")
    <3>1. \A q : Ahead("cancel", q) => q \in lateWait' BY <2>1 DEF Ahead
    <3> QED BY <2>1, <2>3, <3>1 DEF WaitsAreStopped
  <2>8. woken' \cap Cards \subseteq lateWait' /\ turns' \subseteq Cards
    BY <2>1, <2>3 DEF WaitsAreStopped
  <2>9. CardsOfSettled' BY <2>1, <2>3 DEF CardsOfSettled
  <2> QED BY <2>1, <2>5, <2>6, <2>7, <2>8, <2>9, OtherKeeps
<1>8. CASE TurnReadsLog
  <2>1. /\ script = <<>> /\ script' = <<>> /\ logCopy' = card
        /\ UNCHANGED <<card, box, turnCopy, wait, told, turns, woken, settled, reopened, namesakes, orphaned,
                       lateWait, slips>>
    BY <1>8 DEF TurnReadsLog, histories
  <2>2. QuestionsTyped' BY <1>1, <2>1 DEF QuestionsTyped, Boxes
  <2>3. CardsOfSettled' BY <2>1, NothingAhead DEF CardsOfSettled
  <2> QED BY <2>1, <2>2, <2>3, NothingAhead, OtherKeeps DEF OpenRequests
<1>9. CASE TurnWritesLog
  <2>1. /\ script = <<>> /\ script' = <<>> /\ logCopy # NoCopy /\ logCopy' = NoCopy
        /\ card' = [q \in Questions |-> Rewritten(q)]
        /\ reopened' = reopened \cup {q \in settled : logCopy[q] = "pending"}
        /\ UNCHANGED <<box, turnCopy, wait, told, turns, woken, settled, namesakes, orphaned, lateWait>>
    BY <1>9 DEF TurnWritesLog
  <2>2. slips' \in 0 .. MaxSlips
    BY <1>1, <1>9, QuestionAssumption DEF TurnWritesLog, Slip
  <2>3. /\ \A q \in Questions : Rewritten(q) \in {"none", "pending", "lost"} \cup Closed
        /\ \A q \in Questions : Rewritten(q) = "pending" => logCopy[q] = "pending"
        /\ \A q \in Questions : Rewritten(q) = "none" <=> card[q] = "none"
    <3>1. \A q \in Questions : logCopy[q] # "none" => card[q] # "none"
      BY <2>1, NothingAhead DEF CardsOfSettled
    <3>2. \A q \in Questions : logCopy[q] \in {"none", "pending", "lost"} \cup Closed
      BY <1>1, <2>1 DEF Logs
    <3> QED BY <3>1, <3>2 DEF Rewritten
  <2>4. card' \in Logs /\ \A q \in Questions : card'[q] = Rewritten(q) BY <2>1, <2>3 DEF Logs
  <2>5. QuestionsTyped' BY <1>1, <2>1, <2>2, <2>3, <2>4 DEF QuestionsTyped
  <2>6. CardsOfSettled'
    <3>1. \A q \in Questions \cap Cards : q \in settled' => card'[q] # "none"
      BY <2>1, <2>3, <2>4, NothingAhead DEF CardsOfSettled
    <3>2. \A q \in Questions : q \in settled' /\ card'[q] = "pending" => q \in reopened'
      BY <2>1, <2>3, <2>4
    <3>3. \A q \in namesakes' : card'[q] # "none"
      <4>1. \A q \in namesakes : q \in Questions /\ card[q] # "none"
        BY <1>1, <2>1, NothingAhead DEF CardsOfSettled
      <4> QED BY <2>1, <2>3, <2>4, <4>1
    <3> QED BY <2>1, <3>1, <3>2, <3>3 DEF CardsOfSettled
  <2>7. \A q \in Questions : card'[q] # "none" => q \in settled' \cup OpenRequests' \cup orphaned'
    BY <2>1, <2>3, <2>4, NothingAhead DEF OpenRequests
  <2> QED BY <2>1, <2>5, <2>6, <2>7, NothingAhead, OtherKeeps
<1>10. CASE UNCHANGED questionVars
  <2>1. UNCHANGED <<card, box, turnCopy, logCopy, wait, told, script, turns, woken, settled, reopened, namesakes,
                    orphaned, lateWait, slips>>
    BY <1>10 DEF questionVars, histories
  <2> QED BY <2>1 DEF QuestionsIInv, QuestionsTyped, Fits, ScriptFits, ClosedBefore, ShownIsOpen,
                      CardsOfSettled, WaitsAreStopped, Ahead, OpenRequests
<1> QED BY <1>2, <1>3, <1>4, <1>5, <1>6, <1>7, <1>8, <1>9, <1>10, HandleKeeps, CarryKeeps
        DEF QuestionsNext

LEMMA QuestionsStart == QuestionsInit => QuestionsIInv
<1> SUFFICES ASSUME QuestionsInit PROVE QuestionsIInv
  OBVIOUS
<1>1. 0 \in 0 .. MaxSlips BY QuestionAssumption
<1>2. QuestionsTyped
  BY <1>1 DEF QuestionsInit, QuestionsTyped, Boxes, Logs, Empty
<1>3. Fits(script) BY StartFits DEF QuestionsInit
<1>4. ShownIsOpen /\ CardsOfSettled /\ WaitsAreStopped
  BY QuestionAssumption DEF QuestionsInit, ShownIsOpen, CardsOfSettled, WaitsAreStopped
<1> QED BY <1>2, <1>3, <1>4 DEF QuestionsIInv

\* The inductive invariant of the questions.
THEOREM QuestionsInvariance == QuestionsSpec => []QuestionsIInv
  BY QuestionsStart, QuestionsStep, PTL DEF QuestionsSpec

\* For any questions, crashes, and rows and logs written back by a turn: a card with
\* live buttons has an open request, unless that was removed, cut off, lost before,
\* or asked for under another type, or the card was closed and a turn's copy of the
\* log took it back to pending, or an older card of its correlationId was closed in
\* its place (answerHumanQuestion and supersedePendingHumanQuestions close the card
\* before they ack the request).
THEOREM CardsCanBeAnswered == QuestionsSpec => []CardIsAnswerable
<1>1. QuestionsIInv => CardIsAnswerable
  BY NothingAhead DEF CardsOfSettled, CardIsAnswerable
<1> QED BY <1>1, QuestionsInvariance, PTL

\* The wait of a question with a card never wakes the agent besides the turn that
\* the answer starts, unless it was made after the question was settled, or a
\* crash came before it was stopped.
THEOREM AgentResumedOnce == QuestionsSpec => []ResumedOnce
<1>1. QuestionsIInv => ResumedOnce
  BY DEF QuestionsIInv, WaitsAreStopped, ResumedOnce
<1> QED BY <1>1, QuestionsInvariance, PTL
=============================================================================
