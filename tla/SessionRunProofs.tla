-------------------------- MODULE SessionRunProofs --------------------------
(***************************************************************************)
(* Proofs about the session run manager, for every value of its constants. *)
(* The argument: each function of the manager keeps the shape of the state *)
(* (section 2), keeps it sound and moves the runs forward only (section 3);*)
(* so every action is one of four moves: the runs evolve, one joins, one   *)
(* finishes, or all die with the process (section 4).  The invariants, the *)
(* finality of verdicts and the refinement are facts about these moves.    *)
(***************************************************************************)
EXTENDS SessionRunProperties, TLAPS, FiniteSetTheorems, WellFoundedInduction

-----------------------------------------------------------------------------
(* 1. Sets of runs, and what a queue's head and tail are *)

\* There are finitely many runs (MaxRuns bounds them).
LEMMA RunsFinite == IsFiniteSet(Runs)
  BY Assumption, FS_Interval DEF Runs

\* A set of runs has a size: the counts of decrementNonHeartbeatWork are numbers.
LEMMA SubsetCard == ASSUME NEW R \in SUBSET Runs PROVE Cardinality(R) \in Nat
  BY RunsFinite, FS_Subset, FS_CardinalityType

\* A non-empty set of naturals has a least member.
LEMMA LeastNatural ==
  ASSUME NEW T \in SUBSET Nat, T # {}
  PROVE  \E c \in T : \A d \in T : ~(d < c)
<1> DEFINE less == OpToRel(<, Nat)
<1>1. \A c, d \in T : d < c => <<d, c>> \in less
  BY Zenon DEF OpToRel
<1>2. IsWellFoundedOn(less, Nat)
  BY NatLessThanWellFounded, Zenon
<1> HIDE DEF less
<1>3. \E c \in T : \A d \in T : ~(<<d, c>> \in less)
  BY <1>2, WFMin, Zenon
<1> QED BY <1>1, <1>3, Zenon

\* A non-empty set of runs has one whose place is least, and one whose place is
\* greatest, so First and Last return members of their argument.  The proof
\* picks the run with the fewest runs before (after) it.
LEMMA FirstInSet ==
  ASSUME NEW s \in Manager, NEW Q \in SUBSET Runs, Q # {}
  PROVE  First(s, Q) \in Q /\ \A q \in Q : s.place[First(s, Q)] <= s.place[q]
<1> DEFINE before(r) == {q \in Q : s.place[q] < s.place[r]}
           counts == {Cardinality(before(r)) : r \in Q}
<1>1. \A r \in Q : before(r) \in SUBSET Runs /\ IsFiniteSet(before(r)) /\ Cardinality(before(r)) \in Nat
  BY RunsFinite, FS_Subset, SubsetCard
<1>2. counts \subseteq Nat /\ counts # {}
  BY <1>1
<1>4. PICK c \in counts : \A d \in counts : ~(d < c)
  <2> HIDE DEF counts
  <2> QED BY <1>2, LeastNatural
<1>5. PICK r \in Q : c = Cardinality(before(r))
  BY <1>4
<1>6. \A q \in Q : s.place[r] <= s.place[q]
  <2> SUFFICES ASSUME NEW q \in Q, ~(s.place[r] <= s.place[q]) PROVE FALSE
    OBVIOUS
  <2>1. s.place[q] \in Int /\ s.place[r] \in Int /\ \A p \in Q : s.place[p] \in Int
    BY DEF Manager
  <2>2. before(q) \in SUBSET before(r) /\ q \in before(r) /\ q \notin before(q)
    BY <2>1
  <2>3. Cardinality(before(q)) <= Cardinality(before(r)) /\ Cardinality(before(q)) # Cardinality(before(r))
    BY <2>2, <1>1, FS_Subset
  <2>4. Cardinality(before(q)) < c
    <3>1. Cardinality(before(q)) \in Nat /\ Cardinality(before(r)) \in Nat
      BY <1>1
    <3> HIDE DEF before
    <3> QED BY <2>3, <3>1, <1>5
  <2> QED BY <2>4, <1>4
<1> QED BY <1>6 DEF First

\* The last entry of a queue, the one a collect may join, is in the queue.
LEMMA LastInSet ==
  ASSUME NEW s \in Manager, NEW Q \in SUBSET Runs, Q # {}
  PROVE  Last(s, Q) \in Q
<1> DEFINE after(r) == {q \in Q : s.place[r] < s.place[q]}
           counts == {Cardinality(after(r)) : r \in Q}
<1>1. \A r \in Q : after(r) \in SUBSET Runs /\ IsFiniteSet(after(r)) /\ Cardinality(after(r)) \in Nat
  BY RunsFinite, FS_Subset, SubsetCard
<1>2. counts \subseteq Nat /\ counts # {}
  BY <1>1
<1>4. PICK c \in counts : \A d \in counts : ~(d < c)
  <2> HIDE DEF counts
  <2> QED BY <1>2, LeastNatural
<1>5. PICK r \in Q : c = Cardinality(after(r))
  BY <1>4
<1>6. \A q \in Q : s.place[q] <= s.place[r]
  <2> SUFFICES ASSUME NEW q \in Q, ~(s.place[q] <= s.place[r]) PROVE FALSE
    OBVIOUS
  <2>1. s.place[q] \in Int /\ s.place[r] \in Int /\ \A p \in Q : s.place[p] \in Int
    BY DEF Manager
  <2>2. after(q) \in SUBSET after(r) /\ q \in after(r) /\ q \notin after(q)
    BY <2>1
  <2>3. Cardinality(after(q)) <= Cardinality(after(r)) /\ Cardinality(after(q)) # Cardinality(after(r))
    BY <2>2, <1>1, FS_Subset
  <2>4. Cardinality(after(q)) < c
    <3>1. Cardinality(after(q)) \in Nat /\ Cardinality(after(r)) \in Nat
      BY <1>1
    <3> HIDE DEF after
    <3> QED BY <2>3, <3>1, <1>5
  <2> QED BY <2>4, <1>4
<1> QED BY <1>6 DEF Last

\* A lane's queue is made of queued runs.
LEMMA QueueType ==
  ASSUME NEW s \in Manager, NEW k
  PROVE  Queue(s, k) \in SUBSET Runs /\ Queue(s, k) \subseteq s.queued
  BY DEF Queue, OfLane

\* The entry a drain takes is one of the lane's queue.
LEMMA NextEntryQueued ==
  ASSUME NEW s \in Manager, NEW k, Queue(s, k) # {}
  PROVE  NextEntry(s, k) \in Queue(s, k)
<1> DEFINE Q == Queue(s, k)
           user == {r \in Q : ~Internal(s.input[r])}
           work == {r \in Q : ~Heartbeat(s.input[r])}
           pick == IF user # {} THEN user ELSE IF work # {} THEN work ELSE Q
<1>1. pick \in SUBSET Q /\ pick # {} /\ Q \in SUBSET Runs
  BY QueueType
<1>2. NextEntry(s, k) = First(s, pick)
  BY DEF NextEntry
<1> HIDE DEF pick, Q
<1> QED BY <1>1, <1>2, FirstInSet DEF Q

\* It stands before the other entries of its class.
LEMMA NextEntryFirst ==
  ASSUME NEW s \in Manager, NEW k, NEW q \in Queue(s, k),
         Class(s.input[q]) = Class(s.input[NextEntry(s, k)])
  PROVE  s.place[NextEntry(s, k)] <= s.place[q]
<1> DEFINE Q == Queue(s, k)
           user == {r \in Q : ~Internal(s.input[r])}
           work == {r \in Q : ~Heartbeat(s.input[r])}
           pick == IF user # {} THEN user ELSE IF work # {} THEN work ELSE Q
           n == NextEntry(s, k)
<1>1. pick \in SUBSET Q /\ pick # {} /\ Q \in SUBSET Runs
  BY QueueType
<1>2. n = First(s, pick)
  BY DEF NextEntry
<1>3. n \in pick /\ \A r \in pick : s.place[n] <= s.place[r]
  <2> HIDE DEF pick, Q, n
  <2> QED BY <1>1, <1>2, FirstInSet
<1>4. q \in pick
  <2> HIDE DEF n
  <2>1. Class(s.input[q]) = Class(s.input[n])
    BY DEF n
  <2>2. CASE user # {}
    BY <1>3, <2>1, <2>2 DEF Class
  <2>3. CASE user = {} /\ work # {}
    BY <1>3, <2>1, <2>3 DEF Class
  <2>4. CASE user = {} /\ work = {}
    BY <2>4
  <2> QED BY <2>2, <2>3, <2>4
<1> QED BY <1>3, <1>4

\* The lane of an entry of a lane's queue is that lane.
LEMMA QueueLane ==
  ASSUME NEW s, NEW k, NEW r \in Queue(s, k)
  PROVE  r \in s.queued /\ r \in Runs /\ s.input[r].lane = k
  BY DEF Queue, OfLane
-----------------------------------------------------------------------------
(* 2. Every function of the manager maps manager states to manager states *)

\* Recording a status for some runs keeps a map of statuses.
LEMMA MarkType ==
  ASSUME NEW f \in [Runs -> Statuses], NEW R, NEW v \in Statuses
  PROVE  Mark(f, R, v) \in [Runs -> Statuses]
  BY DEF Mark

\* decrementNonHeartbeatWork keeps the manager's shape: no count goes negative.
LEMMA DecrementWorkType ==
  ASSUME NEW s \in Manager, NEW R \in SUBSET Runs
  PROVE  DecrementWork(s, R) \in Manager
<1> DEFINE n(x) == Cardinality(R \cap s.counted \cap OfSession(s, x))
           w == [x \in Sessions |-> IF n(x) >= s.work[x] THEN 0 ELSE s.work[x] - n(x)]
           c == s.counted \ R
<1>1. \A x : n(x) \in Nat
  BY SubsetCard
<1>2. w \in [Sessions -> Nat] /\ c \in SUBSET Runs
  <2> HIDE DEF n
  <2> QED BY <1>1 DEF Manager
<1>3. DecrementWork(s, R) = [s EXCEPT !.counted = c, !.work = w]
  BY Zenon DEF DecrementWork
<1> HIDE DEF w, c
<1> QED BY <1>2, <1>3, ZenonT(60) DEF Manager

\* reconcileSessionActivityLease keeps the manager's shape.
LEMMA ReconcileLeaseType ==
  ASSUME NEW s \in Manager, NEW X \in SUBSET Sessions
  PROVE  ReconcileLease(s, X) \in Manager
<1> DEFINE busy == {x \in X : s.work[x] > 0}
           idle == X \ busy
           acquires(x) == x \in busy \ s.leaseTimers /\ s.lease[x] = "none"
           releases(x) == x \in idle /\ s.lease[x] = "self"
           t == (s.leaseTimers \cup busy) \ idle
           l == [x \in Sessions |-> IF acquires(x) THEN "self"
                                    ELSE IF releases(x) THEN "none" ELSE s.lease[x]]
<1>1. t \in SUBSET Sessions
  BY DEF Manager
<1>2. l \in [Sessions -> {"none", "self", "other"}]
  <2> HIDE DEF acquires, releases
  <2> QED BY DEF Manager
<1>3. ReconcileLease(s, X) = [s EXCEPT !.leaseTimers = t, !.lease = l]
  BY Zenon DEF ReconcileLease
<1> HIDE DEF t, l
<1> QED BY <1>1, <1>2, <1>3, ZenonT(60) DEF Manager

\* Taking entries off their queues keeps the manager's shape.
LEMMA DequeueType ==
  ASSUME NEW s \in Manager, NEW R \in SUBSET Runs, NEW v \in Statuses
  PROVE  Dequeue(s, R, v) \in Manager
<1>1. /\ s.queued \ R \in SUBSET Runs /\ s.aged \ R \in SUBSET Runs
      /\ s.unsettled \ R \in SUBSET Runs
      /\ Mark(s.status, R, v) \in [Runs -> Statuses]
      /\ Mark(s.ledger, R, v) \in [Runs -> Statuses]
  BY MarkType DEF Manager
<1> QED BY <1>1, ZenonT(60) DEF Manager, Dequeue

\* Cancelling queued entries keeps the manager's shape.
LEMMA CancelQueuedType ==
  ASSUME NEW s \in Manager, NEW R \in SUBSET Runs
  PROVE  CancelQueued(s, R) \in Manager
  BY DequeueType, DecrementWorkType, "cancelled" \in Statuses DEF CancelQueued, Statuses

\* cancelPendingForSession keeps the manager's shape.
LEMMA CancelPendingType ==
  ASSUME NEW s \in Manager, NEW x \in Sessions
  PROVE  CancelPendingForSession(s, x) \in Manager
<1>1. s.queued \cap OfSession(s, x) \in SUBSET Runs
  BY DEF OfSession
<1> QED BY <1>1, CancelQueuedType, ReconcileLeaseType DEF CancelPendingForSession

\* abortSessionRuntime keeps the manager's shape.
LEMMA AbortRuntimeType ==
  ASSUME NEW s \in Manager, NEW R \in SUBSET Runs
  PROVE  AbortRuntime(s, R) \in Manager
<1> DEFINE L == {r \in R : s.status[r] # "cancelled"}
<1>1. /\ s.aborted \cup R \in SUBSET Runs
      /\ Mark(s.status, R, "cancelled") \in [Runs -> Statuses]
      /\ Mark(s.ledger, L, "cancelled") \in [Runs -> Statuses]
  <2>1. "cancelled" \in Statuses
    BY DEF Statuses
  <2> HIDE DEF L
  <2> QED BY <2>1, MarkType DEF Manager
<1> QED BY <1>1, ZenonT(60) DEF Manager, AbortRuntime

\* Forgetting running entries keeps the manager's shape.
LEMMA EvictType ==
  ASSUME NEW s \in Manager, NEW R
  PROVE  Evict(s, R) \in Manager
<1> DEFINE m == [k \in Lanes |-> IF s.running[k] \in R THEN NoRun ELSE s.running[k]]
<1>1. m \in [Lanes -> Runs \cup {NoRun}]
  BY DEF Manager
<1>2. Evict(s, R) = [s EXCEPT !.running = m]
  BY Zenon DEF Evict
<1> QED BY <1>1, <1>2, ZenonT(60) DEF Manager

\* drainExecution keeps the manager's shape.
LEMMA DrainType ==
  ASSUME NEW s \in Manager, NEW K \in SUBSET Lanes
  PROVE  Drain(s, K) \in Manager
<1> DEFINE start == StartingLanes(s, K)
           wait == BlockedLanes(s, K)
           began == {NextEntry(s, k) : k \in start}
           timers == (s.drainTimers \ IdleLanes(s, K)) \cup wait
           lane(r) == CHOOSE k \in wait : r = NextEntry(s, k)
           places == [r \in Runs |-> IF \E k \in wait : r = NextEntry(s, k)
                                     THEN PutBack(s, lane(r)) ELSE s.place[r]]
           m == [k \in Lanes |-> IF k \in start THEN NextEntry(s, k) ELSE s.running[k]]
<1>1. start \in SUBSET K /\ wait \in SUBSET K
  BY DEF StartingLanes, BlockedLanes, IdleLanes
<1>2. \A k \in start : NextEntry(s, k) \in s.queued /\ NextEntry(s, k) \in Runs
  BY NextEntryQueued, QueueType DEF StartingLanes
<1>3. began \in SUBSET Runs /\ timers \in SUBSET Lanes
  BY <1>1, <1>2 DEF Manager
<1>4. \A k \in wait : PutBack(s, k) \in Int
  <2> SUFFICES ASSUME NEW k \in wait PROVE PutBack(s, k) \in Int
    OBVIOUS
  <2>1. Queue(s, k) # {} /\ Queue(s, k) \in SUBSET Runs
    BY QueueType DEF BlockedLanes
  <2>2. First(s, Queue(s, k)) \in Runs
    BY <2>1, FirstInSet
  <2> QED BY <2>2 DEF PutBack, Manager
<1>5. places \in [Runs -> Int]
  <2>1. \A r \in Runs : (\E k \in wait : r = NextEntry(s, k)) => lane(r) \in wait
    BY Zenon
  <2> HIDE DEF wait, lane
  <2> QED BY <1>4, <2>1 DEF Manager
<1>6. m \in [Lanes -> Runs \cup {NoRun}]
  BY <1>2 DEF Manager
<1>7. /\ s.queued \ began \in SUBSET Runs /\ s.aged \ began \in SUBSET Runs
      /\ s.executing \cup began \in SUBSET Runs
      /\ Mark(s.status, began, "running") \in [Runs -> Statuses]
      /\ Mark(s.ledger, began, "running") \in [Runs -> Statuses]
  <2>1. "running" \in Statuses
    BY DEF Statuses
  <2> HIDE DEF began
  <2> QED BY <1>3, <2>1, MarkType DEF Manager
<1>8. Drain(s, K) = [s EXCEPT !.drainTimers = timers, !.place = places,
                              !.queued = s.queued \ began, !.aged = s.aged \ began,
                              !.executing = s.executing \cup began, !.running = m,
                              !.status = Mark(s.status, began, "running"),
                              !.ledger = Mark(s.ledger, began, "running")]
  BY Zenon DEF Drain
<1> HIDE DEF began, timers, places, m
<1> QED BY <1>3, <1>5, <1>6, <1>7, <1>8, ZenonT(60) DEF Manager

\* The code after a turn keeps the manager's shape.
LEMMA FinishRunType ==
  ASSUME NEW s \in Manager, NEW r \in Runs, s.input[r] # NoInput, NEW ok
  PROVE  FinishRun(s, r, ok) \in Manager
<1> DEFINE in == s.input[r]
           verdict == Verdict(s, r, ok)
           done == [s EXCEPT !.status[r] = verdict, !.ledger[r] = verdict,
                             !.executing = @ \ {r}, !.unsettled = @ \ {r},
                             !.running[in.lane] = NoRun]
<1>1. in.session \in Sessions /\ in.lane \in Lanes
  BY DEF Manager, InputType
<1>2. done \in Manager
  <2>1. verdict \in Statuses
    BY DEF Statuses, Verdict
  <2> HIDE DEF verdict, in
  <2>2. /\ [s.status EXCEPT ![r] = verdict] \in [Runs -> Statuses]
        /\ [s.ledger EXCEPT ![r] = verdict] \in [Runs -> Statuses]
        /\ s.executing \ {r} \in SUBSET Runs /\ s.unsettled \ {r} \in SUBSET Runs
        /\ [s.running EXCEPT ![in.lane] = NoRun] \in [Lanes -> Runs \cup {NoRun}]
    BY <2>1, <1>1 DEF Manager
  <2> QED BY <2>2, ZenonT(60) DEF Manager
<1> HIDE DEF done
<1>3. ReconcileLease(DecrementWork(done, {r}), {in.session}) \in Manager
  <2>1. {r} \in SUBSET Runs /\ {in.session} \in SUBSET Sessions
    BY <1>1
  <2> QED BY <1>2, <2>1, DecrementWorkType, ReconcileLeaseType, Zenon
<1>4. {in.lane} \in SUBSET Lanes
  BY <1>1
<1>5. FinishRun(s, r, ok) = Drain(ReconcileLease(DecrementWork(done, {r}), {in.session}), {in.lane})
  BY Zenon DEF FinishRun, done
<1> QED BY <1>3, <1>4, <1>5, DrainType, Zenon

\* Clearing retry timers keeps the manager's shape.
LEMMA DisarmType ==
  ASSUME NEW s \in Manager, NEW K
  PROVE  [s EXCEPT !.drainTimers = s.drainTimers \ K] \in Manager
<1>1. s.drainTimers \ K \in SUBSET Lanes
  BY DEF Manager
<1> QED BY <1>1, ZenonT(60) DEF Manager

\* repairSessionRunQueue keeps the manager's shape.
LEMMA RepairType ==
  ASSUME NEW s \in Manager, NEW x \in Sessions, NEW K \in SUBSET Lanes
  PROVE  Repair(s, x, K) \in Manager
<1> DEFINE mine == s.queued \cap OfSession(s, x)
           hit == {k \in IdleLanes(s, K) : Queue(s, k) \cap mine # {}}
           stale == {r \in s.aged \cap mine : s.input[r].lane \in hit}
           kicked == {k \in hit : (Queue(s, k) \cap mine) \ stale # {}}
           purged == DecrementWork(Dequeue(s, stale, "failed"), stale)
           drained == Drain([purged EXCEPT !.drainTimers = @ \ hit], kicked)
<1>1. mine \in SUBSET Runs /\ hit \in SUBSET K
  BY DEF OfSession, IdleLanes
<1>2. stale \in SUBSET Runs /\ kicked \in SUBSET Lanes
  BY <1>1
<1> HIDE DEF mine, hit, stale, kicked
<1>3. purged \in Manager
  BY <1>2, DequeueType, DecrementWorkType DEF Statuses
<1> HIDE DEF purged
<1>4. drained \in Manager
  BY <1>2, <1>3, DisarmType, DrainType, Zenon
<1> HIDE DEF drained
<1>5. {x} \in SUBSET Sessions
  OBVIOUS
<1>6. Repair(s, x, K) = IF stale = {} THEN drained ELSE ReconcileLease(drained, {x})
  BY Zenon DEF Repair, drained, purged, kicked, stale, hit, mine
<1> QED BY <1>4, <1>5, <1>6, ReconcileLeaseType, Zenon

\* Steering keeps the manager's shape.
LEMMA SteerType ==
  ASSUME NEW s \in Manager, NEW in \in InputType
  PROVE  Steer(s, in) \in Manager
<1> DEFINE current == {s.running[in.lane]} \cap OfSession(s, in.session)
           A == s.aborted \cup current
<1>1. A \in SUBSET Runs /\ in.session \in Sessions
  BY DEF OfSession, InputType, Manager
<1> HIDE DEF A
<1>2. [s EXCEPT !.aborted = A] \in Manager
  BY <1>1, ZenonT(60) DEF Manager
<1>3. Steer(s, in) = CancelPendingForSession([s EXCEPT !.aborted = A], in.session)
  BY Zenon DEF Steer, A
<1> QED BY <1>1, <1>2, <1>3, CancelPendingType, Zenon

\* Preempting a heartbeat keeps the manager's shape.
LEMMA PreemptType ==
  ASSUME NEW s \in Manager, NEW in \in InputType
  PROVE  Preempt(s, in) \in Manager
<1> DEFINE current == {r \in {s.running[in.lane]} \ {NoRun} : Heartbeat(s.input[r])}
<1>1. current \in SUBSET Runs
  BY DEF InputType, Manager
<1> HIDE DEF current
<1>2. Evict(AbortRuntime(s, current), current) \in Manager
  BY <1>1, AbortRuntimeType, EvictType
<1> QED BY <1>2, Zenon DEF Preempt, current

\* Registering and pushing a new entry keeps the manager's shape while runs are left.
LEMMA RegisterType ==
  ASSUME NEW s \in Manager, NEW in \in InputType, NEW origin \in Runs \cup {NoRun},
         s.lastRun < MaxRuns
  PROVE  Register(s, in, origin) \in Manager
<1> DEFINE r == s.lastRun + 1
<1>1. r \in Runs /\ r \in 0 .. MaxRuns /\ r \in Int
  BY Assumption DEF Manager, Runs
<1>2. Register(s, in, origin) =
        [s EXCEPT !.lastRun = r, !.input[r] = in, !.recoveredFrom[r] = origin,
                  !.status[r] = "queued", !.ledger[r] = "queued",
                  !.queued = @ \cup {r}, !.place[r] = r, !.unsettled = @ \cup {r}]
  BY Zenon DEF Register
<1> HIDE DEF r
<1>3. /\ [s.input EXCEPT ![r] = in] \in [Runs -> InputType \cup {NoInput}]
      /\ [s.recoveredFrom EXCEPT ![r] = origin] \in [Runs -> Runs \cup {NoRun}]
      /\ s.queued \cup {r} \in SUBSET Runs /\ s.unsettled \cup {r} \in SUBSET Runs
      /\ [s.place EXCEPT ![r] = r] \in [Runs -> Int]
  BY <1>1 DEF Manager
<1>4. /\ [s.status EXCEPT ![r] = "queued"] \in [Runs -> Statuses]
      /\ [s.ledger EXCEPT ![r] = "queued"] \in [Runs -> Statuses]
  BY <1>1 DEF Manager, Statuses
<1>5. [s EXCEPT !.lastRun = r, !.input[r] = in, !.recoveredFrom[r] = origin,
                !.status[r] = "queued", !.ledger[r] = "queued",
                !.queued = @ \cup {r}, !.place[r] = r, !.unsettled = @ \cup {r}] \in Manager
  BY <1>1, <1>3, <1>4, ZenonT(60) DEF Manager
<1> QED BY <1>2, <1>5, Zenon

\* incrementNonHeartbeatWork keeps the manager's shape.
LEMMA IncrementWorkType ==
  ASSUME NEW s \in Manager, NEW r \in Runs, NEW x \in Sessions
  PROVE  IncrementWork(s, r, x) \in Manager
<1>1. s.counted \cup {r} \in SUBSET Runs /\ [s.work EXCEPT ![x] = @ + 1] \in [Sessions -> Nat]
  BY DEF Manager
<1> QED BY <1>1, ZenonT(60) DEF Manager, IncrementWork

\* cancelAllRuns keeps the manager's shape.
LEMMA CancelAllType ==
  ASSUME NEW s \in Manager
  PROVE  CancelAll(s) \in Manager
<1> DEFINE R == RunningRuns(s)
           t == Evict(AbortRuntime(Dequeue(s, s.queued, "cancelled"), R), R)
           w == [x \in Sessions |-> 0]
<1>1. R \in SUBSET Runs /\ s.queued \in SUBSET Runs /\ "cancelled" \in Statuses
  BY DEF RunningRuns, Manager, Statuses
<1> HIDE DEF R
<1>2. t \in Manager
  BY <1>1, DequeueType, AbortRuntimeType, EvictType
<1>3. w \in [Sessions -> Nat]
  OBVIOUS
<1> HIDE DEF t, w
<1>4. CancelAll(s) = [t EXCEPT !.work = w]
  BY Zenon DEF CancelAll, t, w, R
<1> QED BY <1>2, <1>3, <1>4, ZenonT(60) DEF Manager
-----------------------------------------------------------------------------
(* 3. What the functions do to the runs: none makes a run, puts one back in *)
(* a queue or changes a verdict, and each keeps the state sound.            *)

\* t has the runs of s; some left their queue, some started, some were aborted.
Evolves(s, t) ==
  /\ t.lastRun = s.lastRun /\ t.input = s.input
  /\ t.queued \subseteq s.queued
  /\ s.executing \subseteq t.executing /\ t.executing \subseteq s.executing \cup s.queued
  /\ s.aborted \subseteq t.aborted
  /\ \A r \in Runs \ (s.queued \cup s.executing) : t.status[r] = s.status[r]
  /\ \A r \in s.executing : s.status[r] = "cancelled" => t.status[r] = "cancelled"
  /\ \A r \in s.queued \ (t.queued \cup t.executing) : t.status[r] \in {"failed", "cancelled"}

Born(s) == {r \in Runs : r <= s.lastRun}

\* What every function does to the runs there are, whether or not it adds or ends
\* one: none is born again, queued again or opened again in the ledger, none is
\* forgotten while its record is open, and those of one lane and class start in
\* their order.
Keeps(s, t) ==
  /\ s.lastRun <= t.lastRun
  /\ \A r \in Born(s) :
       /\ t.input[r] = s.input[r] /\ t.recoveredFrom[r] = s.recoveredFrom[r]
       /\ r \in s.aborted => r \in t.aborted
       /\ r \in t.queued => r \in s.queued
       /\ r \in t.executing => r \in Live(s)
       /\ Open(t, r) => Open(s, r) /\ (r \in Live(s) => r \in Live(t))
       /\ r \notin Live(s) => t.status[r] = s.status[r]
  /\ \A r, q \in s.queued : r \in t.executing /\ q \in t.queued /\ SameClass(s, r, q) => r < q

\* No lane is stranded, unless by failing a stale entry of it.
Strands(s, t) ==
  \A k \in Lanes : Stranded(t, k) /\ ~Stranded(s, k) =>
    \E r \in s.aged \cap OfLane(s, k) : t.status[r] = "failed"

Serves(s, t) == t.aged \subseteq s.aged /\ Strands(s, t)

\* Where the counts and leases can be relied on, a heartbeat starts on a session
\* only if none of its other work is live and not aborted.
Yields(s, t) ==
  Calm(s) =>
    \A r \in t.executing \ (s.executing \cup t.aborted) : Heartbeat(t.input[r]) =>
      \A q \in (Live(t) \ t.aborted) \cap Born(s) :
        t.input[q].session = t.input[r].session => Heartbeat(t.input[q])

\* The counts stay backed by live work and, in calm, miss none of it.
Balances(s, t) ==
  (Backed(s) => Backed(t)) /\ (Calm(s) => Calm(t)) /\ Yields(s, t)

\* t is a sound manager state that s can become as far as the runs go ...
Changes(s, t) == t \in Manager /\ Sound(t) /\ Evolves(s, t) /\ Keeps(s, t)

\* ... and as far as the counts and the lanes go.
Reaches(s, t) == Changes(s, t) /\ Balances(s, t) /\ Serves(s, t)

\* Two evolutions in a row are one.
LEMMA EvolvesTransitive ==
  ASSUME NEW s \in Manager, NEW t \in Manager, NEW u \in Manager, Evolves(s, t), Evolves(t, u)
  PROVE  Evolves(s, u)
  BY DEF Evolves, Manager

\* Live, aborted and aged runs exist.
LEMMA LiveBorn ==
  ASSUME NEW s \in Manager, Sound(s)
  PROVE  /\ s.queued \subseteq Born(s) /\ s.executing \subseteq Born(s) /\ Live(s) \subseteq Born(s)
         /\ s.aborted \subseteq Born(s) /\ s.aged \subseteq Born(s) /\ s.counted \subseteq Born(s)
<1>1. \A r \in Runs : r \in Int /\ s.lastRun \in Int /\ StatusFits(s, r)
  BY DEF Sound, Manager, Runs
<1>2. \A r \in s.queued \cup s.executing \cup s.aborted : r \in Runs /\ r <= s.lastRun
  BY <1>1 DEF StatusFits, Manager
<1>3. s.aged \subseteq s.queued /\ \A r \in s.counted : r \in Runs /\ r <= s.lastRun
  BY DEF Sound, Filed, Manager
<1> QED BY <1>2, <1>3 DEF Born, Live

\* What is kept twice in a row is kept.
LEMMA KeepsTransitive ==
  ASSUME NEW s \in Manager, Sound(s), NEW t \in Manager, Sound(t), NEW u \in Manager,
         Keeps(s, t), Keeps(t, u)
  PROVE  Keeps(s, u)
<1>1. s.lastRun <= t.lastRun /\ t.lastRun <= u.lastRun /\ s.lastRun <= u.lastRun
  BY DEF Keeps, Manager
<1>2. Born(s) \subseteq Born(t)
  BY <1>1 DEF Born, Manager, Runs
<1>3. \A r \in Born(s) :
        /\ t.input[r] = s.input[r] /\ t.recoveredFrom[r] = s.recoveredFrom[r]
        /\ r \in s.aborted => r \in t.aborted
        /\ r \in t.queued => r \in s.queued
        /\ r \in t.executing => r \in Live(s)
        /\ Open(t, r) => Open(s, r) /\ (r \in Live(s) => r \in Live(t))
        /\ r \notin Live(s) => t.status[r] = s.status[r]
  BY DEF Keeps
<1>4. \A r \in Born(s) :
        /\ u.input[r] = t.input[r] /\ u.recoveredFrom[r] = t.recoveredFrom[r]
        /\ r \in t.aborted => r \in u.aborted
        /\ r \in u.queued => r \in t.queued
        /\ r \in u.executing => r \in Live(t)
        /\ Open(u, r) => Open(t, r) /\ (r \in Live(t) => r \in Live(u))
        /\ r \notin Live(t) => u.status[r] = t.status[r]
  BY <1>2 DEF Keeps
<1>5. \A r \in Born(s) : r \in Live(t) => r \in Live(s)
  BY <1>3 DEF Live
<1>6. ASSUME NEW r \in s.queued, NEW q \in s.queued, r \in u.executing, q \in u.queued, SameClass(s, r, q)
      PROVE  r < q
  <2>1. r \in Born(s) /\ q \in Born(s)
    BY LiveBorn
  <2>2. q \in t.queued /\ r \in Live(t) /\ SameClass(t, r, q)
    BY <1>3, <1>4, <1>6, <2>1 DEF SameClass
  <2>3. CASE r \in t.queued
    BY <1>6, <2>2, <2>3 DEF Keeps
  <2>4. CASE r \in t.executing
    BY <1>6, <2>2, <2>4 DEF Keeps
  <2> QED BY <2>2, <2>3, <2>4 DEF Live
<1>7. \A r \in Born(s) :
        /\ u.input[r] = s.input[r] /\ u.recoveredFrom[r] = s.recoveredFrom[r]
        /\ r \in s.aborted => r \in u.aborted
        /\ r \in u.queued => r \in s.queued
        /\ r \in u.executing => r \in Live(s)
        /\ Open(u, r) => Open(s, r) /\ (r \in Live(s) => r \in Live(u))
        /\ r \notin Live(s) => u.status[r] = s.status[r]
  BY <1>3, <1>4, <1>5
<1> QED BY <1>1, <1>6, <1>7 DEF Keeps

\* Lanes that are served twice in a row are served.
LEMMA ServesTransitive ==
  ASSUME NEW s \in Manager, Sound(s), NEW t \in Manager, Sound(t), NEW u \in Manager,
         Keeps(s, t), Serves(s, t), Keeps(t, u), Serves(t, u)
  PROVE  Serves(s, u)
<1>1. u.aged \subseteq s.aged
  BY DEF Serves
<1>2. ASSUME NEW k \in Lanes, Stranded(u, k), ~Stranded(s, k)
      PROVE  \E r \in s.aged \cap OfLane(s, k) : u.status[r] = "failed"
  <2>1. Born(s) \subseteq Born(t) /\ s.aged \subseteq Born(s)
    <3>1. Born(s) \subseteq Born(t)
      BY DEF Keeps, Born, Manager, Runs
    <3> QED BY <3>1, LiveBorn
  <2>2. CASE Stranded(t, k)
    <3>1. PICK r \in s.aged \cap OfLane(s, k) : t.status[r] = "failed"
      BY <1>2, <2>2 DEF Serves, Strands
    <3>2. r \in Born(t) /\ r \in Runs /\ StatusFits(t, r)
      BY <2>1, <3>1 DEF Sound, OfLane
    <3>3. r \notin Live(t)
      BY <3>1, <3>2 DEF StatusFits, Live
    <3> QED BY <3>1, <3>2, <3>3 DEF Keeps
  <2>3. CASE ~Stranded(t, k)
    <3>1. PICK r \in t.aged \cap OfLane(t, k) : u.status[r] = "failed"
      BY <1>2, <2>3 DEF Serves, Strands
    <3>2. r \in s.aged /\ r \in Born(s)
      BY <2>1, <3>1 DEF Serves
    <3>3. r \in OfLane(s, k)
      BY <3>1, <3>2 DEF Keeps, OfLane
    <3> QED BY <3>1, <3>2, <3>3
  <2> QED BY <2>2, <2>3
<1> QED BY <1>1, <1>2 DEF Serves, Strands

\* Books that balance twice in a row balance.
LEMMA BalancesTransitive ==
  ASSUME NEW s \in Manager, Sound(s), NEW t \in Manager, Sound(t), NEW u \in Manager, Sound(u),
         Keeps(s, t), Balances(s, t), Keeps(t, u), Balances(t, u)
  PROVE  Balances(s, u)
<1>1. (Backed(s) => Backed(u)) /\ (Calm(s) => Calm(u))
  BY DEF Balances
<1>2. Yields(s, u)
  <2> SUFFICES ASSUME Calm(s), NEW r \in u.executing \ (s.executing \cup u.aborted), Heartbeat(u.input[r]),
                      NEW q \in (Live(u) \ u.aborted) \cap Born(s), u.input[q].session = u.input[r].session
               PROVE  Heartbeat(u.input[q])
    BY DEF Yields
  <2>1. Calm(t) /\ Born(s) \subseteq Born(t)
    BY DEF Balances, Keeps, Born, Manager, Runs
  <2>2. CASE r \in t.executing
    <3>1. r \in Born(t) /\ q \in Born(t)
      BY <2>1, <2>2, LiveBorn
    <3>2. u.input[r] = t.input[r] /\ u.input[q] = t.input[q] /\ r \notin t.aborted /\ q \notin t.aborted
      BY <3>1 DEF Keeps
    <3>3. q \in Live(t)
      BY <3>1 DEF Keeps, Live
    <3> QED BY <2>2, <3>2, <3>3 DEF Balances, Yields
  <2>3. CASE r \notin t.executing
    BY <2>1, <2>3 DEF Balances, Yields
  <2> QED BY <2>2, <2>3
<1> QED BY <1>1, <1>2 DEF Balances

\* Soundness and evolution carry through a chain of helpers.
LEMMA ChangesTransitive ==
  ASSUME NEW s \in Manager, Sound(s), NEW t, NEW u, Changes(s, t), Changes(t, u)
  PROVE  Changes(s, u)
  BY EvolvesTransitive, KeepsTransitive DEF Changes

\* So does everything else.
LEMMA ReachesTransitive ==
  ASSUME NEW s \in Manager, Sound(s), NEW t, NEW u, Reaches(s, t), Reaches(t, u)
  PROVE  Reaches(s, u)
  BY ChangesTransitive, BalancesTransitive, ServesTransitive DEF Reaches, Changes

\* s and t differ in counts, leases, timers and ages only.
SameRuns(s, t) ==
  /\ t.lastRun = s.lastRun /\ t.input = s.input /\ t.status = s.status
  /\ t.queued = s.queued /\ t.executing = s.executing /\ t.aborted = s.aborted
  /\ t.unsettled = s.unsettled /\ t.running = s.running /\ t.ledger = s.ledger
  /\ t.place = s.place /\ t.recoveredFrom = s.recoveredFrom
  /\ t.counted \subseteq s.counted /\ t.aged \subseteq s.queued

\* A helper that touches only those parts reaches a sound state.
LEMMA SameRunsChanges ==
  ASSUME NEW s \in Manager, Sound(s), NEW t \in Manager, SameRuns(s, t)
  PROVE  Changes(s, t)
<1>1. Sound(t)
  <2>1. Filed(t)
    BY DEF Sound, Filed, SameRuns, SameClass
  <2> QED BY <2>1 DEF Sound, SameRuns, StatusFits, HoldsItsLane
<1>2. Evolves(s, t)
  BY DEF Evolves, SameRuns
<1>3. Keeps(s, t)
  BY DEF Keeps, SameRuns, Sound, Live, Open, Born, Manager
<1> QED BY <1>1, <1>2, <1>3 DEF Changes

\* The counts and leases are as before, for the live work they cover.
SameBooks(s, t) ==
  /\ t.lastRun = s.lastRun /\ t.input = s.input
  /\ t.counted = s.counted /\ t.work = s.work /\ t.lease = s.lease
  /\ t.leaseTimers \subseteq s.leaseTimers
  /\ Live(t) \subseteq Live(s) /\ s.counted \cap Live(s) \subseteq Live(t)
  /\ s.aborted \subseteq t.aborted

\* Then they are backed and calm as before.
LEMMA SameBooksBalance ==
  ASSUME NEW s, NEW t, SameBooks(s, t)
  PROVE  (Backed(s) => Backed(t)) /\ (Calm(s) => Calm(t))
<1>1. Backed(s) => Backed(t)
  <2> SUFFICES ASSUME Backed(s), NEW x \in Sessions
               PROVE  t.work[x] <= Cardinality(t.counted \cap Live(t) \cap OfSession(t, x))
    BY DEF Backed
  <2>1. t.counted \cap Live(t) \cap OfSession(t, x) = s.counted \cap Live(s) \cap OfSession(s, x)
    BY DEF SameBooks, OfSession
  <2> QED BY <2>1 DEF Backed, SameBooks
<1>2. Calm(s) => Calm(t)
  BY DEF Calm, SameBooks, OfSession
<1> QED BY <1>1, <1>2

\* Where no turn starts, no heartbeat does.
LEMMA NothingStarts ==
  ASSUME NEW s, NEW t, t.executing \subseteq s.executing
  PROVE  Yields(s, t)
  BY DEF Yields

\* Shorter queues, more turns and more retry timers strand no lane.
LEMMA NothingStranded ==
  ASSUME NEW s, NEW t, t.input = s.input, t.queued \subseteq s.queued, s.executing \subseteq t.executing,
         s.drainTimers \subseteq t.drainTimers, t.aged \subseteq s.aged
  PROVE  Serves(s, t)
  BY DEF Serves, Strands, Stranded, Queue, OfLane

\* A change that leaves the books, the turns and the timers alone.
LEMMA QuietReaches ==
  ASSUME NEW s, NEW t, Changes(s, t), SameBooks(s, t), t.executing = s.executing,
         s.drainTimers \subseteq t.drainTimers, t.aged \subseteq s.aged
  PROVE  Reaches(s, t)
<1>1. Balances(s, t)
  BY SameBooksBalance, NothingStarts DEF Balances
<1>2. Serves(s, t)
  BY NothingStranded DEF Changes, Evolves
<1> QED BY <1>1, <1>2 DEF Reaches

\* A helper may do nothing.
LEMMA ReflexiveReaches ==
  ASSUME NEW s \in Manager, Sound(s) PROVE Reaches(s, s)
<1>1. SameRuns(s, s) /\ SameBooks(s, s)
  BY DEF SameRuns, SameBooks, Sound, Filed
<1> QED BY <1>1, SameRunsChanges, QuietReaches

\* A live run was created from a request.
LEMMA LiveInput ==
  ASSUME NEW s \in Manager, Sound(s), NEW r \in s.queued \cup s.executing
  PROVE  s.input[r] \in InputType /\ s.input[r].lane \in Lanes /\ s.input[r].session \in Sessions
<1>1. r \in Runs /\ r \in Int /\ s.lastRun \in Int
  BY DEF Manager, Runs
<1>2. StatusFits(s, r)
  BY <1>1 DEF Sound
<1>3. r <= s.lastRun
  BY <1>1, <1>2 DEF StatusFits
<1>4. s.input[r] # NoInput
  BY <1>1, <1>3 DEF Sound
<1>5. s.input[r] \in InputType
  BY <1>1, <1>4 DEF Manager
<1> QED BY <1>5 DEF InputType

\* The size of a set of runs, split by another.
LEMMA SplitCard ==
  ASSUME NEW A \in SUBSET Runs, NEW B \in SUBSET Runs
  PROVE  Cardinality(A) = Cardinality(A \cap B) + Cardinality(A \ B)
<1>1. IsFiniteSet(A) /\ IsFiniteSet(B) /\ IsFiniteSet(A \ B) /\ IsFiniteSet(A \cap B)
  BY RunsFinite, FS_Subset
<1>2. Cardinality(A \ B) = Cardinality(A) - Cardinality(A \cap B)
  BY <1>1, FS_Difference
<1> QED BY <1>1, <1>2, FS_CardinalityType

\* Taking b off a count w of a things, i of which are among the b, leaves a count
\* that exceeds the d others, or falls short of them, only if w did before.
LEMMA TakeAway ==
  ASSUME NEW w \in Nat, NEW b \in Nat, NEW a \in Nat, NEW i \in Nat, NEW d \in Nat, a = i + d,
         NEW v, v = IF b >= w THEN 0 ELSE w - b
  PROVE  (w <= a /\ i <= b => v <= d) /\ (a <= w /\ b = i => d <= v)
  OBVIOUS

\* The entries R have left a state s with the same books and are uncounted: what
\* is left of the count is backed, and in calm misses no live work.
LEMMA UncountBalances ==
  ASSUME NEW s \in Manager, NEW u \in Manager, NEW R \in SUBSET Runs,
         u.lastRun = s.lastRun, u.input = s.input, u.counted = s.counted, u.work = s.work,
         u.lease = s.lease, u.leaseTimers = s.leaseTimers, s.aborted \subseteq u.aborted,
         Live(u) \subseteq Live(s), Live(s) \subseteq Live(u) \cup R, R \cap Live(u) \subseteq u.aborted
  PROVE  LET t == DecrementWork(u, R)
         IN (Backed(s) => Backed(t)) /\ (Calm(s) => Calm(t))
<1> DEFINE t == DecrementWork(u, R)
           n(x) == Cardinality(R \cap u.counted \cap OfSession(u, x))
<1>1. /\ t.counted = u.counted \ R
      /\ \A x \in Sessions : t.work[x] = IF n(x) >= u.work[x] THEN 0 ELSE u.work[x] - n(x)
  BY DEF DecrementWork, Manager
<1>2. /\ t.lastRun = u.lastRun /\ t.input = u.input /\ t.queued = u.queued /\ t.executing = u.executing
      /\ t.aborted = u.aborted /\ t.lease = u.lease /\ t.leaseTimers = u.leaseTimers
  BY DEF DecrementWork, Manager
<1> HIDE DEF t
<1>3. \A x \in Sessions : n(x) \in Nat /\ s.work[x] \in Nat
  BY SubsetCard DEF Manager
<1>4. Live(t) = Live(u) /\ \A x : OfSession(t, x) = OfSession(s, x) /\ OfSession(u, x) = OfSession(s, x)
  BY <1>2 DEF Live, OfSession
<1>5. Backed(s) => Backed(t)
  <2> SUFFICES ASSUME Backed(s), NEW x \in Sessions
               PROVE  t.work[x] <= Cardinality(t.counted \cap Live(t) \cap OfSession(t, x))
    BY DEF Backed
  <2> DEFINE A == s.counted \cap Live(s) \cap OfSession(s, x)
             B == R \cap s.counted \cap OfSession(s, x)
  <2>1. A \in SUBSET Runs /\ B \in SUBSET Runs /\ A \cap R \in SUBSET B
    BY DEF Manager
  <2>2. t.counted \cap Live(t) \cap OfSession(t, x) = A \ R
    BY <1>1, <1>4
  <2>3. s.work[x] <= Cardinality(A) /\ B = R \cap u.counted \cap OfSession(u, x)
    BY <1>4 DEF Backed
  <2> HIDE DEF A, B
  <2>4. Cardinality(A) = Cardinality(A \cap R) + Cardinality(A \ R)
    BY <2>1, SplitCard
  <2>5. Cardinality(A \cap R) <= Cardinality(B)
    BY <2>1, RunsFinite, FS_Subset
  <2>6. /\ Cardinality(A) \in Nat /\ Cardinality(A \cap R) \in Nat /\ Cardinality(A \ R) \in Nat
        /\ Cardinality(B) \in Nat
    BY <2>1, SubsetCard
  <2>7. t.work[x] = IF Cardinality(B) >= s.work[x] THEN 0 ELSE s.work[x] - Cardinality(B)
    BY <1>1, <2>3
  <2>8. s.work[x] \in Nat
    BY <1>3
  <2>9. t.work[x] <= Cardinality(A \ R)
    <3> DEFINE w == s.work[x]  b == Cardinality(B)  a == Cardinality(A)
               i == Cardinality(A \cap R)  d == Cardinality(A \ R)  v == t.work[x]
    <3>1. /\ w \in Nat /\ b \in Nat /\ a \in Nat /\ i \in Nat /\ d \in Nat /\ a = i + d
          /\ v = (IF b >= w THEN 0 ELSE w - b) /\ w <= a /\ i <= b
      BY <2>3, <2>4, <2>5, <2>6, <2>7, <2>8
    <3> HIDE DEF w, b, a, i, d, v
    <3>2. v <= d
      BY <3>1, TakeAway
    <3> QED BY <3>2 DEF v, d
  <2> QED BY <2>2, <2>9
<1>6. Calm(s) => Calm(t)
  <2> SUFFICES ASSUME Calm(s) PROVE Calm(t)
    OBVIOUS
  <2>1. ASSUME NEW x \in Sessions PROVE Cardinality(t.counted \cap OfSession(t, x)) <= t.work[x]
    <3> DEFINE A == s.counted \cap OfSession(s, x)
               B == R \cap u.counted \cap OfSession(u, x)
    <3>1. A \in SUBSET Runs /\ B = A \cap R /\ t.counted \cap OfSession(t, x) = A \ R
      BY <1>1, <1>4 DEF Manager
    <3>2. Cardinality(A) <= s.work[x]
      BY DEF Calm
    <3>3. t.work[x] = IF Cardinality(B) >= s.work[x] THEN 0 ELSE s.work[x] - Cardinality(B)
      BY <1>1
    <3> HIDE DEF A, B
    <3>4. /\ Cardinality(A) = Cardinality(A \cap R) + Cardinality(A \ R)
          /\ Cardinality(A) \in Nat /\ Cardinality(A \cap R) \in Nat /\ Cardinality(A \ R) \in Nat
      BY <3>1, SplitCard, SubsetCard
    <3>5. s.work[x] \in Nat /\ Cardinality(B) = Cardinality(A \cap R) /\ Cardinality(B) \in Nat
      BY <1>3, <3>1, <3>4
    <3>6. Cardinality(A \ R) <= t.work[x]
      <4> DEFINE w == s.work[x]  b == Cardinality(B)  a == Cardinality(A)
                 i == Cardinality(A \cap R)  d == Cardinality(A \ R)  v == t.work[x]
      <4>1. /\ w \in Nat /\ b \in Nat /\ a \in Nat /\ i \in Nat /\ d \in Nat /\ a = i + d
            /\ v = (IF b >= w THEN 0 ELSE w - b) /\ a <= w /\ b = i
        BY <3>2, <3>3, <3>4, <3>5
      <4> HIDE DEF w, b, a, i, d, v
      <4>2. d <= v
        BY <4>1, TakeAway
      <4> QED BY <4>2 DEF v, d
    <3> QED BY <3>1, <3>6
  <2>2. \A r \in Live(t) \ t.aborted : ~Heartbeat(t.input[r]) => r \in t.counted
    BY <1>1, <1>2, <1>4 DEF Calm
  <2>3. \A x \in Sessions : t.work[x] > 0 => s.work[x] > 0
    <3> HIDE DEF n
    <3> QED BY <1>1, <1>3
  <2>4. /\ \A x \in Sessions : t.lease[x] # "other" /\ (t.work[x] > 0 => t.lease[x] = "self")
        /\ \A x \in t.leaseTimers : t.lease[x] = "self"
    BY <1>2, <2>3 DEF Calm
  <2> QED BY <2>1, <2>2, <2>4 DEF Calm
<1> QED BY <1>5, <1>6 DEF t

\* Uncounting entries leaves the runs alone.
LEMMA DecrementWorkChanges ==
  ASSUME NEW s \in Manager, Sound(s), NEW R \in SUBSET Runs
  PROVE  LET t == DecrementWork(s, R)
         IN Changes(s, t) /\ t.executing = s.executing /\ t.drainTimers = s.drainTimers /\ t.aged = s.aged
<1>1. SameRuns(s, DecrementWork(s, R))
  BY DEF SameRuns, DecrementWork, Manager, Sound, Filed
<1>2. /\ DecrementWork(s, R).drainTimers = s.drainTimers /\ DecrementWork(s, R).aged = s.aged
      /\ DecrementWork(s, R).executing = s.executing
  BY DEF DecrementWork, Manager
<1> QED BY <1>1, <1>2, DecrementWorkType, SameRunsChanges

\* Uncounting aborted entries.
LEMMA DecrementWorkReaches ==
  ASSUME NEW s \in Manager, Sound(s), NEW R \in SUBSET s.aborted
  PROVE  Reaches(s, DecrementWork(s, R))
<1> DEFINE t == DecrementWork(s, R)
<1>1. R \in SUBSET Runs
  BY DEF Manager
<1>2. Changes(s, t) /\ t.executing = s.executing /\ t.drainTimers = s.drainTimers /\ t.aged = s.aged
  BY <1>1, DecrementWorkChanges
<1>3. (Backed(s) => Backed(t)) /\ (Calm(s) => Calm(t))
  BY <1>1, UncountBalances
<1> HIDE DEF t
<1>4. Balances(s, t)
  BY <1>2, <1>3, NothingStarts DEF Balances
<1>5. Serves(s, t)
  BY <1>2, NothingStranded DEF Changes, Evolves
<1> QED BY <1>2, <1>4, <1>5 DEF Reaches, t

\* In calm but for the leases of the sessions X.
CalmBut(s, X) ==
  /\ \A x \in Sessions : Cardinality(s.counted \cap OfSession(s, x)) <= s.work[x]
  /\ \A r \in Live(s) \ s.aborted : ~Heartbeat(s.input[r]) => r \in s.counted
  /\ \A x \in Sessions : s.lease[x] # "other"
  /\ \A x \in Sessions \ X : s.work[x] > 0 => s.lease[x] = "self"
  /\ \A x \in s.leaseTimers : s.lease[x] = "self"

\* Reconciling leases leaves the runs alone, and gives the sessions with work
\* their leases.
LEMMA ReconcileLeaseBalances ==
  ASSUME NEW s \in Manager, NEW X \in SUBSET Sessions
  PROVE  LET t == ReconcileLease(s, X)
         IN (Backed(s) => Backed(t)) /\ (CalmBut(s, X) => Calm(t))
<1> DEFINE t == ReconcileLease(s, X)
           busy == {x \in X : s.work[x] > 0}
           idle == X \ busy
<1>1. /\ t.lastRun = s.lastRun /\ t.input = s.input /\ t.queued = s.queued /\ t.executing = s.executing
      /\ t.aborted = s.aborted /\ t.counted = s.counted /\ t.work = s.work
      /\ t.leaseTimers = (s.leaseTimers \cup busy) \ idle
      /\ \A x \in Sessions : t.lease[x] = IF x \in busy \ s.leaseTimers /\ s.lease[x] = "none" THEN "self"
                                          ELSE IF x \in idle /\ s.lease[x] = "self" THEN "none"
                                          ELSE s.lease[x]
  BY DEF ReconcileLease, Manager
<1> HIDE DEF t
<1>2. Live(t) = Live(s) /\ \A x : OfSession(t, x) = OfSession(s, x)
  BY <1>1 DEF Live, OfSession
<1>3. Backed(s) => Backed(t)
  BY <1>1, <1>2 DEF Backed
<1>4. CalmBut(s, X) => Calm(t)
  <2> SUFFICES ASSUME CalmBut(s, X) PROVE Calm(t)
    OBVIOUS
  <2>1. /\ \A x \in Sessions : Cardinality(t.counted \cap OfSession(t, x)) <= t.work[x]
        /\ \A r \in Live(t) \ t.aborted : ~Heartbeat(t.input[r]) => r \in t.counted
    BY <1>1, <1>2 DEF CalmBut
  <2>2. \A x \in Sessions : s.lease[x] \in {"none", "self"}
    BY DEF CalmBut, Manager
  <2>3. \A x \in Sessions : t.lease[x] # "other" /\ (t.work[x] > 0 => t.lease[x] = "self")
    BY <1>1, <2>2 DEF CalmBut
  <2>4. \A x \in t.leaseTimers : t.lease[x] = "self"
    BY <1>1, <2>2 DEF CalmBut, Manager
  <2> QED BY <2>1, <2>3, <2>4 DEF Calm
<1> QED BY <1>3, <1>4 DEF t

LEMMA ReconcileLeaseReaches ==
  ASSUME NEW s \in Manager, Sound(s), NEW X \in SUBSET Sessions
  PROVE  Reaches(s, ReconcileLease(s, X))
<1> DEFINE t == ReconcileLease(s, X)
<1>1. SameRuns(s, t) /\ t.drainTimers = s.drainTimers /\ t.aged = s.aged
  BY DEF SameRuns, ReconcileLease, Manager, Sound, Filed
<1>2. Changes(s, t)
  BY <1>1, ReconcileLeaseType, SameRunsChanges
<1>3. (Backed(s) => Backed(t)) /\ (Calm(s) => Calm(t))
  <2>1. Calm(s) => CalmBut(s, X)
    BY DEF Calm, CalmBut
  <2> QED BY <2>1, ReconcileLeaseBalances
<1> HIDE DEF t
<1>4. Balances(s, t)
  BY <1>1, <1>3, NothingStarts DEF Balances, SameRuns
<1>5. Serves(s, t)
  BY <1>1, NothingStranded DEF SameRuns
<1> QED BY <1>2, <1>4, <1>5 DEF Reaches, t

\* Clearing retry timers leaves the runs and the books alone.
LEMMA DisarmChanges ==
  ASSUME NEW s \in Manager, Sound(s), NEW K
  PROVE  LET t == [s EXCEPT !.drainTimers = s.drainTimers \ K]
         IN /\ Changes(s, t) /\ Balances(s, t) /\ t.drainTimers = s.drainTimers \ K
            /\ t.aged = s.aged /\ t.queued = s.queued /\ t.executing = s.executing /\ t.input = s.input
<1> DEFINE t == [s EXCEPT !.drainTimers = s.drainTimers \ K]
<1>1. /\ SameRuns(s, t) /\ SameBooks(s, t) /\ t.drainTimers = s.drainTimers \ K
      /\ t.aged = s.aged /\ t.queued = s.queued /\ t.executing = s.executing /\ t.input = s.input
  BY DEF SameRuns, SameBooks, Manager, Sound, Filed, Live
<1>2. t \in Manager
  BY DisarmType
<1> HIDE DEF t
<1>3. Changes(s, t)
  BY <1>1, <1>2, SameRunsChanges
<1>4. Balances(s, t)
  BY <1>1, SameBooksBalance, NothingStarts DEF Balances
<1> QED BY <1>1, <1>3, <1>4 DEF t

\* Queued entries may leave their queues with a failed or cancelled verdict.
LEMMA DequeueChanges ==
  ASSUME NEW s \in Manager, Sound(s), NEW R \in SUBSET s.queued, NEW v \in {"failed", "cancelled"}
  PROVE  LET t == Dequeue(s, R, v)
         IN /\ Changes(s, t)
            /\ t.lastRun = s.lastRun /\ t.input = s.input /\ t.executing = s.executing
            /\ t.counted = s.counted /\ t.work = s.work /\ t.lease = s.lease /\ t.aborted = s.aborted
            /\ t.leaseTimers = s.leaseTimers /\ t.drainTimers = s.drainTimers /\ t.running = s.running
            /\ t.queued = s.queued \ R /\ t.aged = s.aged \ R
            /\ \A r \in R : t.status[r] = v
<1> DEFINE t == Dequeue(s, R, v)
<1>1. t \in Manager
  <2>1. R \in SUBSET Runs /\ v \in Statuses
    BY DEF Manager, Statuses
  <2> QED BY <2>1, DequeueType
<1>2. /\ t.lastRun = s.lastRun /\ t.input = s.input /\ t.queued = s.queued \ R
      /\ t.executing = s.executing /\ t.aborted = s.aborted
      /\ t.unsettled = s.unsettled \ R /\ t.running = s.running
      /\ \A r \in Runs : t.status[r] = IF r \in R THEN v ELSE s.status[r]
  BY DEF Dequeue, Manager, Mark
<1>3. /\ \A r \in Runs : t.ledger[r] = IF r \in R THEN v ELSE s.ledger[r]
      /\ t.aged = s.aged \ R /\ t.place = s.place /\ t.recoveredFrom = s.recoveredFrom
      /\ t.counted = s.counted /\ t.work = s.work /\ t.lease = s.lease
      /\ t.leaseTimers = s.leaseTimers /\ t.drainTimers = s.drainTimers
  BY DEF Dequeue, Manager, Mark
<1>4. R \in SUBSET Runs /\ R \cap s.executing = {} /\ \A r \in s.queued : Open(s, r) /\ r \in Runs
  BY DEF Sound, Filed, Open, Manager
<1> HIDE DEF t
<1>5. Sound(t)
  <2>1. \A r \in Runs : StatusFits(t, r)
    BY <1>2, <1>3 DEF Sound, StatusFits, Terminal, Manager
  <2>2. Filed(t)
    BY <1>2, <1>3, <1>4 DEF Sound, Filed, SameClass
  <2> QED BY <1>2, <2>1, <2>2 DEF Sound, HoldsItsLane
<1>6. Evolves(s, t)
  BY <1>2 DEF Evolves, Sound, Manager
<1>7. Keeps(s, t)
  BY <1>2, <1>3, <1>4 DEF Keeps, Sound, Born, Live, Open, Manager
<1> QED BY <1>1, <1>2, <1>3, <1>4, <1>5, <1>6, <1>7 DEF Changes, t

\* Their counts go with them.
LEMMA CutReaches ==
  ASSUME NEW s \in Manager, Sound(s), NEW R \in SUBSET s.queued, NEW v \in {"failed", "cancelled"}
  PROVE  LET t == DecrementWork(Dequeue(s, R, v), R)
         IN /\ Reaches(s, t) /\ t.drainTimers = s.drainTimers /\ t.queued = s.queued \ R
            /\ t.executing = s.executing /\ \A r \in R : t.status[r] = v
<1> DEFINE u == Dequeue(s, R, v)
           t == DecrementWork(u, R)
<1>1. /\ Changes(s, u)
      /\ u.lastRun = s.lastRun /\ u.input = s.input /\ u.executing = s.executing
      /\ u.counted = s.counted /\ u.work = s.work /\ u.lease = s.lease /\ u.aborted = s.aborted
      /\ u.leaseTimers = s.leaseTimers /\ u.drainTimers = s.drainTimers
      /\ u.queued = s.queued \ R /\ u.aged = s.aged \ R
      /\ \A r \in R : u.status[r] = v
  BY DequeueChanges
<1>2. u \in Manager /\ Sound(u) /\ R \in SUBSET Runs /\ R \cap s.executing = {}
  BY <1>1 DEF Changes, Manager, Sound
<1> HIDE DEF u
<1>3. Changes(u, t) /\ t.executing = u.executing /\ t.drainTimers = u.drainTimers /\ t.aged = u.aged
  BY <1>2, DecrementWorkChanges
<1>4. Changes(s, t)
  BY <1>1, <1>3, ChangesTransitive
<1>5. (Backed(s) => Backed(t)) /\ (Calm(s) => Calm(t))
  <2>1. /\ Live(u) \subseteq Live(s) /\ Live(s) \subseteq Live(u) \cup R /\ s.aborted \subseteq u.aborted
        /\ R \cap Live(u) \subseteq u.aborted
    BY <1>1, <1>2 DEF Live
  <2> QED BY <1>1, <1>2, <2>1, UncountBalances
<1>6. t.queued = u.queued /\ t.status = u.status
  BY <1>2 DEF DecrementWork, Manager
<1> HIDE DEF t
<1>7. Balances(s, t)
  BY <1>1, <1>3, <1>5, NothingStarts DEF Balances
<1>8. Serves(s, t)
  BY <1>1, <1>3, <1>4, NothingStranded DEF Changes, Evolves
<1> QED BY <1>1, <1>3, <1>4, <1>6, <1>7, <1>8 DEF Reaches, t, u

\* Heartbeats need no uncounting.
LEMMA DequeueHeartbeatsReaches ==
  ASSUME NEW s \in Manager, Sound(s), NEW R \in SUBSET s.queued, \A r \in R : Heartbeat(s.input[r])
  PROVE  Reaches(s, Dequeue(s, R, "cancelled")) /\ Dequeue(s, R, "cancelled").executing = s.executing
<1> DEFINE t == Dequeue(s, R, "cancelled")
<1>1. /\ Changes(s, t)
      /\ t.lastRun = s.lastRun /\ t.input = s.input /\ t.executing = s.executing
      /\ t.counted = s.counted /\ t.work = s.work /\ t.lease = s.lease /\ t.aborted = s.aborted
      /\ t.leaseTimers = s.leaseTimers /\ t.drainTimers = s.drainTimers
      /\ t.queued = s.queued \ R /\ t.aged = s.aged \ R
  BY DequeueChanges
<1> HIDE DEF t
<1>2. s.counted \cap R = {}
  BY DEF Sound, Filed
<1>3. SameBooks(s, t)
  BY <1>1, <1>2 DEF SameBooks, Live
<1>4. Reaches(s, t)
  BY <1>1, <1>3, QuietReaches
<1> QED BY <1>1, <1>4 DEF t

\* Executing runs may be aborted: they stay executing, recorded cancelled.
LEMMA AbortReaches ==
  ASSUME NEW s \in Manager, Sound(s), NEW R \in SUBSET s.executing
  PROVE  Reaches(s, AbortRuntime(s, R))
<1> DEFINE t == AbortRuntime(s, R)
<1>1. t \in Manager
  BY AbortRuntimeType DEF Manager
<1>2. /\ t.lastRun = s.lastRun /\ t.input = s.input /\ t.queued = s.queued
      /\ t.executing = s.executing /\ t.aborted = s.aborted \cup R
      /\ t.unsettled = s.unsettled /\ t.running = s.running
      /\ \A r \in Runs : t.status[r] = IF r \in R THEN "cancelled" ELSE s.status[r]
  BY DEF AbortRuntime, Manager, Mark
<1>3. /\ \A r \in Runs : t.ledger[r] = s.ledger[r] \/ (t.ledger[r] = "cancelled" /\ r \in R)
      /\ t.aged = s.aged /\ t.place = s.place /\ t.recoveredFrom = s.recoveredFrom
      /\ t.counted = s.counted /\ t.work = s.work /\ t.lease = s.lease
      /\ t.leaseTimers = s.leaseTimers /\ t.drainTimers = s.drainTimers
  BY DEF AbortRuntime, Manager, Mark
<1>4. R \cap s.queued = {} /\ s.queued \in SUBSET Runs
  BY DEF Sound, Manager
<1> HIDE DEF t
<1>5. Sound(t)
  <2>1. \A r \in Runs : StatusFits(t, r)
    BY <1>2, <1>3 DEF Sound, StatusFits, Manager
  <2>2. Filed(t)
    BY <1>2, <1>3, <1>4 DEF Sound, Filed, SameClass
  <2> QED BY <1>2, <2>1, <2>2 DEF Sound, HoldsItsLane
<1>6. Evolves(s, t)
  BY <1>2 DEF Evolves, Sound, Manager
<1>7. Keeps(s, t)
  BY <1>2, <1>3 DEF Keeps, Sound, Born, Live, Open, Manager
<1>8. SameBooks(s, t)
  BY <1>2, <1>3 DEF SameBooks, Live
<1>9. Reaches(s, t)
  BY <1>1, <1>2, <1>3, <1>5, <1>6, <1>7, <1>8, QuietReaches DEF Changes
<1> QED BY <1>9 DEF t

\* An aborted entry may be forgotten by its lane; this is where the serial lock goes.
LEMMA EvictReaches ==
  ASSUME NEW s \in Manager, Sound(s), NEW R \in SUBSET s.aborted
  PROVE  Reaches(s, Evict(s, R)) /\ Evict(s, R).aborted = s.aborted
<1> DEFINE t == Evict(s, R)
<1>1. t \in Manager
  BY EvictType
<1>2. /\ t.lastRun = s.lastRun /\ t.input = s.input /\ t.status = s.status
      /\ t.ledger = s.ledger /\ t.queued = s.queued /\ t.executing = s.executing /\ t.aborted = s.aborted
      /\ t.unsettled = s.unsettled
      /\ \A k \in Lanes : t.running[k] = IF s.running[k] \in R THEN NoRun ELSE s.running[k]
  BY DEF Evict, Manager
<1>3. /\ t.aged = s.aged /\ t.place = s.place /\ t.recoveredFrom = s.recoveredFrom
      /\ t.counted = s.counted /\ t.work = s.work /\ t.lease = s.lease
      /\ t.leaseTimers = s.leaseTimers /\ t.drainTimers = s.drainTimers
  BY DEF Evict, Manager
<1> HIDE DEF t
<1>4. Sound(t)
  <2>1. \A r \in Runs : StatusFits(t, r)
    BY <1>2 DEF Sound, StatusFits
  <2>2. \A r \in s.executing : s.input[r].lane \in Lanes
    BY LiveInput
  <2>3. \A r \in t.executing : HoldsItsLane(t, r)
    BY <1>2, <2>2 DEF Sound, HoldsItsLane
  <2>4. Filed(t)
    BY <1>2, <1>3 DEF Sound, Filed, SameClass
  <2> QED BY <1>2, <2>1, <2>3, <2>4 DEF Sound
<1>5. Evolves(s, t)
  BY <1>2 DEF Evolves
<1>6. Keeps(s, t)
  BY <1>2, <1>3 DEF Keeps, Sound, Born, Live, Open, Manager
<1>7. SameBooks(s, t)
  BY <1>2, <1>3 DEF SameBooks, Live
<1>8. Reaches(s, t)
  BY <1>1, <1>2, <1>3, <1>4, <1>5, <1>6, <1>7, QuietReaches DEF Changes
<1> QED BY <1>2, <1>8 DEF t

\* What the running map holds is executing.
LEMMA RunningExecutes ==
  ASSUME NEW s \in Manager, Sound(s)
  PROVE  RunningRuns(s) \in SUBSET s.executing
  BY DEF RunningRuns, Sound

\* What a drain does to the state, and which entries it begins.
LEMMA DrainMoves ==
  ASSUME NEW s \in Manager, NEW K \in SUBSET Lanes
  PROVE  LET t == Drain(s, K)
             start == StartingLanes(s, K)
             began == {NextEntry(s, k) : k \in start}
         IN /\ start \in SUBSET Lanes /\ \A k \in start : s.running[k] = NoRun /\ ~Blocked(s, NextEntry(s, k))
            /\ \A k \in start : NextEntry(s, k) \in Queue(s, k)
            /\ t.lastRun = s.lastRun /\ t.input = s.input /\ t.queued = s.queued \ began
            /\ t.executing = s.executing \cup began /\ t.aborted = s.aborted
            /\ t.unsettled = s.unsettled
            /\ \A k \in Lanes : t.running[k] = IF k \in start THEN NextEntry(s, k) ELSE s.running[k]
            /\ \A r \in Runs : t.status[r] = IF r \in began THEN "running" ELSE s.status[r]
            /\ \A r \in Runs : t.ledger[r] = IF r \in began THEN "running" ELSE s.ledger[r]
            /\ t.aged = s.aged \ began /\ t.recoveredFrom = s.recoveredFrom
            /\ t.counted = s.counted /\ t.work = s.work /\ t.lease = s.lease /\ t.leaseTimers = s.leaseTimers
            /\ t.drainTimers = (s.drainTimers \ IdleLanes(s, K)) \cup BlockedLanes(s, K)
<1> DEFINE t == Drain(s, K)
           start == StartingLanes(s, K)
           began == {NextEntry(s, k) : k \in start}
<1>1. /\ start \in SUBSET Lanes /\ \A k \in start : s.running[k] = NoRun /\ ~Blocked(s, NextEntry(s, k))
      /\ \A k \in start : NextEntry(s, k) \in Queue(s, k)
  BY NextEntryQueued DEF StartingLanes, IdleLanes
<1>2. /\ t.lastRun = s.lastRun /\ t.input = s.input /\ t.queued = s.queued \ began
      /\ t.executing = s.executing \cup began /\ t.aborted = s.aborted
      /\ t.unsettled = s.unsettled
      /\ \A k \in Lanes : t.running[k] = IF k \in start THEN NextEntry(s, k) ELSE s.running[k]
      /\ \A r \in Runs : t.status[r] = IF r \in began THEN "running" ELSE s.status[r]
      /\ \A r \in Runs : t.ledger[r] = IF r \in began THEN "running" ELSE s.ledger[r]
  BY DEF Drain, Manager, Mark
<1>3. /\ t.aged = s.aged \ began /\ t.recoveredFrom = s.recoveredFrom
      /\ t.counted = s.counted /\ t.work = s.work /\ t.lease = s.lease /\ t.leaseTimers = s.leaseTimers
      /\ t.drainTimers = (s.drainTimers \ IdleLanes(s, K)) \cup BlockedLanes(s, K)
  BY DEF Drain, Manager
<1> HIDE DEF t, start, began
<1> QED BY <1>1, <1>2, <1>3 DEF t, start, began

\* The entry a drain takes is older than those of its class that wait behind it.
LEMMA DrainInOrder ==
  ASSUME NEW s \in Manager, Sound(s), NEW k, NEW q \in Queue(s, k), q # NextEntry(s, k),
         SameClass(s, NextEntry(s, k), q)
  PROVE  NextEntry(s, k) < q
<1> DEFINE n == NextEntry(s, k)
<1>1. n \in Queue(s, k) /\ s.place[n] <= s.place[q]
  BY NextEntryQueued, NextEntryFirst DEF SameClass
<1> HIDE DEF n
<1>2. n \in s.queued /\ q \in s.queued /\ n \in Runs /\ q \in Runs
  BY <1>1, QueueLane
<1>3. n \in Int /\ q \in Int
  BY <1>2 DEF Runs
<1>4. s.place[n] \in Int /\ s.place[q] \in Int
  BY <1>2 DEF Manager
<1>5. q < n => s.place[q] < s.place[n]
  BY <1>2 DEF Sound, Filed, SameClass, n
<1>6. q # n
  BY DEF n
<1> QED BY <1>1, <1>3, <1>4, <1>5, <1>6 DEF n

\* An entry put back at the head of its queue moves forward only.
LEMMA DrainPlaces ==
  ASSUME NEW s \in Manager, Sound(s), NEW K \in SUBSET Lanes, NEW r \in s.queued
  PROVE  /\ Drain(s, K).place[r] <= s.place[r] /\ Drain(s, K).place[r] \in Int
         /\ Drain(s, K).place[r] = s.place[r] \/ r = NextEntry(s, s.input[r].lane)
<1> DEFINE wait == BlockedLanes(s, K)
           lane == CHOOSE k \in wait : r = NextEntry(s, k)
           t == Drain(s, K)
<1>1. r \in Runs /\ s.place[r] \in Int
  BY DEF Manager
<1>2. t.place[r] = IF \E k \in wait : r = NextEntry(s, k) THEN PutBack(s, lane) ELSE s.place[r]
  BY <1>1 DEF Drain, Manager
<1> HIDE DEF t
<1>3. CASE \E k \in wait : r = NextEntry(s, k)
  <2>1. lane \in wait /\ r = NextEntry(s, lane)
    BY <1>3
  <2> HIDE DEF lane
  <2>2. Queue(s, lane) # {} /\ Queue(s, lane) \in SUBSET Runs
    BY <2>1, QueueType DEF BlockedLanes
  <2>3. r \in Queue(s, lane)
    BY <2>1, <2>2, NextEntryQueued
  <2> DEFINE head == First(s, Queue(s, lane))
  <2>4. s.input[r].lane = lane /\ head \in Runs /\ s.place[head] <= s.place[r]
    BY <2>2, <2>3, QueueLane, FirstInSet
  <2>5. s.place[head] \in Int
    BY <2>4 DEF Manager
  <2>6. PutBack(s, lane) = IF r = head THEN s.place[head] ELSE s.place[head] - 1
    BY <2>1 DEF PutBack
  <2> HIDE DEF head
  <2> QED BY <1>1, <1>2, <1>3, <2>1, <2>4, <2>5, <2>6 DEF t, lane
<1>4. CASE ~\E k \in wait : r = NextEntry(s, k)
  BY <1>1, <1>2, <1>4 DEF t
<1> QED BY <1>3, <1>4

\* A drained lane runs, waits with its timer armed, or is empty; the others are
\* as before.
LEMMA DrainServes ==
  ASSUME NEW s \in Manager, Sound(s), NEW K \in SUBSET Lanes, NEW k \in Lanes, Stranded(Drain(s, K), k)
  PROVE  k \notin K /\ Stranded(s, k)
<1> DEFINE t == Drain(s, K)
           start == StartingLanes(s, K)
           began == {NextEntry(s, l) : l \in start}
<1>1. /\ \A l \in start : NextEntry(s, l) \in Queue(s, l)
      /\ t.input = s.input /\ t.queued = s.queued \ began /\ t.executing = s.executing \cup began
      /\ t.drainTimers = (s.drainTimers \ IdleLanes(s, K)) \cup BlockedLanes(s, K)
  BY DrainMoves
<1> HIDE DEF t
<1>2. Queue(t, k) \subseteq Queue(s, k) /\ OfLane(t, k) = OfLane(s, k)
  BY <1>1 DEF Queue, OfLane
<1>3. Queue(t, k) # {} /\ k \notin t.drainTimers /\ t.executing \cap OfLane(t, k) = {}
  BY DEF Stranded, t
<1>4. k \notin K
  <2> SUFFICES ASSUME k \in K PROVE FALSE
    OBVIOUS
  <2>1. CASE s.running[k] # NoRun
    <3>1. s.running[k] \in s.executing /\ s.running[k] \in OfLane(s, k)
      <4>1. s.running[k] \in s.executing /\ s.input[s.running[k]].lane = k
        BY <2>1 DEF Sound
      <4>2. s.running[k] \in Runs /\ s.input[s.running[k]] # NoInput
        BY <4>1, LiveBorn DEF Sound, Born
      <4> QED BY <4>1, <4>2 DEF OfLane
    <3> QED BY <1>1, <1>2, <1>3, <3>1
  <2>2. CASE s.running[k] = NoRun /\ Blocked(s, NextEntry(s, k))
    BY <1>1, <1>2, <1>3, <2>2 DEF IdleLanes, BlockedLanes
  <2>3. CASE s.running[k] = NoRun /\ ~Blocked(s, NextEntry(s, k))
    <3>1. k \in start
      BY <1>2, <1>3, <2>3 DEF IdleLanes, StartingLanes
    <3>2. NextEntry(s, k) \in t.executing \cap OfLane(t, k)
      BY <1>1, <1>2, <3>1 DEF Queue
    <3> QED BY <1>3, <3>2
  <2> QED BY <2>1, <2>2, <2>3
<1>5. Stranded(s, k)
  BY <1>1, <1>2, <1>3, <1>4 DEF Stranded, IdleLanes
<1> QED BY <1>4, <1>5

\* A drain starts a heartbeat only if nobody holds its session's lease.
LEMMA DrainYields ==
  ASSUME NEW s \in Manager, Sound(s), NEW K \in SUBSET Lanes
  PROVE  Yields(s, Drain(s, K))
<1> DEFINE t == Drain(s, K)
           start == StartingLanes(s, K)
           began == {NextEntry(s, l) : l \in start}
<1>1. /\ \A l \in start : NextEntry(s, l) \in Queue(s, l) /\ ~Blocked(s, NextEntry(s, l))
      /\ t.input = s.input /\ t.queued = s.queued \ began /\ t.executing = s.executing \cup began
      /\ t.aborted = s.aborted
  BY DrainMoves
<1> HIDE DEF t
<1>2. Live(t) \subseteq Live(s)
  BY <1>1, QueueLane DEF Live
<1> SUFFICES ASSUME Calm(s), NEW r \in t.executing \ (s.executing \cup t.aborted), Heartbeat(t.input[r]),
                    NEW q \in (Live(t) \ t.aborted) \cap Born(s), t.input[q].session = t.input[r].session,
                    ~Heartbeat(t.input[q])
             PROVE  FALSE
  BY DEF Yields, t
<1>3. r \in s.queued /\ ~Blocked(s, r)
  BY <1>1, QueueLane
<1> DEFINE x == s.input[r].session
<1>4. x \in Sessions /\ s.lease[x] = "none"
  BY <1>1, <1>3, LiveInput DEF Blocked
<1> HIDE DEF x
<1>5. s.work[x] \in Nat /\ ~(s.work[x] > 0)
  BY <1>4 DEF Calm, Manager
<1>6. q \in s.counted /\ q \in OfSession(s, x) /\ s.counted \cap OfSession(s, x) \in SUBSET Runs
  <2>1. q \in s.counted
    BY <1>1, <1>2 DEF Calm
  <2>2. q \in Runs /\ s.input[q] # NoInput /\ s.input[q].session = x
    BY <1>1, <1>2, LiveBorn DEF Born, Sound, x
  <2> QED BY <2>1, <2>2 DEF OfSession, Manager
<1> DEFINE A == s.counted \cap OfSession(s, x)
<1>7. Cardinality(A) \in Nat /\ Cardinality(A) # 0
  <2>1. IsFiniteSet(A) /\ A # {}
    BY <1>6, RunsFinite, FS_Subset
  <2> HIDE DEF A
  <2> QED BY <2>1, FS_CardinalityType, FS_EmptySet
<1>8. Cardinality(A) <= s.work[x]
  BY <1>4 DEF Calm
<1> HIDE DEF A
<1> QED BY <1>5, <1>7, <1>8

\* A drain starts only queued entries of lanes that had nothing running.
LEMMA DrainReaches ==
  ASSUME NEW s \in Manager, Sound(s), NEW K \in SUBSET Lanes
  PROVE  Reaches(s, Drain(s, K))
<1> DEFINE t == Drain(s, K)
           start == StartingLanes(s, K)
           began == {NextEntry(s, k) : k \in start}
<1>1. t \in Manager
  BY DrainType
<1>2. /\ start \in SUBSET Lanes /\ \A k \in start : s.running[k] = NoRun
      /\ \A k \in start : NextEntry(s, k) \in Queue(s, k)
      /\ \A k \in start : /\ NextEntry(s, k) \in s.queued /\ NextEntry(s, k) \in Runs
                          /\ s.input[NextEntry(s, k)].lane = k
  BY DrainMoves, QueueLane
<1>3. /\ t.lastRun = s.lastRun /\ t.input = s.input /\ t.queued = s.queued \ began
      /\ t.executing = s.executing \cup began /\ t.aborted = s.aborted
      /\ t.unsettled = s.unsettled
      /\ \A k \in Lanes : t.running[k] = IF k \in start THEN NextEntry(s, k) ELSE s.running[k]
      /\ \A r \in Runs : t.status[r] = IF r \in began THEN "running" ELSE s.status[r]
      /\ \A r \in Runs : t.ledger[r] = IF r \in began THEN "running" ELSE s.ledger[r]
  BY DrainMoves
<1>4. /\ t.aged = s.aged \ began /\ t.recoveredFrom = s.recoveredFrom
      /\ t.counted = s.counted /\ t.work = s.work /\ t.lease = s.lease /\ t.leaseTimers = s.leaseTimers
  BY DrainMoves
<1>5. began \in SUBSET s.queued
  BY <1>2
<1>6. \A r \in s.queued : /\ r \in Runs /\ t.place[r] <= s.place[r] /\ t.place[r] \in Int /\ s.place[r] \in Int
                          /\ t.place[r] = s.place[r] \/ r = NextEntry(s, s.input[r].lane)
  BY DrainPlaces DEF Manager
<1> HIDE DEF t, start
<1>7. \A r \in s.queued \ t.queued : \A q \in t.queued : SameClass(s, r, q) => r < q
  <2> SUFFICES ASSUME NEW k \in start, NEW q \in t.queued, SameClass(s, NextEntry(s, k), q)
               PROVE  NextEntry(s, k) < q
    BY <1>3
  <2>1. q \in s.queued /\ q # NextEntry(s, k)
    BY <1>3
  <2>2. q \in Queue(s, k)
    <3>1. q \in Runs /\ s.input[q] # NoInput
      BY <2>1, LiveBorn DEF Sound, Born
    <3> QED BY <1>2, <2>1, <3>1 DEF Queue, OfLane, SameClass
  <2> QED BY <2>1, <2>2, DrainInOrder
<1>8. Filed(t)
  <2>1. t.aged \subseteq t.queued /\ \A r \in t.counted : r <= t.lastRun /\ ~Heartbeat(t.input[r])
    BY <1>3, <1>4 DEF Sound, Filed
  <2>2. \A r \in Runs : r > t.lastRun => t.recoveredFrom[r] = NoRun
    BY <1>3, <1>4 DEF Sound, Filed
  <2>3. \A r \in t.queued : t.ledger[r] = "queued" /\ t.place[r] <= r
    <3>1. \A r \in t.queued : r \in s.queued /\ s.place[r] <= r /\ r \in Int /\ t.ledger[r] = "queued"
      BY <1>3, <1>6 DEF Sound, Filed, Runs
    <3> QED BY <1>6, <3>1
  <2>4. ASSUME NEW r \in t.queued, NEW q \in t.queued, r < q, SameClass(t, r, q)
        PROVE  t.place[r] < t.place[q]
    <3>1. r \in s.queued /\ q \in s.queued /\ SameClass(s, r, q) /\ r \in Int /\ q \in Int
      BY <1>3, <1>6, <2>4 DEF SameClass, Runs
    <3>2. s.place[r] < s.place[q]
      BY <2>4, <3>1 DEF Sound, Filed
    <3>3. q # NextEntry(s, s.input[q].lane)
      <4> SUFFICES ASSUME q = NextEntry(s, s.input[q].lane) PROVE FALSE
        OBVIOUS
      <4> DEFINE k == s.input[q].lane
      <4>1. r \in Runs /\ s.input[r] # NoInput /\ s.input[r].lane = k
        BY <3>1, LiveBorn DEF Sound, Born, SameClass
      <4>2. r \in Queue(s, k) /\ r # NextEntry(s, k)
        BY <2>4, <3>1, <4>1 DEF Queue, OfLane
      <4>3. SameClass(s, NextEntry(s, k), r)
        BY <3>1 DEF SameClass
      <4>4. q < r
        BY <4>2, <4>3, DrainInOrder
      <4> QED BY <2>4, <3>1, <4>4
    <3> QED BY <1>6, <3>1, <3>2, <3>3
  <2> QED BY <2>1, <2>2, <2>3, <2>4 DEF Filed
<1>9. Sound(t)
  <2> DEFINE b == began
  <2>1. \A r \in Runs : StatusFits(t, r)
    <3> HIDE DEF b
    <3> QED BY <1>3, <1>5 DEF Sound, StatusFits, b
  <2>2. \A r \in s.executing : s.input[r].lane \in Lanes
    BY LiveInput
  <2>3. \A r \in t.executing : HoldsItsLane(t, r)
    <3> SUFFICES ASSUME NEW r \in t.executing PROVE HoldsItsLane(t, r)
      OBVIOUS
    <3>1. CASE r \in began
      BY <1>2, <1>3, <3>1 DEF HoldsItsLane
    <3>2. CASE r \in s.executing
      <4>1. CASE \E q \in s.aborted : s.input[q].lane = s.input[r].lane
        BY <1>3, <4>1 DEF HoldsItsLane
      <4>2. CASE s.running[s.input[r].lane] = r
        <5>1. s.input[r].lane \notin start
          BY <1>2, <3>2, <4>2 DEF Manager, Runs, NoRun
        <5> QED BY <1>3, <2>2, <3>2, <4>2, <5>1 DEF HoldsItsLane
      <4> QED BY <3>2, <4>1, <4>2 DEF Sound, HoldsItsLane
    <3> QED BY <1>3, <3>1, <3>2
  <2>4. \A k \in Lanes : t.running[k] # NoRun =>
          t.running[k] \in t.executing /\ t.input[t.running[k]].lane = k
    BY <1>2, <1>3 DEF Sound
  <2> QED BY <1>3, <1>5, <1>8, <2>1, <2>3, <2>4 DEF Sound
<1>10. Live(t) = Live(s)
  BY <1>3, <1>5 DEF Live
<1>11. Balances(s, t)
  <2>1. SameBooks(s, t)
    BY <1>3, <1>4, <1>10 DEF SameBooks
  <2> QED BY <2>1, SameBooksBalance, DrainYields DEF Balances, t
<1>12. Serves(s, t)
  BY <1>4, DrainServes DEF Serves, Strands, t
<1> HIDE DEF began
<1>13. Evolves(s, t)
  BY <1>3, <1>5 DEF Evolves, Sound, Manager
<1>14. Keeps(s, t)
  <2>1. \A r \in s.queued : Open(s, r) /\ r \in Runs
    BY <1>6 DEF Sound, Filed, Open
  <2>2. \A r, q \in s.queued : r \in t.executing /\ q \in t.queued /\ SameClass(s, r, q) => r < q
    BY <1>3, <1>5, <1>7 DEF Sound
  <2> QED BY <1>3, <1>4, <1>5, <1>10, <2>1, <2>2 DEF Keeps, Born, Live, Open, Manager
<1> QED BY <1>1, <1>9, <1>11, <1>12, <1>13, <1>14 DEF Reaches, Changes, t

\* Cancelling queued entries.
LEMMA CancelQueuedReaches ==
  ASSUME NEW s \in Manager, Sound(s), NEW R \in SUBSET s.queued
  PROVE  Reaches(s, CancelQueued(s, R))
  BY CutReaches DEF CancelQueued

\* cancelPendingForSession cancels a session's queue and reconciles its lease.
LEMMA CancelPendingReaches ==
  ASSUME NEW s \in Manager, Sound(s), NEW x \in Sessions
  PROVE  Reaches(s, CancelPendingForSession(s, x))
<1> DEFINE t == CancelQueued(s, s.queued \cap OfSession(s, x))
<1>1. Reaches(s, t)
  BY CancelQueuedReaches
<1> HIDE DEF t
<1>2. {x} \in SUBSET Sessions
  OBVIOUS
<1>3. Reaches(t, ReconcileLease(t, {x}))
  BY <1>1, <1>2, ReconcileLeaseReaches DEF Reaches, Changes
<1>4. CancelPendingForSession(s, x) = ReconcileLease(t, {x})
  BY Zenon DEF CancelPendingForSession, t
<1> QED BY <1>1, <1>3, <1>4, ReachesTransitive

\* Raising the abort signal of live runs.
LEMMA SignalReaches ==
  ASSUME NEW s \in Manager, Sound(s), NEW R \in SUBSET (s.queued \cup s.executing)
  PROVE  Reaches(s, [s EXCEPT !.aborted = s.aborted \cup R])
<1> DEFINE A == s.aborted \cup R
           t == [s EXCEPT !.aborted = A]
<1>1. A \in SUBSET Runs
  BY DEF Manager
<1>2. /\ t.lastRun = s.lastRun /\ t.input = s.input /\ t.status = s.status
      /\ t.ledger = s.ledger /\ t.queued = s.queued /\ t.executing = s.executing
      /\ t.aborted = A /\ t.unsettled = s.unsettled /\ t.running = s.running
  BY DEF Manager
<1>3. /\ t.aged = s.aged /\ t.place = s.place /\ t.recoveredFrom = s.recoveredFrom
      /\ t.counted = s.counted /\ t.work = s.work /\ t.lease = s.lease
      /\ t.leaseTimers = s.leaseTimers /\ t.drainTimers = s.drainTimers
  BY DEF Manager
<1>4. t \in Manager
  <2> HIDE DEF A
  <2> QED BY <1>1, ZenonT(60) DEF Manager
<1> HIDE DEF t
<1>5. Sound(t)
  <2>1. \A r \in Runs : StatusFits(t, r)
    BY <1>2 DEF Sound, StatusFits, Manager
  <2>2. \A r \in t.executing : HoldsItsLane(t, r)
    BY <1>2 DEF Sound, HoldsItsLane
  <2> HIDE DEF A
  <2>3. Filed(t)
    BY <1>2, <1>3 DEF Sound, Filed, SameClass
  <2> QED BY <1>2, <2>1, <2>2, <2>3 DEF Sound
<1>6. Evolves(s, t)
  BY <1>2 DEF Evolves, Sound, Manager
<1>7. Keeps(s, t)
  BY <1>2, <1>3 DEF Keeps, Sound, Born, Live, Open, Manager
<1>8. SameBooks(s, t)
  BY <1>2, <1>3 DEF SameBooks, Live
<1>9. Reaches(s, t)
  BY <1>2, <1>3, <1>4, <1>5, <1>6, <1>7, <1>8, QuietReaches DEF Changes
<1> QED BY <1>9 DEF t

\* A steering request signals the running turn and cancels what is pending.
LEMMA SteerReaches ==
  ASSUME NEW s \in Manager, Sound(s), NEW in \in InputType
  PROVE  Reaches(s, Steer(s, in))
<1> DEFINE current == {s.running[in.lane]} \cap OfSession(s, in.session)
           t == [s EXCEPT !.aborted = s.aborted \cup current]
<1>1. current \in SUBSET s.executing /\ in.session \in Sessions
  BY DEF OfSession, InputType, Sound, Runs, NoRun
<1> HIDE DEF current
<1>2. Reaches(s, t)
  BY <1>1, SignalReaches
<1> HIDE DEF t
<1>3. Reaches(t, CancelPendingForSession(t, in.session))
  BY <1>1, <1>2, CancelPendingReaches DEF Reaches, Changes
<1>4. Steer(s, in) = CancelPendingForSession(t, in.session)
  BY Zenon DEF Steer, t, current
<1> QED BY <1>2, <1>3, <1>4, ReachesTransitive

\* Aborting running turns and forgetting their entries.
LEMMA AbortAndEvictReaches ==
  ASSUME NEW s \in Manager, Sound(s), NEW R \in SUBSET s.executing
  PROVE  /\ Reaches(s, Evict(AbortRuntime(s, R), R))
         /\ R \in SUBSET Evict(AbortRuntime(s, R), R).aborted
<1> DEFINE t == AbortRuntime(s, R)
<1>1. Reaches(s, t)
  BY AbortReaches
<1>2. R \in SUBSET t.aborted
  BY DEF AbortRuntime, Manager
<1> HIDE DEF t
<1>3. Reaches(t, Evict(t, R)) /\ Evict(t, R).aborted = t.aborted
  BY <1>1, <1>2, EvictReaches DEF Reaches, Changes
<1>4. Reaches(s, Evict(t, R)) /\ R \in SUBSET Evict(t, R).aborted
  BY <1>1, <1>2, <1>3, ReachesTransitive
<1> QED BY <1>4 DEF t

\* A chat request aborts the heartbeat that runs in its lane.
LEMMA PreemptReaches ==
  ASSUME NEW s \in Manager, Sound(s), NEW in \in InputType
  PROVE  Reaches(s, Preempt(s, in))
<1> DEFINE current == {r \in {s.running[in.lane]} \ {NoRun} : Heartbeat(s.input[r])}
<1>1. current \in SUBSET s.executing
  BY DEF Sound, InputType
<1> HIDE DEF current
<1>2. Reaches(s, Evict(AbortRuntime(s, current), current))
  BY <1>1, AbortAndEvictReaches
<1> QED BY <1>2, Zenon DEF Preempt, current

\* repairSessionRunQueue fails stale entries and drains the lanes that have others:
\* the one function that can strand a lane, by failing an entry of it.
LEMMA RepairReaches ==
  ASSUME NEW s \in Manager, Sound(s), NEW x \in Sessions, NEW K \in SUBSET Lanes
  PROVE  Reaches(s, Repair(s, x, K))
<1> DEFINE mine == s.queued \cap OfSession(s, x)
           hit == {k \in IdleLanes(s, K) : Queue(s, k) \cap mine # {}}
           stale == {r \in s.aged \cap mine : s.input[r].lane \in hit}
           kicked == {k \in hit : (Queue(s, k) \cap mine) \ stale # {}}
           purged == DecrementWork(Dequeue(s, stale, "failed"), stale)
           calm == [purged EXCEPT !.drainTimers = purged.drainTimers \ hit]
           drained == Drain(calm, kicked)
<1>1. stale \in SUBSET s.queued /\ kicked \in SUBSET Lanes /\ stale \subseteq s.aged
  BY DEF IdleLanes
<1>2. \A k \in hit \ kicked : \E r \in stale : r \in OfLane(s, k)
  BY DEF Queue
<1> HIDE DEF mine, hit, stale, kicked
<1>3. Reaches(s, purged) /\ \A r \in stale : purged.status[r] = "failed"
  BY <1>1, CutReaches
<1> HIDE DEF purged
<1>4. /\ Changes(purged, calm) /\ Balances(purged, calm)
      /\ calm.drainTimers = purged.drainTimers \ hit /\ calm.aged = purged.aged
      /\ calm.queued = purged.queued /\ calm.executing = purged.executing /\ calm.input = purged.input
  BY <1>3, DisarmChanges DEF Reaches, Changes
<1> HIDE DEF calm
<1>5. calm \in Manager /\ Sound(calm) /\ purged \in Manager /\ Sound(purged)
  BY <1>3, <1>4 DEF Reaches, Changes
<1>6. Reaches(calm, drained)
  BY <1>1, <1>5, DrainReaches
<1>7. \A k \in Lanes : Stranded(drained, k) => k \notin kicked /\ Stranded(calm, k)
  BY <1>1, <1>5, DrainServes
<1> HIDE DEF drained
<1>8. Changes(purged, drained) /\ Balances(purged, drained)
  BY <1>4, <1>5, <1>6, ChangesTransitive, BalancesTransitive DEF Reaches, Changes
<1>9. Changes(s, drained) /\ Balances(s, drained)
  BY <1>3, <1>5, <1>8, ChangesTransitive, BalancesTransitive DEF Reaches, Changes
<1>10. \A r \in s.aged : purged.status[r] = "failed" => drained.status[r] = "failed"
  <2> SUFFICES ASSUME NEW r \in s.aged, purged.status[r] = "failed"
               PROVE  drained.status[r] = "failed"
    OBVIOUS
  <2>1. r \in Born(purged) /\ r \in Runs
    <3>1. Born(s) \subseteq Born(purged) /\ r \in Born(s)
      BY <1>3, LiveBorn DEF Reaches, Changes, Evolves, Born
    <3> QED BY <3>1 DEF Born
  <2>2. r \notin Live(purged)
    BY <1>5, <2>1 DEF Sound, StatusFits, Live
  <2> QED BY <1>8, <2>1, <2>2 DEF Changes, Keeps
<1>11. Serves(s, drained)
  <2>1. drained.aged \subseteq s.aged
    BY <1>3, <1>4, <1>6 DEF Reaches, Serves
  <2>2. ASSUME NEW k \in Lanes, Stranded(drained, k), ~Stranded(s, k)
        PROVE  \E r \in s.aged \cap OfLane(s, k) : drained.status[r] = "failed"
    <3>1. k \notin kicked /\ Stranded(calm, k)
      BY <1>7, <2>2
    <3>2. CASE k \in hit
      <4>1. PICK r \in stale : r \in OfLane(s, k)
        BY <1>2, <3>1, <3>2
      <4> QED BY <1>1, <1>3, <1>10, <4>1
    <3>3. CASE k \notin hit
      <4>1. Stranded(purged, k)
        BY <1>4, <3>1, <3>3 DEF Stranded, Queue, OfLane
      <4>2. PICK r \in s.aged \cap OfLane(s, k) : purged.status[r] = "failed"
        BY <1>3, <2>2, <4>1 DEF Reaches, Serves, Strands
      <4> QED BY <1>10, <4>2
    <3> QED BY <3>2, <3>3
  <2> QED BY <2>1, <2>2 DEF Serves, Strands
<1>12. Reaches(s, drained)
  BY <1>9, <1>11 DEF Reaches
<1>13. {x} \in SUBSET Sessions
  OBVIOUS
<1>14. Reaches(drained, ReconcileLease(drained, {x}))
  BY <1>12, <1>13, ReconcileLeaseReaches DEF Reaches, Changes
<1>15. Repair(s, x, K) = IF stale = {} THEN drained ELSE ReconcileLease(drained, {x})
  BY Zenon DEF Repair, drained, calm, purged, kicked, stale, hit, mine
<1> QED BY <1>12, <1>14, <1>15, ReachesTransitive

\* cancelAllRuns leaves nothing queued and counts no work, so it strands no lane;
\* what still executes is uncounted, and calm is over.
LEMMA CancelAllReaches ==
  ASSUME NEW s \in Manager, Sound(s)
  PROVE  LET t == CancelAll(s)
         IN /\ Changes(s, t) /\ Serves(s, t) /\ Yields(s, t) /\ Backed(t)
            /\ t.queued = {}
<1> DEFINE R == RunningRuns(s)
           d == Dequeue(s, s.queued, "cancelled")
           e == Evict(AbortRuntime(d, R), R)
           t == CancelAll(s)
<1>1. /\ Changes(s, d) /\ d.queued = {} /\ d.executing = s.executing
      /\ d.drainTimers = s.drainTimers /\ d.aged \subseteq s.aged
  <2>1. d.queued = s.queued \ s.queued /\ d.aged = s.aged \ s.queued
    BY DequeueChanges
  <2> QED BY <2>1, DequeueChanges
<1>2. R \in SUBSET d.executing
  BY <1>1, RunningExecutes
<1> HIDE DEF d, R
<1>3. Changes(d, e)
  BY <1>1, <1>2, AbortAndEvictReaches DEF Reaches, Changes
<1>4. e.queued = {} /\ e.executing = d.executing /\ e.drainTimers = d.drainTimers /\ e.aged = d.aged
  <2>1. d \in Manager
    BY <1>1 DEF Changes
  <2> QED BY <1>1, <2>1 DEF Evict, AbortRuntime, Manager
<1> HIDE DEF e
<1>5. t = [e EXCEPT !.work = [x \in Sessions |-> 0]]
  BY Zenon DEF CancelAll, e, d, R
<1>6. /\ SameRuns(e, t) /\ t.work = [x \in Sessions |-> 0]
      /\ t.queued = {} /\ t.executing = e.executing /\ t.drainTimers = e.drainTimers /\ t.aged = e.aged
  BY <1>3, <1>4, <1>5 DEF Changes, SameRuns, Manager, Sound, Filed
<1>7. t \in Manager
  BY CancelAllType
<1> HIDE DEF t
<1>8. Changes(e, t)
  BY <1>3, <1>6, <1>7, SameRunsChanges DEF Changes
<1>9. Changes(s, t)
  BY <1>1, <1>3, <1>8, ChangesTransitive DEF Changes
<1>10. Serves(s, t)
  BY <1>1, <1>4, <1>6 DEF Serves, Strands, Stranded, Queue
<1>11. Yields(s, t)
  BY <1>1, <1>4, <1>6, NothingStarts
<1>12. Backed(t)
  <2> SUFFICES ASSUME NEW x \in Sessions
               PROVE  t.work[x] <= Cardinality(t.counted \cap Live(t) \cap OfSession(t, x))
    BY DEF Backed
  <2> DEFINE A == t.counted \cap Live(t) \cap OfSession(t, x)
  <2>1. A \in SUBSET Runs
    BY <1>7 DEF Manager
  <2> HIDE DEF A
  <2>2. Cardinality(A) \in Nat /\ t.work[x] = 0
    BY <1>6, <2>1, SubsetCard
  <2> QED BY <2>2 DEF A
<1> QED BY <1>6, <1>9, <1>10, <1>11, <1>12 DEF t
-----------------------------------------------------------------------------
(* Two calls are not of that kind: a new run joins, a turn finishes. *)

\* t has one run more than s, number n, waiting or started by the same call.
Joins(s, t, n) ==
  /\ n \in Runs /\ n = s.lastRun + 1 /\ t.lastRun = n
  /\ t.queued \subseteq s.queued \cup {n}
  /\ s.executing \subseteq t.executing /\ t.executing \subseteq s.executing \cup s.queued \cup {n}
  /\ n \in t.queued \cup t.executing /\ n \notin t.aborted
  /\ s.aborted \subseteq t.aborted
  /\ \A r \in Runs \ (s.queued \cup s.executing \cup {n}) : t.status[r] = s.status[r]
  /\ \A r \in s.executing : s.status[r] = "cancelled" => t.status[r] = "cancelled"
  /\ \A r \in s.queued \ (t.queued \cup t.executing) : t.status[r] \in {"failed", "cancelled"}

\* The turn of r is over in t; its lane may have started a successor.
Finishes(s, t, r) ==
  /\ r \in s.executing /\ t.lastRun = s.lastRun
  /\ t.queued \subseteq s.queued
  /\ s.executing \ {r} \subseteq t.executing
  /\ t.executing \subseteq (s.executing \cup s.queued) \ {r}
  /\ s.aborted \subseteq t.aborted
  /\ \A q \in Runs \ (s.queued \cup s.executing) : t.status[q] = s.status[q]
  /\ \A q \in s.executing : s.status[q] = "cancelled" => t.status[q] = "cancelled"
  /\ \A q \in s.queued \ (t.queued \cup t.executing) : t.status[q] \in {"failed", "cancelled"}
  /\ t.status[r] \in Terminal /\ (r \in s.aborted => t.status[r] = "cancelled")

\* Pushing an entry adds the next run, queued behind its class and, unless it is a
\* heartbeat, counted; the session's lease follows the count.
LEMMA PushJoins ==
  ASSUME NEW s \in Manager, Sound(s), NEW in \in InputType, NEW origin \in Runs \cup {NoRun},
         s.lastRun < MaxRuns
  PROVE  LET p == Push(s, in, origin)
         IN /\ p \in Manager /\ Sound(p) /\ Joins(s, p, s.lastRun + 1)
            /\ Keeps(s, p) /\ Balances(s, p) /\ p.recoveredFrom[s.lastRun + 1] = origin
            /\ p.aged = s.aged /\ \A k \in Lanes \ {in.lane} : Stranded(p, k) => Stranded(s, k)
<1> DEFINE n == s.lastRun + 1
           x == in.session
           p == Push(s, in, origin)
           pushed == Register(s, in, origin)
           busy == IncrementWork(pushed, n, x)
           led == ReconcileLease(busy, {x})
<1>1. n \in Runs /\ s.lastRun \in Int /\ \A r \in Runs : r \in Int
  BY Assumption DEF Manager, Runs
<1>2. StatusFits(s, n)
  BY <1>1 DEF Sound
<1>3. n \notin s.queued \cup s.executing \cup s.aborted /\ n \notin s.counted /\ s.input[n] = NoInput
  <2>1. n \notin s.queued \cup s.executing \cup s.aborted
    BY <1>1, <1>2 DEF StatusFits
  <2>2. n \notin s.counted /\ s.input[n] = NoInput
    BY <1>1 DEF Sound, Filed
  <2> QED BY <2>1, <2>2
<1>4. /\ pushed.lastRun = n /\ pushed.queued = s.queued \cup {n}
      /\ pushed.executing = s.executing /\ pushed.aborted = s.aborted
      /\ pushed.unsettled = s.unsettled \cup {n} /\ pushed.running = s.running
      /\ pushed.input = [s.input EXCEPT ![n] = in]
      /\ pushed.status = [s.status EXCEPT ![n] = "queued"]
      /\ pushed.ledger = [s.ledger EXCEPT ![n] = "queued"]
  BY DEF Manager, Register
<1>5. /\ pushed.recoveredFrom = [s.recoveredFrom EXCEPT ![n] = origin]
      /\ pushed.place = [s.place EXCEPT ![n] = n] /\ pushed.aged = s.aged
      /\ pushed.counted = s.counted /\ pushed.work = s.work /\ pushed.lease = s.lease
      /\ pushed.leaseTimers = s.leaseTimers /\ pushed.drainTimers = s.drainTimers
  BY DEF Manager, Register
<1>6. pushed \in Manager /\ x \in Sessions /\ {x} \in SUBSET Sessions /\ in # NoInput
  BY RegisterType, Assumption DEF InputType
<1> HIDE DEF pushed, n, x
<1>7. busy \in Manager
  BY <1>1, <1>6, IncrementWorkType
<1>8. /\ busy.lastRun = pushed.lastRun /\ busy.queued = pushed.queued
      /\ busy.executing = pushed.executing /\ busy.aborted = pushed.aborted
      /\ busy.unsettled = pushed.unsettled /\ busy.running = pushed.running
      /\ busy.input = pushed.input /\ busy.status = pushed.status /\ busy.ledger = pushed.ledger
      /\ busy.recoveredFrom = pushed.recoveredFrom /\ busy.place = pushed.place
      /\ busy.aged = pushed.aged /\ busy.lease = pushed.lease /\ busy.leaseTimers = pushed.leaseTimers
      /\ busy.drainTimers = pushed.drainTimers /\ busy.counted = pushed.counted \cup {n}
      /\ \A y \in Sessions : busy.work[y] = IF y = x THEN pushed.work[x] + 1 ELSE pushed.work[y]
  BY <1>6 DEF IncrementWork, Manager
<1> HIDE DEF busy
<1>9. /\ led \in Manager
      /\ (Backed(busy) => Backed(led)) /\ (CalmBut(busy, {x}) => Calm(led))
  BY <1>6, <1>7, ReconcileLeaseType, ReconcileLeaseBalances
<1>10. /\ led.lastRun = busy.lastRun /\ led.queued = busy.queued
       /\ led.executing = busy.executing /\ led.aborted = busy.aborted
       /\ led.unsettled = busy.unsettled /\ led.running = busy.running
       /\ led.input = busy.input /\ led.status = busy.status /\ led.ledger = busy.ledger
       /\ led.recoveredFrom = busy.recoveredFrom /\ led.place = busy.place
       /\ led.aged = busy.aged /\ led.drainTimers = busy.drainTimers /\ led.counted = busy.counted
  BY <1>7 DEF ReconcileLease, Manager
<1> HIDE DEF led
<1>11. p = IF Heartbeat(in) THEN pushed ELSE led
  BY <1>4, Zenon DEF Push, led, busy, pushed, x
<1> HIDE DEF p
<1>12. /\ p \in Manager /\ p.lastRun = n /\ p.queued = s.queued \cup {n}
       /\ p.executing = s.executing /\ p.aborted = s.aborted
       /\ p.unsettled = s.unsettled \cup {n} /\ p.running = s.running
       /\ p.aged = s.aged /\ p.drainTimers = s.drainTimers
       /\ p.counted = IF Heartbeat(in) THEN s.counted ELSE s.counted \cup {n}
  BY <1>4, <1>5, <1>6, <1>8, <1>9, <1>10, <1>11
<1>13. /\ \A r \in Runs : p.input[r] = IF r = n THEN in ELSE s.input[r]
       /\ \A r \in Runs : p.status[r] = IF r = n THEN "queued" ELSE s.status[r]
       /\ \A r \in Runs : p.ledger[r] = IF r = n THEN "queued" ELSE s.ledger[r]
       /\ \A r \in Runs : p.place[r] = IF r = n THEN n ELSE s.place[r]
       /\ \A r \in Runs : p.recoveredFrom[r] = IF r = n THEN origin ELSE s.recoveredFrom[r]
  <2>1. /\ p.input = pushed.input /\ p.status = pushed.status /\ p.ledger = pushed.ledger
        /\ p.place = pushed.place /\ p.recoveredFrom = pushed.recoveredFrom
    BY <1>8, <1>10, <1>11
  <2> QED BY <1>4, <1>5, <2>1 DEF Manager
<1>14. Joins(s, p, n)
  BY <1>1, <1>3, <1>12, <1>13 DEF Joins, Manager, Sound, n
<1>15. Filed(p)
  <2>1. p.aged \subseteq p.queued
    BY <1>12 DEF Sound, Filed
  <2>2. \A r \in p.queued : p.ledger[r] = "queued" /\ p.place[r] <= r
    BY <1>1, <1>3, <1>12, <1>13 DEF Sound, Filed, Manager
  <2>3. ASSUME NEW r \in p.queued, NEW q \in p.queued, r < q, SameClass(p, r, q)
        PROVE  p.place[r] < p.place[q]
    <3>1. r \in Runs /\ q \in Runs /\ r \in Int /\ q \in Int
      BY <1>1, <1>12 DEF Manager
    <3>2. r \in s.queued
      <4>1. q \in s.queued \/ q = n
        BY <1>12
      <4>2. q <= n
        BY <1>1, <1>12, <4>1, LiveBorn DEF Born, n
      <4> QED BY <1>1, <1>12, <2>3, <3>1, <4>2
    <3>3. s.place[r] <= r /\ s.place[r] \in Int /\ p.place[r] = s.place[r]
      BY <1>3, <1>13, <3>1, <3>2 DEF Sound, Filed, Manager
    <3>4. CASE q = n
      BY <1>1, <1>13, <2>3, <3>1, <3>3, <3>4
    <3>5. CASE q # n
      <4>1. q \in s.queued /\ SameClass(s, r, q)
        BY <1>3, <1>12, <1>13, <2>3, <3>1, <3>2, <3>5 DEF SameClass
      <4> QED BY <1>13, <2>3, <3>1, <3>2, <3>3, <3>5, <4>1 DEF Sound, Filed
    <3> QED BY <3>4, <3>5
  <2>4. \A r \in p.counted : r <= p.lastRun /\ ~Heartbeat(p.input[r])
    <3>1. \A r \in s.counted : r \in Runs /\ r <= s.lastRun /\ ~Heartbeat(s.input[r])
      BY DEF Sound, Filed, Manager
    <3> QED BY <1>1, <1>3, <1>12, <1>13, <3>1 DEF n
  <2>5. \A r \in Runs : r > p.lastRun => p.recoveredFrom[r] = NoRun
    BY <1>1, <1>12, <1>13 DEF Sound, Filed, n
  <2> QED BY <2>1, <2>2, <2>3, <2>4, <2>5 DEF Filed
<1>16. Sound(p)
  <2>1. \A r \in Runs : p.input[r] # NoInput <=> r <= p.lastRun
    BY <1>1, <1>6, <1>12, <1>13 DEF Sound, n
  <2>2. p.queued \cap p.executing = {} /\ p.unsettled = p.queued \cup p.executing
    BY <1>3, <1>12 DEF Sound
  <2>3. \A r \in Runs : StatusFits(p, r)
    BY <1>1, <1>3, <1>12, <1>13 DEF Sound, StatusFits, n
  <2>4. \A k \in Lanes : p.running[k] # NoRun =>
          p.running[k] \in p.executing /\ p.input[p.running[k]].lane = k
    BY <1>3, <1>12, <1>13 DEF Sound, Manager
  <2>5. \A r \in p.executing : HoldsItsLane(p, r)
    BY <1>3, <1>12, <1>13 DEF Sound, HoldsItsLane, Manager
  <2> QED BY <1>15, <2>1, <2>2, <2>3, <2>4, <2>5 DEF Sound
<1>17. Keeps(s, p)
  <2>1. \A r \in Born(s) : r \in Runs /\ r # n
    BY <1>1 DEF Born, n
  <2>2. s.queued \cap s.executing = {} /\ s.lastRun <= p.lastRun
    BY <1>1, <1>12 DEF Sound, n
  <2> QED BY <1>12, <1>13, <2>1, <2>2 DEF Keeps, Live, Open
<1>18. /\ \A y : p.counted \cap OfSession(p, y) =
                 IF ~Heartbeat(in) /\ y = x THEN (s.counted \cap OfSession(s, y)) \cup {n}
                                            ELSE s.counted \cap OfSession(s, y)
       /\ Live(p) = Live(s) \cup {n}
  <2>1. s.counted \in SUBSET Runs
    BY DEF Manager
  <2>2. \A y : s.counted \cap OfSession(p, y) = s.counted \cap OfSession(s, y)
    BY <1>3, <1>13, <2>1 DEF OfSession
  <2>3. \A y : n \in OfSession(p, y) <=> y = x
    BY <1>1, <1>6, <1>13 DEF OfSession, x
  <2> QED BY <1>12, <2>2, <2>3 DEF Live
<1>19. \A A \in SUBSET s.counted : /\ Cardinality(A) \in Nat
                                   /\ Cardinality(A \cup {n}) = Cardinality(A) + 1
  <2> SUFFICES ASSUME NEW A \in SUBSET s.counted
               PROVE  Cardinality(A) \in Nat /\ Cardinality(A \cup {n}) = Cardinality(A) + 1
    OBVIOUS
  <2>1. A \in SUBSET Runs /\ n \notin A
    BY <1>3 DEF Manager
  <2>2. IsFiniteSet(A)
    BY <2>1, RunsFinite, FS_Subset
  <2> QED BY <2>1, <2>2, FS_AddElement, FS_CardinalityType
<1>20. Backed(s) => Backed(p)
  <2> SUFFICES ASSUME Backed(s) PROVE Backed(p)
    OBVIOUS
  <2> DEFINE q == IF Heartbeat(in) THEN pushed ELSE busy
  <2>1. /\ q.counted = p.counted /\ Live(q) = Live(p) /\ \A y : OfSession(q, y) = OfSession(p, y)
        /\ \A y \in Sessions : q.work[y] = IF ~Heartbeat(in) /\ y = x THEN s.work[y] + 1 ELSE s.work[y]
    BY <1>4, <1>5, <1>6, <1>8, <1>10, <1>11 DEF Live, OfSession
  <2> HIDE DEF q
  <2>2. ASSUME NEW y \in Sessions
        PROVE  q.work[y] <= Cardinality(q.counted \cap Live(q) \cap OfSession(q, y))
    <3> DEFINE A == s.counted \cap Live(s) \cap OfSession(s, y)
               B == q.counted \cap Live(q) \cap OfSession(q, y)
    <3>1. s.work[y] <= Cardinality(A) /\ s.work[y] \in Nat /\ A \in SUBSET s.counted
      BY DEF Backed, Manager
    <3>2. B = IF ~Heartbeat(in) /\ y = x THEN A \cup {n} ELSE A
      BY <1>3, <1>18, <2>1
    <3> HIDE DEF A, B
    <3>3. /\ Cardinality(A) \in Nat /\ Cardinality(A \cup {n}) = Cardinality(A) + 1
          /\ q.work[y] = IF ~Heartbeat(in) /\ y = x THEN s.work[y] + 1 ELSE s.work[y]
      BY <1>19, <2>1, <3>1
    <3>4. q.work[y] <= Cardinality(B)
      <4>1. CASE ~Heartbeat(in) /\ y = x
        BY <3>1, <3>2, <3>3, <4>1
      <4>2. CASE ~(~Heartbeat(in) /\ y = x)
        BY <3>1, <3>2, <3>3, <4>2
      <4> QED BY <4>1, <4>2
    <3> QED BY <3>4 DEF B
  <2>3. Backed(q)
    BY <2>2 DEF Backed
  <2> QED BY <1>9, <1>11, <2>3 DEF q
<1>21. Calm(s) => Calm(p)
  <2> SUFFICES ASSUME Calm(s) PROVE Calm(p)
    OBVIOUS
  <2>1. \A r \in Live(p) \ p.aborted : ~Heartbeat(p.input[r]) => r \in p.counted
    <3>1. Live(s) \subseteq Runs /\ n \notin Live(s)
      BY <1>3 DEF Live, Manager
    <3> QED BY <1>1, <1>12, <1>13, <1>18, <3>1 DEF Calm
  <2>2. CASE Heartbeat(in)
    <3>1. p.work = s.work /\ p.lease = s.lease /\ p.leaseTimers = s.leaseTimers
      BY <1>5, <1>11, <2>2
    <3> QED BY <1>18, <2>1, <2>2, <3>1 DEF Calm
  <2>3. CASE ~Heartbeat(in)
    <3>1. ASSUME NEW y \in Sessions PROVE Cardinality(busy.counted \cap OfSession(busy, y)) <= busy.work[y]
      <4> DEFINE A == s.counted \cap OfSession(s, y)
                 B == busy.counted \cap OfSession(busy, y)
      <4>1. Cardinality(A) <= s.work[y] /\ s.work[y] \in Nat /\ A \in SUBSET s.counted
        BY DEF Calm, Manager
      <4>2. B = IF y = x THEN A \cup {n} ELSE A
        <5>1. B = p.counted \cap OfSession(p, y)
          BY <1>10, <1>11, <2>3 DEF OfSession
        <5> QED BY <1>18, <2>3, <5>1
      <4> HIDE DEF A, B
      <4>3. /\ Cardinality(A) \in Nat /\ Cardinality(A \cup {n}) = Cardinality(A) + 1
            /\ busy.work[y] = IF y = x THEN s.work[y] + 1 ELSE s.work[y]
        BY <1>5, <1>8, <1>19, <4>1
      <4>4. Cardinality(B) <= busy.work[y]
        <5>1. CASE y = x
          BY <4>1, <4>2, <4>3, <5>1
        <5>2. CASE y # x
          BY <4>1, <4>2, <4>3, <5>2
        <5> QED BY <5>1, <5>2
      <4> QED BY <4>4 DEF B
    <3>2. \A r \in Live(busy) \ busy.aborted : ~Heartbeat(busy.input[r]) => r \in busy.counted
      BY <1>10, <1>11, <2>1, <2>3 DEF Live
    <3>3. /\ \A y \in Sessions : busy.lease[y] # "other"
          /\ \A y \in Sessions \ {x} : busy.work[y] > 0 => busy.lease[y] = "self"
          /\ \A y \in busy.leaseTimers : busy.lease[y] = "self"
      BY <1>5, <1>8 DEF Calm
    <3> QED BY <1>9, <1>11, <2>3, <3>1, <3>2, <3>3 DEF CalmBut
  <2> QED BY <2>2, <2>3
<1>22. Balances(s, p)
  BY <1>12, <1>20, <1>21, NothingStarts DEF Balances
<1>23. ASSUME NEW k \in Lanes \ {in.lane}, Stranded(p, k) PROVE Stranded(s, k)
  <2>1. n \notin OfLane(p, k) /\ s.queued \subseteq Runs /\ s.executing \subseteq Runs
    BY <1>13, <1>23 DEF OfLane, Manager
  <2>2. Queue(p, k) = Queue(s, k) /\ p.executing \cap OfLane(p, k) = s.executing \cap OfLane(s, k)
    BY <1>3, <1>12, <1>13, <2>1 DEF Queue, OfLane
  <2> QED BY <1>12, <1>23, <2>2 DEF Stranded
<1> QED BY <1>1, <1>12, <1>13, <1>14, <1>16, <1>17, <1>22, <1>23 DEF p, n

\* What a call did before pushing its entry belongs to the same step.
LEMMA ReachesThenJoins ==
  ASSUME NEW s \in Manager, Sound(s), NEW t \in Manager, Evolves(s, t),
         NEW u \in Manager, NEW n, Joins(t, u, n)
  PROVE  Joins(s, u, n)
<1>1. n \notin s.queued \cup s.executing
  <2>1. StatusFits(s, n) /\ n > s.lastRun
    BY DEF Sound, Joins, Evolves, Manager
  <2> QED BY <2>1 DEF StatusFits
<1> QED BY <1>1 DEF Joins, Evolves, Manager

\* A drain moves runs from the queues to execution and aborts none.
LEMMA DrainKeeps ==
  ASSUME NEW s \in Manager, NEW K \in SUBSET Lanes
  PROVE  Drain(s, K).aborted = s.aborted /\ s.queued \subseteq Drain(s, K).queued \cup Drain(s, K).executing
  BY DEF Drain, Manager

\* So does the drain after it.
LEMMA JoinsThenDrains ==
  ASSUME NEW s \in Manager, NEW p \in Manager, Sound(p), NEW n, Joins(s, p, n),
         NEW t \in Manager, Evolves(p, t), t.aborted = p.aborted,
         p.queued \subseteq t.queued \cup t.executing
  PROVE  Joins(s, t, n)
  BY DEF Joins, Evolves, Manager

\* enqueueSessionRun adds one run, or is deduplicated or coalesced and adds none.
LEMMA EnqueueRunSteps ==
  ASSUME NEW s \in Manager, Sound(s), NEW in \in InputType, NEW origin \in Runs \cup {NoRun},
         NEW soon, s.lastRun < MaxRuns
  PROVE  LET t == EnqueueRun(s, in, origin, soon)
             n == s.lastRun + 1
         IN /\ t \in Manager /\ Sound(t) /\ Keeps(s, t) /\ Balances(s, t) /\ Serves(s, t)
            /\ Evolves(s, t) \/ (Joins(s, t, n) /\ t.recoveredFrom[n] = origin)
<1> DEFINE s1 == Repair(s, in.session, {in.lane})
           s2 == IF in.mode = "steer" THEN Steer(s1, in) ELSE s1
           s3 == IF in.source = "chat" THEN Preempt(s2, in) ELSE s2
           p == Push(s3, in, origin)
           t == Drain(p, {in.lane})
           n == s.lastRun + 1
<1>1. in.session \in Sessions /\ in.lane \in Lanes /\ {in.lane} \in SUBSET Lanes
  BY DEF InputType
<1>2. Reaches(s, s1)
  BY <1>1, RepairReaches
<1> HIDE DEF s1
<1>3. Reaches(s, s2)
  BY <1>2, SteerReaches, ReachesTransitive DEF Reaches, Changes
<1> HIDE DEF s2
<1>4. Reaches(s, s3)
  BY <1>3, PreemptReaches, ReachesTransitive DEF Reaches, Changes
<1> HIDE DEF s3
<1>5. /\ s3 \in Manager /\ Sound(s3) /\ s3.lastRun = s.lastRun
      /\ Evolves(s, s3) /\ Keeps(s, s3) /\ Balances(s, s3) /\ Serves(s, s3)
  BY <1>4 DEF Reaches, Changes, Evolves
<1>6. /\ p \in Manager /\ Sound(p) /\ Joins(s3, p, n)
      /\ Keeps(s3, p) /\ Balances(s3, p) /\ p.recoveredFrom[n] = origin
      /\ p.aged = s3.aged /\ \A k \in Lanes \ {in.lane} : Stranded(p, k) => Stranded(s3, k)
  BY <1>5, PushJoins
<1> HIDE DEF p
<1>7. /\ Reaches(p, t) /\ t.aborted = p.aborted /\ p.queued \subseteq t.queued \cup t.executing
      /\ t.recoveredFrom = p.recoveredFrom
      /\ \A k \in Lanes : Stranded(t, k) => k # in.lane /\ Stranded(p, k)
  BY <1>1, <1>6, DrainReaches, DrainKeeps, DrainMoves, DrainServes
<1> HIDE DEF t
<1>8. t \in Manager /\ Sound(t) /\ Joins(s3, t, n)
  BY <1>5, <1>6, <1>7, JoinsThenDrains DEF Reaches, Changes
<1>9. Joins(s, t, n)
  BY <1>5, <1>8, ReachesThenJoins
<1>10. Keeps(s3, t) /\ Keeps(s, t)
  BY <1>5, <1>6, <1>7, <1>8, KeepsTransitive DEF Reaches, Changes
<1>11. Balances(s3, t)
  BY <1>5, <1>6, <1>7, <1>8, BalancesTransitive DEF Reaches, Changes
<1>12. Balances(s, t)
  BY <1>5, <1>8, <1>10, <1>11, BalancesTransitive
<1>13. Serves(s3, t)
  BY <1>6, <1>7 DEF Reaches, Serves, Strands
<1>14. Serves(s, t)
  BY <1>5, <1>8, <1>10, <1>13, ServesTransitive
<1>15. EnqueueRun(s, in, origin, soon) = IF Deduplicated(s1, in) THEN s1
                                         ELSE IF soon /\ CanCoalesce(s3, in) THEN s3 ELSE t
  BY Zenon DEF EnqueueRun, t, p, s3, s2, s1
<1>16. t.recoveredFrom[n] = origin
  BY <1>6, <1>7
<1> HIDE DEF n
<1>17. CASE EnqueueRun(s, in, origin, soon) = s1
  BY <1>2, <1>17 DEF Reaches, Changes, n
<1>18. CASE EnqueueRun(s, in, origin, soon) = s3
  BY <1>5, <1>18 DEF n
<1>19. CASE EnqueueRun(s, in, origin, soon) = t
  BY <1>8, <1>9, <1>10, <1>12, <1>14, <1>16, <1>19 DEF n
<1> QED BY <1>15, <1>17, <1>18, <1>19

\* The code after a turn ends that run with a verdict, cancelled if it was aborted,
\* and its lane goes on.
LEMMA FinishRunSteps ==
  ASSUME NEW s \in Manager, Sound(s), NEW r \in s.executing, NEW ok
  PROVE  LET t == FinishRun(s, r, ok)
         IN /\ t \in Manager /\ Sound(t) /\ Finishes(s, t, r)
            /\ Keeps(s, t) /\ Balances(s, t) /\ Serves(s, t)
<1> DEFINE in == s.input[r]
           verdict == Verdict(s, r, ok)
           done == [s EXCEPT !.status[r] = verdict, !.ledger[r] = verdict,
                             !.executing = @ \ {r}, !.unsettled = @ \ {r},
                             !.running[in.lane] = NoRun]
           d1 == DecrementWork(done, {r})
           d2 == ReconcileLease(d1, {in.session})
           t == Drain(d2, {in.lane})
<1>1. in.session \in Sessions /\ in.lane \in Lanes /\ r \in Runs
  BY LiveInput DEF Manager
<1>2. verdict \in Terminal /\ verdict \in Statuses
  BY DEF Terminal, Statuses, Verdict
<1>3. /\ done.lastRun = s.lastRun /\ done.input = s.input /\ done.queued = s.queued
      /\ done.executing = s.executing \ {r} /\ done.aborted = s.aborted
      /\ done.unsettled = s.unsettled \ {r}
      /\ \A k \in Lanes : done.running[k] = IF k = in.lane THEN NoRun ELSE s.running[k]
      /\ \A q \in Runs : done.status[q] = IF q = r THEN verdict ELSE s.status[q]
      /\ \A q \in Runs : done.ledger[q] = IF q = r THEN verdict ELSE s.ledger[q]
  BY <1>1 DEF Manager
<1>4. /\ done.aged = s.aged /\ done.place = s.place /\ done.recoveredFrom = s.recoveredFrom
      /\ done.counted = s.counted /\ done.work = s.work /\ done.lease = s.lease
      /\ done.leaseTimers = s.leaseTimers /\ done.drainTimers = s.drainTimers
  BY DEF Manager
<1>5. done \in Manager
  <2> HIDE DEF verdict, in
  <2>1. /\ [s.status EXCEPT ![r] = verdict] \in [Runs -> Statuses]
        /\ [s.ledger EXCEPT ![r] = verdict] \in [Runs -> Statuses]
        /\ s.executing \ {r} \in SUBSET Runs /\ s.unsettled \ {r} \in SUBSET Runs
        /\ [s.running EXCEPT ![in.lane] = NoRun] \in [Lanes -> Runs \cup {NoRun}]
    BY <1>1, <1>2 DEF Manager
  <2> QED BY <2>1, ZenonT(60) DEF Manager
<1> HIDE DEF done
<1>6. r \notin s.queued
  BY DEF Sound
<1>7. Sound(done)
  <2>1. done.queued \cap done.executing = {} /\ done.unsettled = done.queued \cup done.executing
    BY <1>3, <1>6 DEF Sound
  <2>2. \A q \in Runs : StatusFits(done, q)
    <3> HIDE DEF verdict
    <3> QED BY <1>2, <1>3 DEF Sound, StatusFits
  <2>3. \A k \in Lanes : done.running[k] # NoRun =>
          done.running[k] \in done.executing /\ done.input[done.running[k]].lane = k
    BY <1>1, <1>3 DEF Sound
  <2>4. \A q \in done.executing : HoldsItsLane(done, q)
    <3> SUFFICES ASSUME NEW q \in s.executing, q # r PROVE HoldsItsLane(done, q)
      BY <1>3
    <3>1. HoldsItsLane(s, q) /\ HoldsItsLane(s, r)
      BY DEF Sound
    <3>2. s.input[q].lane \in Lanes
      BY LiveInput
    <3>3. CASE s.input[q].lane = in.lane
      BY <1>3, <3>1, <3>3 DEF HoldsItsLane
    <3>4. CASE s.input[q].lane # in.lane
      BY <1>3, <3>1, <3>2, <3>4 DEF HoldsItsLane
    <3> QED BY <3>3, <3>4
  <2>5. Filed(done)
    <3>1. \A q \in s.queued : q \in Runs /\ q # r
      BY <1>6 DEF Manager
    <3> QED BY <1>3, <1>4, <3>1 DEF Sound, Filed, SameClass
  <2> QED BY <1>3, <2>1, <2>2, <2>3, <2>4, <2>5 DEF Sound
<1>8. Keeps(s, done)
  <2>1. ~Open(done, r)
    BY <1>1, <1>2, <1>3 DEF Open, Terminal
  <2>2. \A q \in Runs \ {r} : done.ledger[q] = s.ledger[q] /\ done.status[q] = s.status[q]
    BY <1>3
  <2> HIDE DEF verdict
  <2>3. \A q \in Born(s) :
          /\ Open(done, q) => Open(s, q) /\ (q \in Live(s) => q \in Live(done))
          /\ q \notin Live(s) => done.status[q] = s.status[q]
    BY <1>3, <2>1, <2>2 DEF Born, Open, Live
  <2>4. \A q \in s.queued : q \notin done.executing
    BY <1>3 DEF Sound
  <2>5. s.lastRun <= done.lastRun
    BY <1>3 DEF Manager
  <2>6. done.executing \subseteq Live(s)
    BY <1>3 DEF Live
  <2>7. \A q \in Born(s) :
          /\ done.input[q] = s.input[q] /\ done.recoveredFrom[q] = s.recoveredFrom[q]
          /\ q \in s.aborted => q \in done.aborted
          /\ q \in done.queued => q \in s.queued
    BY <1>3, <1>4
  <2> QED BY <2>3, <2>4, <2>5, <2>6, <2>7 DEF Keeps
<1>9. {r} \in SUBSET Runs /\ {in.session} \in SUBSET Sessions /\ {in.lane} \in SUBSET Lanes
  BY <1>1
<1>10. (Backed(s) => Backed(d1)) /\ (Calm(s) => Calm(d1))
  <2>1. /\ Live(done) \subseteq Live(s) /\ Live(s) \subseteq Live(done) \cup {r}
        /\ {r} \cap Live(done) \subseteq done.aborted /\ s.aborted \subseteq done.aborted
    BY <1>3, <1>6 DEF Live
  <2> QED BY <1>3, <1>4, <1>5, <1>9, <2>1, UncountBalances
<1>11. /\ Changes(done, d1) /\ d1.executing = done.executing
       /\ d1.drainTimers = done.drainTimers /\ d1.aged = done.aged /\ d1.queued = done.queued
  <2>1. d1.queued = done.queued
    BY <1>5 DEF DecrementWork, Manager
  <2> QED BY <1>5, <1>7, <1>9, <2>1, DecrementWorkChanges
<1> HIDE DEF d1, in
<1>12. d1 \in Manager /\ Sound(d1) /\ Keeps(s, d1) /\ Balances(s, d1)
  <2>1. d1 \in Manager /\ Sound(d1) /\ Keeps(s, d1)
    BY <1>5, <1>7, <1>8, <1>11, KeepsTransitive DEF Changes
  <2> QED BY <1>3, <1>10, <1>11, <2>1, NothingStarts DEF Balances
<1>13. /\ Reaches(d1, d2) /\ d2.executing = d1.executing /\ d2.queued = d1.queued
       /\ d2.drainTimers = d1.drainTimers
  BY <1>9, <1>12, ReconcileLeaseReaches DEF ReconcileLease, Manager
<1> HIDE DEF d2
<1>14. d2 \in Manager /\ Sound(d2) /\ Keeps(s, d2) /\ Balances(s, d2)
  <2>1. d2 \in Manager /\ Sound(d2) /\ Keeps(d1, d2) /\ Balances(d1, d2)
    BY <1>13 DEF Reaches, Changes
  <2> QED BY <1>12, <2>1, KeepsTransitive, BalancesTransitive
<1>15. Reaches(d2, t) /\ \A k \in Lanes : Stranded(t, k) => k # in.lane /\ Stranded(d2, k)
  BY <1>9, <1>14, DrainReaches, DrainServes
<1> HIDE DEF t
<1>16. t \in Manager /\ Sound(t) /\ Keeps(s, t) /\ Balances(s, t)
  <2>1. t \in Manager /\ Sound(t) /\ Keeps(d2, t) /\ Balances(d2, t)
    BY <1>15 DEF Reaches, Changes
  <2> QED BY <1>14, <2>1, KeepsTransitive, BalancesTransitive
<1>17. Evolves(done, t)
  BY <1>5, <1>11, <1>12, <1>13, <1>14, <1>15, <1>16, EvolvesTransitive DEF Reaches, Changes
<1>18. Finishes(s, t, r)
  <2>1. verdict \in Terminal /\ (r \in s.aborted => verdict = "cancelled")
    BY <1>2 DEF Verdict
  <2>2. s.status[r] = "cancelled" => r \in s.aborted
    BY <1>1 DEF Sound, StatusFits
  <2> HIDE DEF verdict
  <2> QED BY <1>1, <1>3, <1>6, <1>17, <2>1, <2>2 DEF Evolves, Finishes, Manager
<1>19. Serves(s, t)
  <2>1. t.aged \subseteq s.aged
    BY <1>4, <1>11, <1>13, <1>15 DEF Reaches, Serves
  <2>2. ASSUME NEW k \in Lanes, Stranded(t, k) PROVE Stranded(s, k)
    <3>1. k # in.lane /\ Stranded(d2, k)
      BY <1>15, <2>2
    <3>2. d2.input = s.input /\ d2.queued = s.queued /\ d2.executing = s.executing \ {r}
          /\ d2.drainTimers = s.drainTimers
      BY <1>3, <1>4, <1>11, <1>13 DEF Changes, Reaches, Evolves
    <3>3. r \notin OfLane(s, k)
      BY <3>1 DEF OfLane, in
    <3> QED BY <3>1, <3>2, <3>3 DEF Stranded, Queue, OfLane
  <2> QED BY <2>1, <2>2 DEF Serves, Strands
<1>20. FinishRun(s, r, ok) = t
  BY Zenon DEF FinishRun, t, d2, d1, done, in
<1> QED BY <1>16, <1>18, <1>19, <1>20
-----------------------------------------------------------------------------
(* 4. Every action is one of these moves, or a restart *)

\* Become(t) makes t the next manager state.
LEMMA BecomeNow ==
  ASSUME NEW t \in Manager, Become(t) PROVE Now' = t
  BY Zenon DEF Become, Manager, Now

\* The process restarts: every live run is lost, and no record is touched.
Dies(s, t) ==
  /\ t.lastRun = s.lastRun /\ t.queued = {} /\ t.executing = {}
  /\ t.ledger = s.ledger /\ t.recoveredFrom = s.recoveredFrom
  /\ \A r \in Runs : t.status[r] = IF s.status[r] \in {"queued", "running"} THEN "lost" ELSE s.status[r]

\* A new run comes in after start-up recovery and under no all-stop, from a caller
\* or from the record a recovery loop is done with.
Newcomer(t) ==
  /\ estop # "all" /\ recovered
  /\ t.recoveredFrom[t.lastRun] \in {NoRun} \cup (todo \ todo')

\* What a step does to the runs.
Moves(s, t) ==
  \/ Keeps(s, t) /\ \/ Evolves(s, t)
                    \/ Joins(s, t, s.lastRun + 1) /\ Newcomer(t)
                    \/ \E r \in s.executing : Finishes(s, t, r)
  \/ Dies(s, t) /\ ~recovered'

\* No restart, emergency stop or other process has come in.
Undisturbed == crashes = 0 /\ estops = 0 /\ foreign = 0

\* A step of the manager: it keeps its state sound, makes one of those moves, keeps
\* the books, strands no lane but by failing an entry of it, and lets work go first.
StepsTo(t) ==
  /\ Now' = t /\ t \in Manager /\ Sound(t) /\ Moves(Now, t)
  /\ (Backed(Now) => Backed(t)) /\ (Calm(Now) /\ Undisturbed' => Calm(t))
  /\ Strands(Now, t) /\ Yields(Now, t)

\* An action whose new state is reached from the present one is a step.
LEMMA ReachesSteps ==
  ASSUME NEW t, Reaches(Now, t), Become(t)
  PROVE  StepsTo(t)
<1>1. t \in Manager /\ Sound(t) /\ Evolves(Now, t) /\ Keeps(Now, t) /\ Balances(Now, t) /\ Strands(Now, t)
  BY DEF Reaches, Changes, Serves
<1>2. Now' = t
  BY <1>1, BecomeNow
<1> QED BY <1>1, <1>2 DEF StepsTo, Moves, Balances

\* Every action starts in a sound state.
LEMMA SoundNow == ASSUME IInv PROVE Now \in Manager /\ Sound(Now)
  BY DEF IInv, TypeOK

\* The fields of Now are the variables.
LEMMA FieldsOfNow ==
  /\ Now.queued = queued /\ Now.executing = executing /\ Now.aborted = aborted
  /\ Now.lastRun = lastRun /\ Now.input = input /\ Now.status = status /\ Now.ledger = ledger
  /\ Now.unsettled = unsettled /\ Now.running = runningByExecution /\ Now.aged = aged
  /\ Now.recoveredFrom = recoveredFrom /\ Now.lease = activityLease
  BY DEF Now

\* The initial state is well typed and sound.
LEMMA InitSound == Init => Now \in Manager /\ Sound(Now)
<1> SUFFICES ASSUME Init PROVE Now \in Manager /\ Sound(Now)
  OBVIOUS
<1>1. Now \in Manager
  <2>1. /\ 0 \in 0 .. MaxRuns /\ input \in [Runs -> InputType \cup {NoInput}]
        /\ recoveredFrom \in [Runs -> Runs \cup {NoRun}]
        /\ status \in [Runs -> Statuses] /\ ledger \in [Runs -> Statuses]
        /\ place \in [Runs -> Int] /\ runningByExecution \in [Lanes -> Runs \cup {NoRun}]
        /\ nonHeartbeatWorkCount \in [Sessions -> Nat]
        /\ activityLease \in [Sessions -> {"none", "self", "other"}]
        /\ externalSessionHolds \in [Sessions -> Nat]
    BY Assumption DEF Init, Statuses
  <2> QED BY <2>1 DEF Init, Now, Manager
<1>2. Sound(Now)
  <2>1. Filed(Now)
    BY DEF Init, Now, Filed
  <2> QED BY <2>1, Assumption, FieldsOfNow DEF Init, Sound, StatusFits, HoldsItsLane, Runs, NoRun
<1> QED BY <1>1, <1>2

\* EnqueueSessionRun is a step.
LEMMA EnqueueSteps ==
  ASSUME IInv, NEW in \in InputType, EnqueueSessionRun(in)
  PROVE  \E t : StepsTo(t)
<1>1. PICK soon \in BOOLEAN : Become(EnqueueRun(Now, in, NoRun, soon))
  BY DEF EnqueueSessionRun
<1>2. lastRun < MaxRuns /\ estop # "all" /\ recovered /\ NoRun \in Runs \cup {NoRun}
  BY DEF EnqueueSessionRun, Admitted, Ready
<1> DEFINE t == EnqueueRun(Now, in, NoRun, soon)
           n == Now.lastRun + 1
<1>3. /\ t \in Manager /\ Sound(t) /\ Keeps(Now, t) /\ Balances(Now, t) /\ Serves(Now, t)
      /\ Evolves(Now, t) \/ (Joins(Now, t, n) /\ t.recoveredFrom[n] = NoRun)
  BY <1>2, EnqueueRunSteps, SoundNow, FieldsOfNow
<1> HIDE DEF t
<1>4. Now' = t
  BY <1>1, <1>3, BecomeNow DEF t
<1>5. Moves(Now, t)
  BY <1>2, <1>3 DEF Moves, Newcomer, Joins
<1> QED BY <1>3, <1>4, <1>5 DEF StepsTo, Balances, Serves

\* FinishTurn is a step.
LEMMA FinishTurnSteps ==
  ASSUME IInv, NEW r \in Runs, FinishTurn(r)
  PROVE  \E t : StepsTo(t)
<1>1. PICK ok \in BOOLEAN : Become(FinishRun(Now, r, ok))
  BY DEF FinishTurn
<1> DEFINE t == FinishRun(Now, r, ok)
<1>2. r \in Now.executing
  BY FieldsOfNow DEF FinishTurn
<1>3. /\ t \in Manager /\ Sound(t) /\ Finishes(Now, t, r)
      /\ Keeps(Now, t) /\ Balances(Now, t) /\ Serves(Now, t)
  BY <1>2, FinishRunSteps, SoundNow
<1> HIDE DEF t
<1>4. Now' = t
  BY <1>1, <1>3, BecomeNow DEF t
<1>5. Moves(Now, t)
  BY <1>2, <1>3 DEF Moves
<1> QED BY <1>3, <1>4, <1>5 DEF StepsTo, Balances, Serves

\* AbortSignal is a step.
LEMMA AbortSignalSteps ==
  ASSUME IInv, NEW r \in Runs, AbortSignal(r)
  PROVE  \E t : StepsTo(t)
<1>1. {r} \in SUBSET (Now.queued \cup Now.executing)
  BY FieldsOfNow DEF AbortSignal
<1>2. Reaches(Now, [Now EXCEPT !.aborted = Now.aborted \cup {r}])
  BY <1>1, SignalReaches, SoundNow
<1> QED BY <1>2, ReachesSteps DEF AbortSignal

\* DeferredDrain is a step: the timer it clears is of the lane it drains.
LEMMA DeferredDrainSteps ==
  ASSUME IInv, NEW k \in Lanes, DeferredDrain(k)
  PROVE  \E t : StepsTo(t)
<1> DEFINE calm == [Now EXCEPT !.drainTimers = Now.drainTimers \ {k}]
           t == Drain(calm, {k})
<1>1. Now \in Manager /\ Sound(Now)
  BY SoundNow
<1>2. /\ Changes(Now, calm) /\ Balances(Now, calm)
      /\ calm.drainTimers = Now.drainTimers \ {k} /\ calm.aged = Now.aged
      /\ calm.queued = Now.queued /\ calm.executing = Now.executing /\ calm.input = Now.input
  BY <1>1, DisarmChanges
<1>3. Become(t)
  BY DEF DeferredDrain
<1> HIDE DEF calm
<1>4. Reaches(calm, t) /\ \A l \in Lanes : Stranded(t, l) => l # k /\ Stranded(calm, l)
  BY <1>2, DrainReaches, DrainServes DEF Changes
<1> HIDE DEF t
<1>5. Changes(Now, t) /\ Balances(Now, t)
  BY <1>1, <1>2, <1>4, ChangesTransitive, BalancesTransitive DEF Reaches, Changes
<1>6. Serves(Now, t)
  <2>1. \A l \in Lanes : Stranded(t, l) => Stranded(Now, l)
    BY <1>2, <1>4 DEF Stranded, Queue, OfLane
  <2> QED BY <1>2, <1>4, <2>1 DEF Reaches, Serves, Strands
<1> QED BY <1>3, <1>5, <1>6, ReachesSteps DEF Reaches

\* RenewLease is a step.
LEMMA RenewLeaseSteps ==
  ASSUME IInv, NEW x \in Sessions, RenewLease(x)
  PROVE  \E t : StepsTo(t)
<1> DEFINE calm == [Now EXCEPT !.leaseTimers = Now.leaseTimers \ {x}]
<1>1. Now \in Manager /\ Sound(Now)
  BY SoundNow
<1>2. Reaches(Now, calm)
  <2>1. Now.leaseTimers \ {x} \in SUBSET Sessions
    BY <1>1 DEF Manager
  <2>2. calm \in Manager
    BY <1>1, <2>1, ZenonT(60) DEF Manager
  <2>3. /\ SameRuns(Now, calm) /\ SameBooks(Now, calm) /\ calm.drainTimers = Now.drainTimers
        /\ calm.aged = Now.aged /\ calm.executing = Now.executing
    BY <1>1 DEF SameRuns, SameBooks, Manager, Sound, Filed, Live
  <2> HIDE DEF calm
  <2> QED BY <1>1, <2>2, <2>3, SameRunsChanges, QuietReaches
<1> HIDE DEF calm
<1>3. {x} \in SUBSET Sessions
  OBVIOUS
<1>4. Reaches(calm, ReconcileLease(calm, {x}))
  BY <1>2, <1>3, ReconcileLeaseReaches DEF Reaches, Changes
<1>5. Become(ReconcileLease(calm, {x}))
  BY DEF RenewLease, calm
<1>6. Reaches(Now, ReconcileLease(calm, {x}))
  BY <1>1, <1>2, <1>4, ReachesTransitive
<1> QED BY <1>5, <1>6, ReachesSteps

\* Changing a hold leaves the runs and the books alone.
LEMMA HoldReaches ==
  ASSUME Now \in Manager, Sound(Now), NEW x \in Sessions, NEW n \in Nat
  PROVE  Reaches(Now, [Now EXCEPT !.holds[x] = n])
<1> DEFINE t == [Now EXCEPT !.holds[x] = n]
<1>1. [Now.holds EXCEPT ![x] = n] \in [Sessions -> Nat]
  BY DEF Manager
<1>2. t \in Manager
  BY <1>1, ZenonT(60) DEF Manager
<1>3. /\ SameRuns(Now, t) /\ SameBooks(Now, t) /\ t.drainTimers = Now.drainTimers
      /\ t.aged = Now.aged /\ t.executing = Now.executing
  BY DEF SameRuns, SameBooks, Manager, Sound, Filed, Live
<1> HIDE DEF t
<1>4. Reaches(Now, t)
  BY <1>2, <1>3, SameRunsChanges, QuietReaches
<1> QED BY <1>4 DEF t

\* AcquireExternalHold is a step.
LEMMA AcquireExternalHoldSteps ==
  ASSUME IInv, NEW x \in Sessions, AcquireExternalHold(x)
  PROVE  \E t : StepsTo(t)
<1>1. Now.holds[x] + 1 \in Nat
  BY SoundNow DEF Manager
<1>2. Reaches(Now, [Now EXCEPT !.holds[x] = Now.holds[x] + 1])
  BY <1>1, HoldReaches, SoundNow
<1>3. Become([Now EXCEPT !.holds[x] = Now.holds[x] + 1])
  BY Zenon DEF AcquireExternalHold
<1> QED BY <1>2, <1>3, ReachesSteps

\* ReleaseExternalHold is a step.
LEMMA ReleaseExternalHoldSteps ==
  ASSUME IInv, NEW x \in Sessions, ReleaseExternalHold(x)
  PROVE  \E t : StepsTo(t)
<1> DEFINE n == Now.holds[x] - 1
           s == [Now EXCEPT !.holds[x] = n]
<1>1. n \in Nat
  BY SoundNow DEF Manager, ReleaseExternalHold, Now
<1> HIDE DEF n
<1>2. Reaches(Now, s)
  BY <1>1, HoldReaches, SoundNow
<1>3. Become(Drain(s, {x}))
  BY Zenon DEF ReleaseExternalHold, n
<1> HIDE DEF s
<1>4. {x} \in SUBSET Lanes
  BY DEF Lanes
<1>5. Reaches(s, Drain(s, {x}))
  BY <1>2, <1>4, DrainReaches DEF Reaches, Changes
<1>6. Reaches(Now, Drain(s, {x}))
  BY <1>2, <1>5, ReachesTransitive, SoundNow
<1> QED BY <1>3, <1>6, ReachesSteps

\* RepairForWake is a step.
LEMMA RepairForWakeSteps ==
  ASSUME IInv, NEW x \in Sessions, RepairForWake(x)
  PROVE  \E t : StepsTo(t)
<1>1. Reaches(Now, Repair(Now, x, Lanes))
  BY RepairReaches, SoundNow
<1> QED BY <1>1, ReachesSteps DEF RepairForWake

\* Aborting executing runs, forgetting and uncounting them.
LEMMA StopReaches ==
  ASSUME NEW s \in Manager, Sound(s), NEW R \in SUBSET s.executing
  PROVE  Reaches(s, DecrementWork(Evict(AbortRuntime(s, R), R), R))
<1> DEFINE e == Evict(AbortRuntime(s, R), R)
<1>1. Reaches(s, e) /\ R \in SUBSET e.aborted
  BY AbortAndEvictReaches
<1> HIDE DEF e
<1>2. Reaches(e, DecrementWork(e, R))
  BY <1>1, DecrementWorkReaches DEF Reaches, Changes
<1> QED BY <1>1, <1>2, ReachesTransitive DEF e

\* CancelSessionRuns is a step.
LEMMA CancelSessionRunsSteps ==
  ASSUME IInv, NEW x \in Sessions, CancelSessionRuns(x)
  PROVE  \E t : StepsTo(t)
<1> DEFINE stop(R) == DecrementWork(Evict(AbortRuntime(Now, R), R), R)
<1>1. Now \in Manager /\ Sound(Now)
  BY SoundNow
<1>2. CASE Become(CancelPendingForSession(Now, x))
  BY <1>1, <1>2, CancelPendingReaches, ReachesSteps
<1>3. CASE \E r \in RunningRuns(Now) : Become(CancelPendingForSession(stop({r}), x))
  <2>1. PICK r \in RunningRuns(Now) : Become(CancelPendingForSession(stop({r}), x))
    BY <1>3
  <2>2. {r} \in SUBSET Now.executing
    BY <1>1, RunningExecutes
  <2> DEFINE s == stop({r})
  <2>3. Reaches(Now, s)
    BY <1>1, <2>2, StopReaches
  <2> HIDE DEF s
  <2>4. Reaches(s, CancelPendingForSession(s, x))
    BY <2>3, CancelPendingReaches DEF Reaches, Changes
  <2>5. Reaches(Now, CancelPendingForSession(s, x))
    BY <1>1, <2>3, <2>4, ReachesTransitive
  <2> QED BY <2>1, <2>5, ReachesSteps DEF s
<1> QED BY <1>2, <1>3 DEF CancelSessionRuns

\* Cancelling queued entries and reconciling their sessions is a step.
LEMMA CancelQueuedSteps ==
  ASSUME IInv, NEW R \in SUBSET queued, NEW x \in Sessions,
         Become(ReconcileLease(CancelQueued(Now, R), {x}))
  PROVE  \E t : StepsTo(t)
<1> DEFINE s == CancelQueued(Now, R)
<1>1. Now \in Manager /\ Sound(Now) /\ R \in SUBSET Now.queued /\ {x} \in SUBSET Sessions
  BY SoundNow, FieldsOfNow
<1>2. Reaches(Now, s)
  BY <1>1, CancelQueuedReaches
<1> HIDE DEF s
<1>3. Reaches(s, ReconcileLease(s, {x}))
  BY <1>1, <1>2, ReconcileLeaseReaches DEF Reaches, Changes
<1>4. Reaches(Now, ReconcileLease(s, {x}))
  BY <1>1, <1>2, <1>3, ReachesTransitive
<1> QED BY <1>4, ReachesSteps DEF s

\* CancelQueuedRunsForSession is a step.
LEMMA CancelQueuedRunsForSessionSteps ==
  ASSUME IInv, NEW x \in Sessions, CancelQueuedRunsForSession(x)
  PROVE  \E t : StepsTo(t)
<1>1. queued \cap OfSession(Now, x) \in SUBSET queued
  OBVIOUS
<1> QED BY <1>1, CancelQueuedSteps DEF CancelQueuedRunsForSession

\* CancelQueuedRunById is a step.
LEMMA CancelQueuedRunByIdSteps ==
  ASSUME IInv, NEW r \in Runs, CancelQueuedRunById(r)
  PROVE  \E t : StepsTo(t)
<1>1. r \in queued /\ Become(ReconcileLease(CancelQueued(Now, {r}), {input[r].session}))
  BY DEF CancelQueuedRunById
<1>2. {r} \in SUBSET queued /\ input[r].session \in Sessions
  BY <1>1, LiveInput, FieldsOfNow DEF IInv, TypeOK
<1> QED BY <1>1, <1>2, CancelQueuedSteps

\* CancelAllHeartbeatRuns is a step.
LEMMA CancelAllHeartbeatRunsSteps ==
  ASSUME IInv, CancelAllHeartbeatRuns
  PROVE  \E t : StepsTo(t)
<1> DEFINE beats(R) == {r \in R : Heartbeat(input[r])}
           d == Dequeue(Now, beats(queued), "cancelled")
           R == beats(RunningRuns(Now))
<1>1. /\ Now \in Manager /\ Sound(Now) /\ beats(queued) \in SUBSET Now.queued
      /\ \A r \in beats(queued) : Heartbeat(Now.input[r])
  BY SoundNow, FieldsOfNow
<1>2. Reaches(Now, d) /\ d.executing = Now.executing
  BY <1>1, DequeueHeartbeatsReaches
<1>3. R \in SUBSET d.executing
  BY <1>1, <1>2, RunningExecutes
<1>4. Become(AbortRuntime(d, R))
  BY DEF CancelAllHeartbeatRuns
<1> HIDE DEF d, R
<1>5. Reaches(d, AbortRuntime(d, R))
  BY <1>2, <1>3, AbortReaches DEF Reaches, Changes
<1>6. Reaches(Now, AbortRuntime(d, R))
  BY <1>1, <1>2, <1>5, ReachesTransitive
<1> QED BY <1>4, <1>6, ReachesSteps

\* CancelAllRuns is a step that empties the queues.
LEMMA CancelAllRunsSteps ==
  ASSUME IInv, CancelAllRuns
  PROVE  (\E t : StepsTo(t)) /\ queued' = {}
<1> DEFINE t == CancelAll(Now)
<1>1. /\ Changes(Now, t) /\ Serves(Now, t) /\ Yields(Now, t) /\ Backed(t)
      /\ t.queued = {} /\ Become(t)
  BY SoundNow, CancelAllReaches DEF CancelAllRuns
<1> HIDE DEF t
<1>2. Now' = t /\ queued' = t.queued
  BY <1>1, BecomeNow DEF Changes, Become
<1>3. ~Undisturbed'
  BY DEF CancelAllRuns, Undisturbed, IInv, TypeOK
<1>4. StepsTo(t)
  BY <1>1, <1>2, <1>3 DEF StepsTo, Moves, Changes, Serves
<1> QED BY <1>1, <1>2, <1>4

\* The watchdog's first loop is a step.
LEMMA SweepSteps ==
  ASSUME IInv, NEW overdue \in SUBSET StartedRuns, SweepStuckRuns(overdue)
  PROVE  \E t : StepsTo(t)
<1> DEFINE R == overdue \cap RunningRuns(Now)
           s == DecrementWork(Evict(AbortRuntime(Now, R), R), R)
           X == SessionsOf(Now, R)
<1>1. Now \in Manager /\ Sound(Now) /\ R \in SUBSET Now.executing /\ X \in SUBSET Sessions
  BY SoundNow, RunningExecutes DEF SessionsOf
<1>2. Become(ReconcileLease(s, X))
  BY DEF SweepStuckRuns
<1> HIDE DEF R, X
<1>3. Reaches(Now, s)
  BY <1>1, StopReaches
<1> HIDE DEF s
<1>4. Reaches(s, ReconcileLease(s, X))
  BY <1>1, <1>3, ReconcileLeaseReaches DEF Reaches, Changes
<1>5. Reaches(Now, ReconcileLease(s, X))
  BY <1>1, <1>3, <1>4, ReachesTransitive
<1> QED BY <1>2, <1>5, ReachesSteps

\* Actions of the environment that leave the manager alone are steps.
LEMMA UnchangedSteps ==
  ASSUME IInv, UNCHANGED mgr
  PROVE  StepsTo(Now)
<1>1. Now' = Now
  BY DEF mgr, Now
<1>2. Reaches(Now, Now)
  BY ReflexiveReaches, SoundNow
<1> QED BY <1>1, <1>2 DEF StepsTo, Reaches, Changes, Balances, Serves, Moves

\* Crash is a step that empties the queues.
LEMMA CrashSteps ==
  ASSUME IInv, Crash
  PROVE  (\E t : StepsTo(t)) /\ queued' = {}
<1> DEFINE st == Mark(Now.status, {r \in Runs : Now.status[r] \in {"queued", "running"}}, "lost")
           idle == [k \in Lanes |-> NoRun]
           zero == [x \in Sessions |-> 0]
           left == [x \in Sessions |-> IF Now.lease[x] = "self" THEN "other" ELSE Now.lease[x]]
           t == [Now EXCEPT
                   !.status = st,
                   !.queued = {}, !.aged = {}, !.executing = {}, !.aborted = {}, !.unsettled = {},
                   !.running = idle, !.counted = {}, !.work = zero, !.leaseTimers = {},
                   !.lease = left, !.drainTimers = {}, !.holds = zero]
<1>1. Now \in Manager /\ Sound(Now)
  BY SoundNow
<1>2. Become(t)
  BY DEF Crash
<1>3. /\ st \in [Runs -> Statuses] /\ idle \in [Lanes -> Runs \cup {NoRun}]
      /\ zero \in [Sessions -> Nat] /\ left \in [Sessions -> {"none", "self", "other"}]
  BY <1>1, MarkType DEF Manager, Statuses
<1>4. \A r \in Runs : st[r] = IF Now.status[r] \in {"queued", "running"} THEN "lost" ELSE Now.status[r]
  BY DEF Mark
<1>5. ~recovered' /\ ~Undisturbed'
  <2>1. crashes' = crashes + 1 /\ ~recovered'
    BY Zenon DEF Crash
  <2> QED BY <2>1 DEF Undisturbed, IInv, TypeOK
<1> HIDE DEF st, left
<1>6. /\ t.lastRun = Now.lastRun /\ t.input = Now.input /\ t.ledger = Now.ledger /\ t.status = st
      /\ t.queued = {} /\ t.executing = {} /\ t.aborted = {} /\ t.unsettled = {} /\ t.running = idle
      /\ t.recoveredFrom = Now.recoveredFrom /\ t.aged = {} /\ t.counted = {} /\ t.work = zero
  BY <1>1 DEF Manager
<1>7. t \in Manager
  <2>1. {} \in SUBSET Runs /\ {} \in SUBSET Sessions /\ {} \in SUBSET Lanes
    OBVIOUS
  <2> HIDE DEF idle, zero
  <2> QED BY <1>1, <1>3, <2>1, ZenonT(60) DEF Manager
<1> HIDE DEF t
<1>8. Sound(t)
  <2>1. \A r \in Runs : StatusFits(t, r)
    BY <1>1, <1>4, <1>6 DEF Sound, StatusFits, Terminal
  <2>2. Filed(t)
    BY <1>1, <1>6 DEF Sound, Filed
  <2> QED BY <1>1, <1>6, <2>1, <2>2 DEF Sound
<1>9. Dies(Now, t)
  BY <1>4, <1>6 DEF Dies
<1>10. Backed(t)
  BY <1>6, FS_EmptySet DEF Backed
<1>11. Strands(Now, t) /\ Yields(Now, t)
  BY <1>6 DEF Strands, Stranded, Queue, Yields
<1>12. Now' = t /\ queued' = {}
  <2>1. Now' = t
    BY <1>2, <1>7, BecomeNow
  <2>2. queued' = t.queued
    BY <1>2 DEF Become
  <2> QED BY <1>6, <2>1, <2>2
<1>13. StepsTo(t)
  BY <1>5, <1>7, <1>8, <1>9, <1>10, <1>11, <1>12 DEF StepsTo, Moves
<1> QED BY <1>12, <1>13

\* One iteration of a recovery loop is a step, and closes the record it is done with.
LEMMA RecoverNextSteps ==
  ASSUME IInv, RecoverNext
  PROVE  \E t : StepsTo(t) /\ \A q \in todo \ todo' : ~Open(t, q)
<1>1. PICK r \in todo :
        /\ todo' = todo \ {r}
        /\ \/ Become(Interrupted(Now, r))
           \/ /\ WantsRequeue(r) /\ lastRun < MaxRuns
              /\ \E soon \in BOOLEAN :
                   Become(EnqueueRun(Interrupted(Now, r), input[r], r, soon))
  BY Zenon DEF RecoverNext
<1> DEFINE m == Interrupted(Now, r)
<1>2. /\ Now \in Manager /\ Sound(Now) /\ r \in Runs /\ r <= Now.lastRun
      /\ r \notin Now.queued /\ recovered
  BY SoundNow, FieldsOfNow DEF IInv, TypeOK, RecoveryFits
<1>3. m \in Manager
  <2>1. [Now.ledger EXCEPT ![r] = "cancelled"] \in [Runs -> Statuses]
    BY <1>2 DEF Manager, Statuses
  <2> QED BY <1>2, <2>1, ZenonT(60) DEF Manager, Interrupted
<1>4. /\ m.lastRun = Now.lastRun /\ m.input = Now.input /\ m.status = Now.status
      /\ m.queued = Now.queued /\ m.executing = Now.executing /\ m.aborted = Now.aborted
      /\ m.unsettled = Now.unsettled /\ m.running = Now.running
      /\ \A q \in Runs : m.ledger[q] = IF q = r THEN "cancelled" ELSE Now.ledger[q]
  BY <1>2 DEF Manager, Interrupted
<1>5. /\ m.aged = Now.aged /\ m.place = Now.place /\ m.recoveredFrom = Now.recoveredFrom
      /\ m.counted = Now.counted /\ m.work = Now.work /\ m.lease = Now.lease
      /\ m.leaseTimers = Now.leaseTimers /\ m.drainTimers = Now.drainTimers
  BY <1>2 DEF Manager, Interrupted
<1> HIDE DEF m
<1>6. Sound(m)
  <2>1. \A q \in Runs : StatusFits(m, q)
    <3>1. r \in Int /\ Now.lastRun \in Int
      BY <1>2 DEF Manager, Runs
    <3> QED BY <1>2, <1>4, <3>1 DEF Sound, StatusFits
  <2>2. Filed(m)
    <3>1. \A q \in Now.queued : q \in Runs /\ q # r
      BY <1>2 DEF Manager
    <3> QED BY <1>2, <1>4, <1>5, <3>1 DEF Sound, Filed, SameClass
  <2> QED BY <1>2, <1>4, <2>1, <2>2 DEF Sound, HoldsItsLane
<1>7. ~Open(m, r) /\ \A q \in Runs : Open(m, q) => Open(Now, q)
  BY <1>2, <1>4 DEF Open
<1>8. Changes(Now, m)
  <2>1. Evolves(Now, m)
    BY <1>4 DEF Evolves
  <2>2. Now.lastRun <= m.lastRun /\ Now.queued \cap Now.executing = {} /\ Born(Now) \subseteq Runs
    BY <1>2, <1>4 DEF Manager, Sound, Born
  <2>3. Keeps(Now, m)
    BY <1>4, <1>5, <1>7, <2>2 DEF Keeps, Live
  <2> QED BY <1>3, <1>6, <2>1, <2>3 DEF Changes
<1>9. Reaches(Now, m)
  <2>1. SameBooks(Now, m)
    BY <1>4, <1>5 DEF SameBooks, Live
  <2> QED BY <1>4, <1>5, <1>8, <2>1, QuietReaches
<1>10. todo \ todo' = {r}
  BY <1>1
<1>11. CASE Become(m)
  BY <1>7, <1>9, <1>10, <1>11, ReachesSteps
<1>12. CASE /\ WantsRequeue(r) /\ lastRun < MaxRuns
            /\ \E soon \in BOOLEAN : Become(EnqueueRun(m, input[r], r, soon))
  <2>1. PICK soon \in BOOLEAN : Become(EnqueueRun(m, input[r], r, soon))
    BY <1>12
  <2>2. input[r] \in InputType /\ estop # "all" /\ r \in Runs \cup {NoRun}
    BY <1>2, <1>12, FieldsOfNow DEF Sound, Manager, WantsRequeue
  <2> DEFINE t == EnqueueRun(m, input[r], r, soon)
             n == m.lastRun + 1
  <2>3. /\ t \in Manager /\ Sound(t) /\ Keeps(m, t) /\ Balances(m, t) /\ Serves(m, t)
        /\ Evolves(m, t) \/ (Joins(m, t, n) /\ t.recoveredFrom[n] = r)
    BY <1>3, <1>4, <1>6, <1>12, <2>2, EnqueueRunSteps, FieldsOfNow
  <2> HIDE DEF t
  <2>4. Keeps(Now, m) /\ Evolves(Now, m) /\ Balances(Now, m) /\ Serves(Now, m)
    BY <1>9 DEF Reaches, Changes
  <2>5. Keeps(Now, t) /\ Balances(Now, t) /\ Serves(Now, t)
    BY <1>2, <1>3, <1>6, <2>3, <2>4, KeepsTransitive, BalancesTransitive, ServesTransitive
  <2>6. Evolves(Now, t) \/ (Joins(Now, t, n) /\ t.recoveredFrom[n] = r)
    BY <1>2, <1>3, <2>3, <2>4, EvolvesTransitive, ReachesThenJoins
  <2>7. Moves(Now, t)
    BY <1>2, <1>4, <1>10, <2>2, <2>5, <2>6 DEF Moves, Newcomer, Joins
  <2>8. ~Open(t, r)
    <3>1. r \in Born(m)
      BY <1>2, <1>4 DEF Born
    <3> QED BY <1>7, <2>3, <3>1 DEF Keeps
  <2>9. Now' = t
    BY <2>1, <2>3, BecomeNow DEF t
  <2>10. StepsTo(t)
    BY <2>3, <2>5, <2>7, <2>9 DEF StepsTo, Balances, Serves
  <2> QED BY <1>10, <2>8, <2>10
<1> QED BY <1>1, <1>11, <1>12 DEF m

\* Age is a step: entries grow stale, nothing else.
LEMMA AgeSteps ==
  ASSUME IInv, Age
  PROVE  \E t : StepsTo(t)
<1> DEFINE t == [Now EXCEPT !.aged = queued]
<1>1. Now \in Manager /\ Sound(Now) /\ queued \in SUBSET Runs /\ Become(t)
  BY SoundNow, FieldsOfNow DEF Age, Manager
<1>2. t \in Manager
  BY <1>1, ZenonT(60) DEF Manager
<1>3. /\ SameRuns(Now, t) /\ SameBooks(Now, t) /\ t.executing = Now.executing
      /\ t.input = Now.input /\ t.queued = Now.queued /\ t.drainTimers = Now.drainTimers
  BY <1>1, FieldsOfNow DEF SameRuns, SameBooks, Manager, Sound, Filed, Live
<1> HIDE DEF t
<1>4. Changes(Now, t)
  BY <1>1, <1>2, <1>3, SameRunsChanges
<1>5. (Backed(Now) => Backed(t)) /\ (Calm(Now) => Calm(t)) /\ Yields(Now, t)
  BY <1>3, SameBooksBalance, NothingStarts
<1>6. Strands(Now, t)
  BY <1>3 DEF Strands, Stranded, Queue, OfLane
<1> QED BY <1>1, <1>2, <1>4, <1>5, <1>6, BecomeNow DEF StepsTo, Moves, Changes

\* The other process's lease actions are steps: it takes a free lease, which is
\* counted, or lets go of one, which calm excludes.
LEMMA ForeignSteps ==
  ASSUME IInv, NEW x \in Sessions, NEW v \in {"none", "other"}, Become([Now EXCEPT !.lease[x] = v]),
         v = "none" => Now.lease[x] = "other", v = "other" => ~Undisturbed'
  PROVE  \E t : StepsTo(t)
<1> DEFINE t == [Now EXCEPT !.lease[x] = v]
<1>1. Now \in Manager /\ Sound(Now)
  BY SoundNow
<1>2. [Now.lease EXCEPT ![x] = v] \in [Sessions -> {"none", "self", "other"}]
  BY <1>1 DEF Manager
<1>3. t \in Manager
  BY <1>1, <1>2, ZenonT(60) DEF Manager
<1>4. /\ SameRuns(Now, t) /\ t.executing = Now.executing /\ t.input = Now.input
      /\ t.queued = Now.queued /\ t.drainTimers = Now.drainTimers
      /\ t.counted = Now.counted /\ t.work = Now.work
  BY <1>1 DEF SameRuns, Manager, Sound, Filed
<1> HIDE DEF t
<1>5. Changes(Now, t)
  BY <1>1, <1>3, <1>4, SameRunsChanges
<1>6. Backed(Now) => Backed(t)
  BY <1>4 DEF Backed, Live, OfSession
<1>7. ~(Calm(Now) /\ Undisturbed')
  BY DEF Calm
<1>8. Strands(Now, t) /\ Yields(Now, t)
  BY <1>4, NothingStarts DEF Strands, Stranded, Queue, OfLane
<1>9. StepsTo(t)
  BY <1>3, <1>5, <1>6, <1>7, <1>8, BecomeNow DEF StepsTo, Moves, Changes, t
<1> QED BY <1>9

\* Every step of the specification is one of the moves above.
LEMMA NextSteps == ASSUME IInv, [Next]_vars PROVE \E t : StepsTo(t)
<1>1. ASSUME NEW in \in Inputs, EnqueueSessionRun(in) PROVE \E t : StepsTo(t)
  BY <1>1, Assumption, EnqueueSteps
<1>2. ASSUME NEW overdue \in SUBSET StartedRuns, SweepStuckRuns(overdue) PROVE \E t : StepsTo(t)
  BY <1>2, SweepSteps
<1>3. ASSUME NEW level, EngageEstop(level) PROVE \E t : StepsTo(t)
  BY <1>3, UnchangedSteps DEF EngageEstop
<1>4. CASE ResumeEstop
  BY <1>4, UnchangedSteps DEF ResumeEstop
<1>5. CASE BeginRecovery
  BY <1>5, UnchangedSteps DEF BeginRecovery
<1>6. CASE UNCHANGED vars
  BY <1>6, UnchangedSteps DEF vars
<1>7. ASSUME NEW x \in Sessions, ForeignAcquire(x) PROVE \E t : StepsTo(t)
  <2>1. foreign' = foreign + 1 /\ foreign \in Nat /\ Become([Now EXCEPT !.lease[x] = "other"])
    BY <1>7 DEF ForeignAcquire, IInv, TypeOK
  <2>2. ~Undisturbed'
    BY <2>1 DEF Undisturbed
  <2> QED BY <2>1, <2>2, ForeignSteps
<1>8. ASSUME NEW x \in Sessions, ForeignRelease(x) PROVE \E t : StepsTo(t)
  BY <1>8, ForeignSteps, FieldsOfNow DEF ForeignRelease
<1>9. CASE \E r \in Runs : FinishTurn(r) \/ AbortSignal(r) \/ CancelQueuedRunById(r)
  BY <1>9, FinishTurnSteps, AbortSignalSteps, CancelQueuedRunByIdSteps
<1>10. CASE \E x \in Sessions : \/ RenewLease(x) \/ AcquireExternalHold(x) \/ ReleaseExternalHold(x)
                                \/ RepairForWake(x) \/ CancelSessionRuns(x)
                                \/ CancelQueuedRunsForSession(x)
                                \/ ForeignAcquire(x) \/ ForeignRelease(x)
  BY <1>7, <1>8, <1>10, RenewLeaseSteps, AcquireExternalHoldSteps, ReleaseExternalHoldSteps,
     RepairForWakeSteps, CancelSessionRunsSteps, CancelQueuedRunsForSessionSteps
<1>11. CASE CancelAllHeartbeatRuns \/ CancelAllRuns \/ Crash \/ RecoverNext \/ Age
  BY <1>11, CancelAllHeartbeatRunsSteps, CancelAllRunsSteps, CrashSteps, RecoverNextSteps, AgeSteps
<1>12. CASE \E k \in Lanes : DeferredDrain(k)
  BY <1>12, DeferredDrainSteps
<1> QED BY <1>1, <1>2, <1>3, <1>4, <1>5, <1>6, <1>9, <1>10, <1>11, <1>12 DEF Next
-----------------------------------------------------------------------------
(* 5. The inductive invariant *)

\* The types of the variables around the manager.
EnvType ==
  /\ todo \in SUBSET Runs /\ sweeping \in BOOLEAN /\ recovered \in BOOLEAN
  /\ estop \in {"none", "autonomy", "all"} /\ pendingStops \in Nat
  /\ crashes \in Nat /\ estops \in Nat /\ foreign \in Nat

\* What a step does to the recovery loop: it takes on records that are open and
\* that no queue holds, and before recovery there is none.
LoopStep ==
  /\ \A r \in todo' \ todo : ledger'[r] = "running" \/ (r \in Runs /\ Open(Now', r) /\ queued' = {})
  /\ recovered' => recovered \/ \A r \in Runs : Open(Now', r) => r \in todo'
  /\ ~recovered' => todo' = {} /\ (recovered => queued' = {})

\* The counters only grow, and no engage request waits that was not counted.
CounterStep ==
  /\ Undisturbed' => Undisturbed
  /\ pendingStops' > 0 => estops' > 0

\* A step leaves the stop alone, empties the queues, or is no settled all-stop.
StopStep ==
  \/ estop' = estop /\ pendingStops' = pendingStops
  \/ queued' = {} \/ estop' # "all" \/ pendingStops' # 0

\* Records that are open have been created.
LEMMA OpenBorn ==
  ASSUME NEW s \in Manager, Sound(s), NEW r \in Runs, Open(s, r)
  PROVE  r \in Born(s)
<1>1. StatusFits(s, r) /\ s.lastRun \in Int /\ r \in Int
  BY DEF Sound, Manager, Runs
<1> QED BY <1>1 DEF StatusFits, Open, Born

\* What each step does to the variables around the manager.
LEMMA EnvSteps ==
  ASSUME IInv, [Next]_vars
  PROVE  /\ EnvType' /\ StopStep /\ LoopStep /\ CounterStep
         /\ \E t : StepsTo(t) /\ \A r \in todo \ todo' : ~Open(t, r)
<1> DEFINE Goal == /\ EnvType' /\ StopStep /\ LoopStep /\ CounterStep
                   /\ \E t : StepsTo(t) /\ \A r \in todo \ todo' : ~Open(t, r)
<1>1. EnvType /\ (~recovered => todo = {} /\ queued = {}) /\ (pendingStops > 0 => estops > 0)
  BY DEF IInv, TypeOK, EnvType, RecoveryFits
<1>2. \E t : StepsTo(t)
  BY NextSteps
<1>3. UNCHANGED env => EnvType' /\ StopStep /\ LoopStep /\ CounterStep /\ todo' = todo
  <2> SUFFICES ASSUME UNCHANGED env
               PROVE  EnvType' /\ StopStep /\ LoopStep /\ CounterStep /\ todo' = todo
    OBVIOUS
  <2>1. EnvType' /\ StopStep /\ CounterStep
    BY <1>1 DEF env, EnvType, StopStep, CounterStep, Undisturbed
  <2>2. LoopStep /\ todo' = todo
    BY <1>1 DEF env, LoopStep
  <2> QED BY <2>1, <2>2
<1>4. CASE UNCHANGED env
  BY <1>2, <1>3, <1>4
<1>5. ASSUME NEW level \in {"autonomy", "all"}, EngageEstop(level) PROVE Goal
  <2>1. UNCHANGED <<todo, sweeping, recovered, crashes, foreign>> /\ estop' = level /\ estops' = estops + 1
        /\ pendingStops' = IF level = "all" THEN pendingStops + 1 ELSE pendingStops
    BY <1>5 DEF EngageEstop
  <2>2. EnvType' /\ StopStep /\ CounterStep
    BY <1>1, <2>1 DEF EnvType, StopStep, CounterStep, Undisturbed
  <2>3. LoopStep
    BY <1>1, <2>1 DEF LoopStep
  <2> QED BY <1>2, <2>1, <2>2, <2>3
<1>6. CASE ResumeEstop
  <2>1. UNCHANGED <<todo, sweeping, recovered, pendingStops, crashes, estops, foreign>> /\ estop' = "none"
    BY <1>6 DEF ResumeEstop
  <2> QED BY <1>1, <1>2, <2>1 DEF EnvType, StopStep, LoopStep, CounterStep, Undisturbed
<1>7. CASE CancelAllRuns
  <2>1. UNCHANGED <<todo, sweeping, recovered, estop, crashes, estops, foreign>>
        /\ pendingStops > 0 /\ pendingStops' = pendingStops - 1
    BY <1>7 DEF CancelAllRuns
  <2>2. queued' = {}
    BY <1>7, CancelAllRunsSteps
  <2> QED BY <1>1, <1>2, <2>1, <2>2 DEF EnvType, StopStep, LoopStep, CounterStep, Undisturbed
<1>8. CASE Crash
  <2>1. queued' = {}
    BY <1>8, CrashSteps
  <2>2. /\ UNCHANGED <<todo, sweeping, estop, estops, foreign>> /\ todo = {}
        /\ crashes' = crashes + 1 /\ recovered' = FALSE /\ pendingStops' = 0
    BY <1>8, Zenon DEF Crash
  <2>3. crashes' \in Nat /\ pendingStops' \in Nat /\ ~Undisturbed' /\ ~(pendingStops' > 0)
    BY <1>1, <2>2 DEF EnvType, Undisturbed
  <2>4. EnvType'
    BY <1>1, <2>2, <2>3, Zenon DEF EnvType
  <2> QED BY <1>2, <2>1, <2>2, <2>3, <2>4 DEF StopStep, LoopStep, CounterStep
<1>9. CASE BeginRecovery
  <2>1. /\ ~recovered /\ recovered' = TRUE /\ sweeping' = FALSE
        /\ todo' = {r \in Runs : Open(Now, r)}
        /\ UNCHANGED mgr /\ UNCHANGED <<estop, pendingStops, crashes, estops, foreign>>
    BY <1>9, FieldsOfNow DEF BeginRecovery, Open
  <2>2. Now' = Now /\ queued' = queued
    BY <2>1 DEF mgr, Now
  <2>3. EnvType' /\ StopStep /\ CounterStep
    BY <1>1, <2>1 DEF EnvType, StopStep, CounterStep, Undisturbed
  <2>4. LoopStep
    BY <1>1, <2>1, <2>2 DEF LoopStep
  <2>5. todo \ todo' = {}
    BY <1>1, <2>1
  <2> QED BY <1>2, <2>3, <2>4, <2>5
<1>10. CASE RecoverNext
  <2>1. UNCHANGED <<sweeping, recovered, estop, pendingStops, crashes, estops, foreign>>
        /\ todo' \subseteq todo
    BY <1>10 DEF RecoverNext
  <2>2. \E t : StepsTo(t) /\ \A r \in todo \ todo' : ~Open(t, r)
    BY <1>10, RecoverNextSteps
  <2> QED BY <1>1, <2>1, <2>2 DEF EnvType, StopStep, LoopStep, CounterStep, Undisturbed
<1>11. ASSUME NEW overdue \in SUBSET StartedRuns, SweepStuckRuns(overdue) PROVE Goal
  <2>1. /\ todo = {} /\ recovered /\ todo' \in SUBSET overdue /\ sweeping' = TRUE
        /\ \A r \in todo' : ledger'[r] = "running"
        /\ UNCHANGED <<recovered, estop, pendingStops, crashes, estops, foreign>>
    BY <1>11 DEF SweepStuckRuns, Ready, Become
  <2>2. overdue \in SUBSET Runs
    BY SoundNow, RunningExecutes DEF Manager, StartedRuns
  <2> QED BY <1>1, <1>2, <2>1, <2>2 DEF EnvType, StopStep, LoopStep, CounterStep, Undisturbed
<1>12. ASSUME NEW x \in Sessions, ForeignAcquire(x) PROVE Goal
  <2>1. UNCHANGED <<todo, sweeping, recovered, estop, pendingStops, crashes, estops>>
        /\ foreign' = foreign + 1
    BY <1>12 DEF ForeignAcquire
  <2>2. EnvType' /\ StopStep /\ CounterStep
    BY <1>1, <2>1 DEF EnvType, StopStep, CounterStep, Undisturbed
  <2> QED BY <1>1, <1>2, <2>1, <2>2 DEF LoopStep
<1>13. CASE UNCHANGED vars
  BY <1>4, <1>13 DEF vars
<1>14. CASE \E in \in Inputs : EnqueueSessionRun(in)
  BY <1>4, <1>14 DEF EnqueueSessionRun
<1>15. CASE \E r \in Runs : FinishTurn(r) \/ AbortSignal(r) \/ CancelQueuedRunById(r)
  BY <1>4, <1>15 DEF FinishTurn, AbortSignal, CancelQueuedRunById
<1>16. CASE \E k \in Lanes : DeferredDrain(k)
  BY <1>4, <1>16 DEF DeferredDrain
<1>17. CASE \E x \in Sessions : \/ RenewLease(x) \/ AcquireExternalHold(x) \/ ReleaseExternalHold(x)
                                \/ RepairForWake(x) \/ CancelSessionRuns(x)
                                \/ CancelQueuedRunsForSession(x)
                                \/ ForeignAcquire(x) \/ ForeignRelease(x)
  BY <1>4, <1>12, <1>17 DEF RenewLease, AcquireExternalHold, ReleaseExternalHold, RepairForWake,
     CancelSessionRuns, CancelQueuedRunsForSession, ForeignRelease
<1>18. CASE CancelAllHeartbeatRuns \/ Age
  BY <1>4, <1>18 DEF CancelAllHeartbeatRuns, Age
<1> QED BY <1>5, <1>6, <1>7, <1>8, <1>9, <1>10, <1>11, <1>13, <1>14, <1>15, <1>16, <1>17, <1>18
        DEF Next

\* Recovery never loses or repeats a record: one that is open is held by a queue, a
\* turn or the loop, and one that was recovered is closed for good.
LEMMA RecoverySteps ==
  ASSUME IInv, EnvType', LoopStep, NEW t, StepsTo(t), \A r \in todo \ todo' : ~Open(t, r)
  PROVE  RecoveryFits'
<1>1. /\ Now \in Manager /\ Sound(Now) /\ t \in Manager /\ Sound(t) /\ Moves(Now, t) /\ Now' = t
      /\ t.lastRun = lastRun' /\ t.queued = queued' /\ t.ledger = ledger'
      /\ t.recoveredFrom = recoveredFrom'
  BY SoundNow DEF StepsTo, Now
<1>2. /\ ~recovered => todo = {} /\ queued = {}
      /\ todo \cap Now.queued = {} /\ \A r \in todo : r \in Born(Now)
      /\ recovered => \A r \in Runs : Open(Now, r) => r \in Live(Now) \cup todo
      /\ \A r \in Runs : Now.recoveredFrom[r] # NoRun =>
           /\ Now.recoveredFrom[r] \in Born(Now) /\ ~Open(Now, Now.recoveredFrom[r])
           /\ Now.recoveredFrom[r] \notin todo
      /\ \A r, q \in Runs : Now.recoveredFrom[r] # NoRun /\ Now.recoveredFrom[r] = Now.recoveredFrom[q] => r = q
  BY <1>1, FieldsOfNow DEF IInv, TypeOK, RecoveryFits, RecoveredOnce, Born, Manager
<1>3. \A r \in todo' \ todo : r \in Runs /\ Open(t, r) /\ r \notin t.queued
  BY <1>1 DEF LoopStep, EnvType, Open, Sound, Filed
<1>4. \A r \in Runs : Open(t, r) => r \in Born(t)
  BY <1>1, OpenBorn
<1>5. /\ t.lastRun \in Int /\ Now.lastRun \in Int /\ \A r \in Runs : r \in Int
      /\ \A r \in Runs : r \in Born(t) <=> r <= t.lastRun
      /\ \A r \in Runs : r \in Born(Now) <=> r <= Now.lastRun
  BY <1>1 DEF Manager, Runs, Born
<1>6. CASE Dies(Now, t) /\ ~recovered'
  <2>1. todo' = {} /\ t.queued = {} /\ Born(t) = Born(Now)
    BY <1>6 DEF LoopStep, Dies, Born
  <2>2. \A r \in Runs : Open(t, r) <=> Open(Now, r)
    BY <1>6 DEF Dies, Open
  <2>3. t.recoveredFrom = Now.recoveredFrom /\ \A r \in Born(Now) : r \in Runs
    BY <1>6 DEF Dies, Born
  <2>4. /\ \A r \in Runs : t.recoveredFrom[r] # NoRun =>
             t.recoveredFrom[r] <= t.lastRun /\ ~Open(t, t.recoveredFrom[r]) /\ t.recoveredFrom[r] \notin todo'
        /\ \A r, q \in Runs : t.recoveredFrom[r] # NoRun /\ t.recoveredFrom[r] = t.recoveredFrom[q] => r = q
    BY <1>2, <1>5, <2>1, <2>2, <2>3
  <2> QED BY <1>1, <1>6, <2>1, <2>4 DEF RecoveryFits, RecoveredOnce
<1>7. CASE Keeps(Now, t)
  <2>1. /\ Born(Now) \subseteq Born(t) /\ Born(t) \subseteq Runs
        /\ \A r \in Born(Now) : /\ t.recoveredFrom[r] = Now.recoveredFrom[r]
                                /\ r \in t.queued => r \in Now.queued
                                /\ Open(t, r) => Open(Now, r) /\ (r \in Live(Now) => r \in Live(t))
    BY <1>1, <1>5, <1>7 DEF Keeps, Born
  <2>2. ~recovered' => todo' = {} /\ t.queued = {}
    <3>1. CASE recovered
      BY <1>1, <3>1 DEF LoopStep
    <3>2. CASE ~recovered /\ ~recovered'
      <4>1. Now.queued = {} /\ todo' = {}
        BY <1>2, <3>2, FieldsOfNow DEF LoopStep
      <4> QED BY <1>1, <3>2, <4>1 DEF Moves, Newcomer, Evolves, Finishes, Dies
    <3> QED BY <3>1, <3>2
  <2>3. todo' \cap t.queued = {} /\ \A r \in todo' : r \in Born(t)
    BY <1>2, <1>3, <1>4, <2>1
  <2>4. \/ \A r \in Runs \ Born(Now) : t.recoveredFrom[r] = NoRun /\ ~Open(t, r)
        \/ /\ Joins(Now, t, Now.lastRun + 1) /\ Newcomer(t)
           /\ \A r \in Runs \ (Born(Now) \cup {t.lastRun}) : t.recoveredFrom[r] = NoRun /\ ~Open(t, r)
    <3>1. \A r \in Runs : ~(r <= t.lastRun) => t.recoveredFrom[r] = NoRun /\ ~Open(t, r)
      BY <1>1, <1>4, <1>5 DEF Sound, Filed
    <3>2. CASE t.lastRun = Now.lastRun
      BY <1>5, <3>1, <3>2
    <3>3. CASE Joins(Now, t, Now.lastRun + 1) /\ Newcomer(t)
      <4>1. \A r \in Runs : r \notin Born(Now) /\ r # t.lastRun => ~(r <= t.lastRun)
        BY <1>5, <3>3 DEF Joins
      <4> QED BY <3>1, <3>3, <4>1
    <3> QED BY <1>1, <3>2, <3>3 DEF Moves, Evolves, Finishes, Dies
  <2>5. recovered' => \A r \in Runs : Open(t, r) => r \in Live(t) \cup todo'
    <3> SUFFICES ASSUME recovered', NEW r \in Runs, Open(t, r) PROVE r \in Live(t) \cup todo'
      OBVIOUS
    <3>1. CASE ~recovered
      BY <1>1, <3>1 DEF LoopStep
    <3>2. CASE recovered /\ r \in Born(Now)
      BY <1>2, <2>1, <3>2
    <3>3. CASE r \notin Born(Now)
      BY <2>4, <3>3 DEF Joins, Live
    <3> QED BY <3>1, <3>2, <3>3
  <2>6. ASSUME NEW r \in Runs, t.recoveredFrom[r] # NoRun
        PROVE  /\ t.recoveredFrom[r] \in Born(Now) /\ ~Open(t, t.recoveredFrom[r])
               /\ t.recoveredFrom[r] \notin todo'
               /\ r \in Born(Now) \/ (r = t.lastRun /\ t.recoveredFrom[r] \in todo)
    <3>1. CASE r \in Born(Now)
      <4>1. /\ t.recoveredFrom[r] \in Born(Now) /\ ~Open(Now, t.recoveredFrom[r])
            /\ t.recoveredFrom[r] \notin todo
        BY <1>2, <2>1, <2>6, <3>1
      <4> QED BY <1>3, <2>1, <3>1, <4>1
    <3>2. CASE r \notin Born(Now)
      <4>1. r = t.lastRun /\ t.recoveredFrom[r] \in todo \ todo'
        BY <2>4, <2>6, <3>2 DEF Newcomer
      <4> QED BY <1>2, <4>1
    <3> QED BY <3>1, <3>2
  <2>7. ASSUME NEW r \in Runs, NEW q \in Runs, t.recoveredFrom[r] # NoRun,
               t.recoveredFrom[r] = t.recoveredFrom[q]
        PROVE  r = q
    BY <1>2, <2>1, <2>6, <2>7
  <2>8. \A r \in Runs : t.recoveredFrom[r] # NoRun =>
          t.recoveredFrom[r] <= t.lastRun /\ ~Open(t, t.recoveredFrom[r]) /\ t.recoveredFrom[r] \notin todo'
    BY <1>5, <2>1, <2>6
  <2>9. \A r \in todo' : r <= t.lastRun
    BY <2>3 DEF Born
  <2> QED BY <1>1, <2>2, <2>3, <2>5, <2>7, <2>8, <2>9 DEF RecoveryFits, RecoveredOnce
<1> QED BY <1>1, <1>6, <1>7 DEF Moves

\* The inductive invariant holds initially.
LEMMA InitIInv == Init => IInv
<1> SUFFICES ASSUME Init PROVE IInv
  OBVIOUS
<1>1. Now \in Manager /\ Sound(Now)
  BY InitSound
<1>2. EnvType /\ todo = {} /\ queued = {} /\ pendingStops = 0
  BY DEF Init, EnvType
<1>3. /\ Now.work = [x \in Sessions |-> 0] /\ Now.counted = {} /\ Now.queued = {} /\ Now.executing = {}
      /\ Now.leaseTimers = {} /\ Now.lease = [x \in Sessions |-> "none"]
  BY DEF Init, Now
<1>4. Backed(Now) /\ Calm(Now)
  BY <1>3, FS_EmptySet DEF Backed, Calm, Live
<1>5. RecoveryFits
  BY <1>2 DEF Init, Now, Open, RecoveryFits, RecoveredOnce
<1> QED BY <1>1, <1>2, <1>4, <1>5 DEF IInv, TypeOK, EnvType, AllStopEmptiesQueues

\* Every step keeps the inductive invariant.
LEMMA StepIInv == IInv /\ [Next]_vars => IInv'
<1> SUFFICES ASSUME IInv, [Next]_vars PROVE IInv'
  OBVIOUS
<1>1. EnvType' /\ StopStep /\ LoopStep /\ CounterStep
  BY EnvSteps
<1>2. PICK t : StepsTo(t) /\ \A r \in todo \ todo' : ~Open(t, r)
  BY EnvSteps
<1>3. /\ Now' \in Manager /\ Sound(Now') /\ Moves(Now, Now') /\ Now'.queued = queued'
      /\ Backed(Now) => Backed(Now') /\ (Calm(Now) /\ Undisturbed' => Calm(Now'))
  BY <1>2 DEF StepsTo, Now
<1>4. RecoveryFits'
  BY <1>1, <1>2, RecoverySteps
<1>5. AllStopEmptiesQueues'
  <2> SUFFICES ASSUME estop' = "all", pendingStops' = 0, queued' # {} PROVE FALSE
    BY DEF AllStopEmptiesQueues
  <2>1. estop = "all" /\ queued = {}
    BY <1>1 DEF StopStep, IInv, AllStopEmptiesQueues
  <2> QED BY <1>3, <2>1, FieldsOfNow DEF Moves, Newcomer, Evolves, Finishes, Dies
<1>6. Backed(Now') /\ (Undisturbed' => Calm(Now'))
  BY <1>1, <1>3 DEF IInv, CounterStep, Undisturbed
<1> QED BY <1>1, <1>3, <1>4, <1>5, <1>6 DEF IInv, TypeOK, EnvType, CounterStep, Undisturbed

\* The inductive invariant holds in every reachable state, for any sessions, lanes,
\* requests and bounds: what the queues, the running map, the abort signals and the
\* statuses of state.ts say about each other never comes apart.
THEOREM Invariance == Spec => []IInv
  BY InitIInv, StepIInv, PTL DEF Spec

\* Every variable stays in its range; in particular no work count of
\* decrementNonHeartbeatWork goes below zero.
THEOREM TypeCorrect == Spec => []TypeOK
<1>1. IInv => TypeOK
  BY DEF IInv
<1> QED BY <1>1, Invariance, PTL

\* The work count of a session never exceeds its counted runs that still wait or
\* execute, so no missed decrement of state.ts keeps its activity lease for ever.
THEOREM WorkIsBacked == Spec => []WorkCountBacked
<1>1. IInv => WorkCountBacked
  BY DEF IInv, WorkCountBacked
<1> QED BY <1>1, Invariance, PTL

\* Between handlers, a run the ledger calls queued or running is held by the process:
\* start-up recovery and the watchdog leave no ghost record behind.
THEOREM NoGhosts == Spec => []NoGhostRuns
<1>1. IInv => NoGhostRuns
  BY SoundNow DEF IInv, RecoveryFits, NoGhostRuns, Ready, Live, Manager
<1> QED BY <1>1, Invariance, PTL

\* A restart, another recovery or the watchdog never enqueues an interrupted run a
\* second time.
THEOREM RecoveredAtMostOnce == Spec => []RecoveredOnce
<1>1. IInv => RecoveredOnce
  BY DEF IInv, RecoveryFits
<1> QED BY <1>1, Invariance, PTL

\* No caller is left behind: a promise of enqueueSessionRun is pending exactly while
\* its run waits or executes, through cancellation, repair, steering and recovery.
THEOREM NoRunIsLost == Spec => []NoRunLost
<1>1. IInv => NoRunLost
  BY FieldsOfNow DEF IInv, Sound, NoRunLost
<1> QED BY <1>1, Invariance, PTL

\* After cancelAllRuns of an all-stop nothing is queued until the stop is resumed,
\* whatever timers fire and whatever is recovered meanwhile.
THEOREM AllStopHolds == Spec => []AllStopEmptiesQueues
<1>1. IInv => AllStopEmptiesQueues
  BY DEF IInv
<1> QED BY <1>1, Invariance, PTL

\* A lane executes one turn at a time as long as none of its runs has been aborted:
\* the running map of drainExecution is the lock, and only an abort breaks it.
THEOREM SerialWithoutAborts == Spec => []SerialUntilAbort
<1>1. IInv => SerialUntilAbort
  <2> SUFFICES ASSUME IInv, NEW k \in Lanes, OfLane(Now, k) \cap aborted = {},
                      NEW r \in executing \cap OfLane(Now, k)
               PROVE  r = runningByExecution[k]
    BY DEF SerialUntilAbort
  <2>1. HoldsItsLane(Now, r) /\ Now.input[r].lane = k
    BY FieldsOfNow DEF IInv, Sound, OfLane
  <2>2. \A q \in aborted : Now.input[q].lane # k
    <3> SUFFICES ASSUME NEW q \in aborted, Now.input[q].lane = k PROVE FALSE
      OBVIOUS
    <3>1. q \in Runs /\ StatusFits(Now, q)
      BY FieldsOfNow DEF IInv, TypeOK, Manager, Sound
    <3>2. Now.input[q] # NoInput
      BY <3>1, FieldsOfNow DEF IInv, TypeOK, Manager, Sound, StatusFits, Runs
    <3> QED BY <3>1, <3>2 DEF OfLane
  <2> QED BY <2>1, <2>2, FieldsOfNow DEF HoldsItsLane
<1> QED BY <1>1, Invariance, PTL

-----------------------------------------------------------------------------
(* 6. Verdicts, and the lifecycle the callers rely on *)

\* No move changes a final status.
LEMMA MovesKeepVerdicts ==
  ASSUME NEW s \in Manager, Sound(s), NEW t \in Manager, Moves(s, t),
         NEW r \in Runs, s.status[r] \in Terminal
  PROVE  t.status[r] = s.status[r]
<1>1. StatusFits(s, r) /\ r \in Int /\ s.lastRun \in Int
  BY DEF Sound, Manager, Runs
<1>2. r \notin s.queued /\ r <= s.lastRun
  BY <1>1 DEF StatusFits, Terminal
<1>3. r \in s.executing => s.status[r] = "cancelled" /\ r \in s.aborted
  BY <1>1 DEF StatusFits, Terminal
<1> QED BY <1>1, <1>2, <1>3 DEF Moves, Evolves, Joins, Finishes, Dies, Terminal

\* A final status never changes: a late turn, a repair, a sweep or a second cancel of
\* the same run cannot rewrite it.
THEOREM VerdictsAreFinal == Spec => VerdictIsFinal
<1>1. IInv /\ [Next]_vars => [\A r \in Runs : status[r] \in Terminal => status'[r] = status[r]]_vars
  <2> SUFFICES ASSUME IInv, [Next]_vars, NEW r \in Runs, status[r] \in Terminal
               PROVE  status'[r] = status[r]
    OBVIOUS
  <2>1. PICK t : StepsTo(t)
    BY NextSteps
  <2>2. t.status[r] = Now.status[r] /\ t = Now'
    BY <2>1, MovesKeepVerdicts, FieldsOfNow DEF StepsTo, IInv, TypeOK
  <2>3. Now'.status = status'
    BY DEF Now
  <2> QED BY <2>2, <2>3, FieldsOfNow
<1> QED BY <1>1, Invariance, PTL DEF Spec, VerdictIsFinal

\* Runs of one lane and class start in the order they were enqueued, however often a
\* blocked one was put back at the head of its queue.
THEOREM FifoInClass == Spec => FifoWithinClass
<1>1. IInv /\ [Next]_vars =>
        [\A r, q \in Runs :
           r \in queued \ queued' /\ r \in executing' /\ q \in queued /\ q \in queued'
           /\ SameClass(Now, r, q) => r < q]_vars
  <2> SUFFICES ASSUME IInv, [Next]_vars, NEW r \in Runs, NEW q \in Runs,
                      r \in queued, r \in executing', q \in queued, q \in queued', SameClass(Now, r, q)
               PROVE  r < q
    OBVIOUS
  <2>1. PICK t : StepsTo(t)
    BY NextSteps
  <2>2. r \in t.executing /\ q \in t.queued /\ Moves(Now, t)
    BY <2>1 DEF StepsTo, Now
  <2> QED BY <2>2, FieldsOfNow DEF Moves, Dies, Keeps
<1> QED BY <1>1, Invariance, PTL DEF Spec, FifoWithinClass

\* Every other handler leaves a lane with waiting entries something that will look
\* at it, a turn or a retry timer; only repairSessionRunQueue can take the last.
THEOREM StrandedByRepairOnly == Spec => StrandedOnlyByRepair
<1>1. IInv /\ [Next]_vars =>
        [\A k \in Lanes : Stranded(Now, k)' /\ ~Stranded(Now, k) =>
           \E r \in aged \cap OfLane(Now, k) : status'[r] = "failed"]_vars
  <2> SUFFICES ASSUME IInv, [Next]_vars, NEW k \in Lanes, Stranded(Now, k)', ~Stranded(Now, k)
               PROVE  \E r \in aged \cap OfLane(Now, k) : status'[r] = "failed"
    OBVIOUS
  <2>1. PICK t : StepsTo(t)
    BY NextSteps
  <2>2. Strands(Now, t) /\ Stranded(t, k) /\ t.status = status'
    <3>1. Strands(Now, t) /\ Now' = t
      BY <2>1 DEF StepsTo
    <3>2. Stranded(Now', k) /\ Now'.status = status'
      BY DEF Now, Stranded, Queue, OfLane
    <3> QED BY <3>1, <3>2
  <2> QED BY <2>2, FieldsOfNow DEF Strands
<1> QED BY <1>1, Invariance, PTL DEF Spec, StrandedOnlyByRepair

\* While the leases can be relied on, no heartbeat turn starts on a session whose own
\* work is queued or executing and not aborted.
THEOREM HeartbeatsYield == Spec => HeartbeatYields
<1>1. IInv /\ [Next]_vars =>
        [\A r \in executing' \ (executing \cup aborted') :
           Heartbeat(input'[r]) /\ crashes = 0 /\ estops = 0 /\ foreign = 0 =>
           \A q \in ((queued' \cup executing') \ aborted') \cap 1 .. lastRun :
             input[q].session = input'[r].session => Heartbeat(input[q])]_vars
  <2> SUFFICES ASSUME IInv, [Next]_vars, crashes = 0, estops = 0, foreign = 0,
                      NEW r \in executing' \ (executing \cup aborted'), Heartbeat(input'[r]),
                      NEW q \in ((queued' \cup executing') \ aborted') \cap 1 .. lastRun,
                      input[q].session = input'[r].session
               PROVE  Heartbeat(input[q])
    OBVIOUS
  <2>1. PICK t : StepsTo(t)
    BY NextSteps
  <2>2. /\ t \in Manager /\ Moves(Now, t) /\ Yields(Now, t)
        /\ t.executing = executing' /\ t.queued = queued' /\ t.aborted = aborted' /\ t.input = input'
    BY <2>1 DEF StepsTo, Now
  <2>3. Calm(Now)
    BY DEF IInv
  <2>4. q \in (Live(t) \ t.aborted) \cap Born(Now)
    BY <2>2, FieldsOfNow DEF Live, Born, Manager
  <2>5. t.input[q] = Now.input[q]
    BY <2>2, <2>4 DEF Moves, Keeps, Dies
  <2> QED BY <2>2, <2>3, <2>4, <2>5, FieldsOfNow DEF Yields
<1> QED BY <1>1, Invariance, PTL DEF Spec, HeartbeatYields

\* Run r stays in its phase or takes a step the lifecycle allows.
Hop(s, t, r) == Phase(t, r) = Phase(s, r) \/ <<Phase(s, r), Phase(t, r)>> \in Lifecycle!Hops

\* The phase of a run of a sound state is one of the lifecycle's.
LEMMA PhaseType ==
  ASSUME NEW s \in Manager, Sound(s), NEW r \in Runs
  PROVE  Phase(s, r) \in Lifecycle!Phases
<1>1. StatusFits(s, r) /\ r \in Int /\ s.lastRun \in Int
  BY DEF Sound, Manager, Runs
<1> QED BY <1>1 DEF Phase, StatusFits, Terminal, Lifecycle!Phases, Lifecycle!Live, Lifecycle!Ended

\* An evolution takes every run along the lifecycle.
LEMMA EvolvesHops ==
  ASSUME NEW s \in Manager, Sound(s), NEW t \in Manager, Sound(t), Evolves(s, t), NEW r \in Runs
  PROVE  Hop(s, t, r)
<1>1. StatusFits(s, r) /\ StatusFits(t, r) /\ r \in Int /\ s.lastRun \in Int /\ t.lastRun = s.lastRun
  BY DEF Sound, Manager, Runs, Evolves
<1>2. CASE r \in s.queued
  BY <1>1, <1>2 DEF Hop, Phase, StatusFits, Evolves, Lifecycle!Hops
<1>3. CASE r \in s.executing
  <2>1. r \in t.executing /\ r \notin t.queued /\ r \notin s.queued
    BY <1>3 DEF Evolves, Sound
  <2> QED BY <1>1, <1>3, <2>1 DEF Hop, Phase, Evolves, Lifecycle!Hops
<1>4. CASE r \notin s.queued \cup s.executing
  BY <1>1, <1>4 DEF Hop, Phase, Evolves
<1> QED BY <1>2, <1>3, <1>4

\* So does the end of a turn.
LEMMA FinishesHops ==
  ASSUME NEW s \in Manager, Sound(s), NEW t \in Manager, Sound(t), NEW f, Finishes(s, t, f),
         NEW r \in Runs
  PROVE  Hop(s, t, r)
<1>1. StatusFits(s, r) /\ StatusFits(t, r) /\ r \in Int /\ s.lastRun \in Int /\ t.lastRun = s.lastRun
  BY DEF Sound, Manager, Runs, Finishes
<1>2. CASE r \in s.queued
  BY <1>1, <1>2 DEF Hop, Phase, StatusFits, Finishes, Lifecycle!Hops
<1>3. CASE r \in s.executing /\ r # f
  <2>1. r \in t.executing /\ r \notin t.queued /\ r \notin s.queued
    BY <1>3 DEF Finishes, Sound
  <2> QED BY <1>1, <1>3, <2>1 DEF Hop, Phase, Finishes, Lifecycle!Hops
<1>4. CASE r = f
  <2>1. r \notin s.queued /\ r \in s.executing /\ r \notin t.queued /\ r \notin t.executing
    BY <1>4 DEF Finishes, Sound
  <2>2. r <= t.lastRun /\ t.status[r] \in Terminal /\ (r \in s.aborted => t.status[r] = "cancelled")
    BY <1>1, <1>4, <2>1 DEF StatusFits, Finishes
  <2> QED BY <1>1, <2>1, <2>2 DEF Hop, Phase, Terminal, Lifecycle!Hops
<1>5. CASE r \notin s.queued \cup s.executing
  BY <1>1, <1>5 DEF Hop, Phase, Finishes
<1> QED BY <1>2, <1>3, <1>4, <1>5

\* A new run starts waiting or executing; the others go along the lifecycle.
LEMMA JoinsHops ==
  ASSUME NEW s \in Manager, Sound(s), NEW t \in Manager, Sound(t), NEW n, Joins(s, t, n)
  PROVE  /\ Phase(t, n) \in {"waiting", "executing"}
         /\ \A r \in Runs \ {n} : Hop(s, t, r)
<1>1. Phase(t, n) \in {"waiting", "executing"}
  BY DEF Phase, Joins
<1> SUFFICES ASSUME NEW r \in Runs, r # n PROVE Hop(s, t, r)
  BY <1>1
<1>2. /\ StatusFits(s, r) /\ StatusFits(t, r) /\ r \in Int /\ s.lastRun \in Int
      /\ t.lastRun = s.lastRun + 1 /\ n = s.lastRun + 1
  BY DEF Sound, Manager, Runs, Joins
<1>3. CASE r \in s.queued
  BY <1>2, <1>3 DEF Hop, Phase, StatusFits, Joins, Lifecycle!Hops
<1>4. CASE r \in s.executing
  <2>1. r \in t.executing /\ r \notin t.queued /\ r \notin s.queued
    BY <1>4 DEF Joins, Sound
  <2> QED BY <1>2, <1>4, <2>1 DEF Hop, Phase, Joins, Lifecycle!Hops
<1>5. CASE r \notin s.queued \cup s.executing
  BY <1>2, <1>5 DEF Hop, Phase, Joins
<1> QED BY <1>3, <1>4, <1>5

\* A restart loses exactly the live runs.
LEMMA DiesRestarts ==
  ASSUME NEW s \in Manager, Sound(s), NEW t \in Manager, Dies(s, t), NEW r \in Runs
  PROVE  IF Phase(s, r) \in Lifecycle!Live
         THEN Phase(t, r) \in (IF Phase(s, r) = "stopping" THEN {"lost", "cancelled"} ELSE {"lost"})
         ELSE Phase(t, r) = Phase(s, r)
<1>1. StatusFits(s, r) /\ r \in Int /\ s.lastRun \in Int /\ t.lastRun = s.lastRun
  BY DEF Sound, Manager, Runs, Dies
<1>2. r \notin t.queued /\ r \notin t.executing
  BY DEF Dies
<1> QED BY <1>1, <1>2 DEF StatusFits, Phase, Dies, Terminal, Lifecycle!Live

\* Every step of the manager is a step of the lifecycle or changes no phase.
LEMMA RefinementStep ==
  ASSUME IInv, [Next]_vars
  PROVE  [Lifecycle!Next]_<<lastRun, [r \in Runs |-> Phase(Now, r)]>>
<1> DEFINE ph == [r \in Runs |-> Phase(Now, r)]
           pt == [r \in Runs |-> Phase(Now', r)]
<1>1. /\ Now \in Manager /\ Sound(Now) /\ Now' \in Manager /\ Sound(Now') /\ Moves(Now, Now')
      /\ Now.lastRun = lastRun /\ Now'.lastRun = lastRun'
  BY NextSteps, FieldsOfNow DEF StepsTo, IInv, TypeOK, Now
<1>2. pt \in [Runs -> Lifecycle!Phases] /\ ph' = pt
  BY <1>1, PhaseType
<1>3. CASE Evolves(Now, Now')
  BY <1>1, <1>2, <1>3, EvolvesHops
     DEF Evolves, Hop, Lifecycle!Next, Lifecycle!Serve, Lifecycle!Advance, Lifecycle!Run, Runs
<1>4. CASE Joins(Now, Now', Now.lastRun + 1)
  <2> DEFINE n == lastRun + 1
  <2>1. n \in Runs /\ lastRun' = n /\ lastRun < MaxRuns /\ Lifecycle!Run = Runs
    BY <1>1, <1>4, Assumption DEF Joins, Runs, Manager, Lifecycle!Run
  <2>2. Phase(Now', n) \in {"waiting", "executing"} /\ \A r \in Runs \ {n} : Hop(Now, Now', r)
    BY <1>1, <1>4, JoinsHops
  <2>3. pt[n] \in {"waiting", "executing"}
    BY <2>1, <2>2
  <2>4. \A r \in Runs \ {n} : pt[r] = ph[r] \/ <<ph[r], pt[r]>> \in Lifecycle!Hops
    BY <2>2 DEF Hop
  <2> HIDE DEF pt
  <2>5. Lifecycle!Submit
    BY <1>2, <2>1, <2>3, <2>4 DEF Lifecycle!Submit, Lifecycle!Advance
  <2> QED BY <2>5 DEF Lifecycle!Next
<1>5. CASE \E r \in Now.executing : Finishes(Now, Now', r)
  BY <1>1, <1>2, <1>5, FinishesHops
     DEF Finishes, Hop, Lifecycle!Next, Lifecycle!Serve, Lifecycle!Advance, Lifecycle!Run, Runs
<1>6. CASE Dies(Now, Now')
  BY <1>1, <1>2, <1>6, DiesRestarts
     DEF Dies, Lifecycle!Next, Lifecycle!Restart, Lifecycle!Run, Runs
<1> QED BY <1>1, <1>3, <1>4, <1>5, <1>6 DEF Moves

\* The manager implements the lifecycle its callers rely on (RunLifecycle).
THEOREM Refinement == Spec => ImplementsLifecycle
<1>1. Init => Lifecycle!Init
  BY Assumption DEF Init, Now, Phase, Lifecycle!Init, Lifecycle!Run, Runs
<1>2. IInv /\ [Next]_vars => [Lifecycle!Next]_<<lastRun, [r \in Runs |-> Phase(Now, r)]>>
  BY RefinementStep
<1> QED BY <1>1, <1>2, Invariance, PTL DEF Spec, ImplementsLifecycle, Lifecycle!Spec
=============================================================================
