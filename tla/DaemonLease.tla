----------------------------- MODULE DaemonLease -----------------------------
(***************************************************************************)
(* Which process runs the daemon (runtime/daemon-state/core.ts): a row of  *)
(* the lock table with a time to live (storage-locks.ts), renewed by its   *)
(* owner, taken over from an owner that looks dead (daemon/lease-owner.ts).*)
(*                                                                         *)
(* Start and stop run to their next await, but each statement on the lock  *)
(* table is a step of its own: asked tells how far a process has come in   *)
(* acquireDaemonLease.  The renewal timer is armed exactly while           *)
(* primaryLeaseHeld, so it needs no variable.                              *)
(***************************************************************************)
EXTENDS Integers, FiniteSets

CONSTANTS
  Hosts,        \* the processes, those of each machine a set
  MaxStops,     \* bound: stops asked for
  MaxBreaks,    \* bound: crashes, failed starts and database statements, missed renewals,
                \* and living owners of another machine that are taken for dead
  Ghost, Nobody \* owner strings: of a process that is gone; no row

Candidates == UNION Hosts
ASSUME LeaseAssumption ==
  /\ Ghost # Nobody /\ {Ghost, Nobody} \cap Candidates = {}
  /\ MaxStops \in Nat /\ MaxBreaks \in Nat

VARIABLES
  lease,              \* runtime_locks["daemon-primary"]
  running, primaryLeaseHeld, manualStopRequested,
  stopping,           \* calls of stopDaemon that await the connectors
  leaseRetry,         \* leaseRetryTimeoutId
  starting,           \* the process has come up and will call ensureDaemonStarted;
                      \* not where the setting daemonAutostartEnabled is off
  asked,              \* a call of startDaemon between two statements
  excuse,             \* why an active daemon may be without the row
  stops, breaks

leaseVars == <<lease, running, primaryLeaseHeld, manualStopRequested, stopping, leaseRetry,
               starting, asked, excuse, stops, breaks>>

NoRow == [owner |-> Nobody, live |-> FALSE]
Idle == [step |-> "idle", owner |-> Nobody]
Excuses == {"overslept", "dropped", "robbed"}

Neighbours(p, q) == \E h \in Hosts : {p, q} \subseteq h

\* Services of the daemon, or its connectors, are up in p.
DaemonUp(p) == running[p] \/ stopping[p] > 0

\* tryAcquireRuntimeLock
Takeable(p) == lease.owner \in {Nobody, p} \/ ~lease.live

\* isOwnerProcessDead: the owner's pid is looked for on the own machine.  A pid
\* may be in use again, and that of another machine says nothing.
LooksDead(p, o) ==
  IF o = Ghost THEN BOOLEAN
  ELSE IF o = Nobody \/ Neighbours(p, o) THEN {FALSE} ELSE BOOLEAN

Break == breaks < MaxBreaks /\ breaks' = breaks + 1

\* The daemon of p goes up, now that p holds the lease; or its services throw.
GoUp(p) ==
  /\ running' = [running EXCEPT ![p] = TRUE]
  /\ primaryLeaseHeld' = [primaryLeaseHeld EXCEPT ![p] = TRUE]
  /\ \/ asked' = [asked EXCEPT ![p] = Idle] /\ UNCHANGED breaks
     \/ asked' = [asked EXCEPT ![p] = [step |-> "throws", owner |-> Nobody]] /\ Break

Take(p) == /\ lease' = [owner |-> p, live |-> TRUE]
           /\ excuse' = [excuse EXCEPT ![p] = {}]
           /\ GoUp(p)

\* Bug: the row goes, whoever owns it.
DeleteRow(p) == NoRow

\* releaseRuntimeLock
AfterRelease(p) == IF lease.owner = p THEN NoRow ELSE lease

\* stopDaemonLeaseRenewal.  up: p is still active afterwards.
Release(p, up) ==
  /\ primaryLeaseHeld' = [primaryLeaseHeld EXCEPT ![p] = FALSE]
  /\ lease' = IF primaryLeaseHeld[p] THEN AfterRelease(p) ELSE lease
  /\ excuse' = [excuse EXCEPT ![p] =
       IF ~up THEN {} ELSE IF primaryLeaseHeld[p] THEN @ \cup {"dropped"} ELSE @]

-----------------------------------------------------------------------------
LeaseInit ==
  /\ lease = NoRow
  /\ running = [p \in Candidates |-> FALSE]
  /\ primaryLeaseHeld = [p \in Candidates |-> FALSE]
  /\ manualStopRequested = [p \in Candidates |-> FALSE]
  /\ stopping = [p \in Candidates |-> 0]
  /\ leaseRetry = [p \in Candidates |-> FALSE]
  /\ starting \in {[p \in Candidates |-> auto] : auto \in BOOLEAN}
  /\ asked = [p \in Candidates |-> Idle]
  /\ excuse = [p \in Candidates |-> {}]
  /\ stops = 0 /\ breaks = 0

\* startDaemon: a lease that is held is not looked at again; otherwise the
\* first statement of acquireDaemonLease.
StartDaemon(p) ==
  \/ /\ primaryLeaseHeld[p]
     /\ GoUp(p)
     /\ UNCHANGED <<lease, excuse>>
  \/ /\ ~primaryLeaseHeld[p] /\ Takeable(p)
     /\ Take(p)
  \/ /\ ~primaryLeaseHeld[p] /\ ~Takeable(p)
     /\ asked' = [asked EXCEPT ![p] = [step |-> "refused", owner |-> Nobody]]
     /\ UNCHANGED <<lease, running, primaryLeaseHeld, excuse, breaks>>
  \/ /\ ~primaryLeaseHeld[p]
     /\ Break
     /\ UNCHANGED <<lease, running, primaryLeaseHeld, excuse, asked>>

\* ensureDaemonStarted, at the start of the process or from a route.
EnsureDaemonStarted(p) ==
  /\ asked[p] = Idle
  /\ starting' = [starting EXCEPT ![p] = FALSE]
  /\ IF running[p] \/ manualStopRequested[p]
     THEN UNCHANGED <<lease, running, primaryLeaseHeld, asked, excuse, breaks>>
     ELSE StartDaemon(p)
  /\ UNCHANGED <<manualStopRequested, stopping, leaseRetry, stops>>

\* The operator starts the daemon.
StartManually(p) ==
  /\ asked[p] = Idle /\ ~running[p]
  /\ manualStopRequested' = [manualStopRequested EXCEPT ![p] = FALSE]
  /\ StartDaemon(p)
  /\ UNCHANGED <<stopping, leaseRetry, starting, stops>>

\* The start was refused: the row is read, and its owner looks dead, or a timer
\* is armed for the end of the row's time.  Without a row there is no timer.
ReadLease(p) ==
  /\ asked[p].step = "refused"
  /\ \E dead \in LooksDead(p, lease.owner) :
       IF dead
       THEN /\ asked' = [asked EXCEPT ![p] = [step |-> "dead", owner |-> lease.owner]]
            /\ IF lease.owner = Ghost THEN UNCHANGED breaks ELSE Break
            /\ UNCHANGED leaseRetry
       ELSE /\ asked' = [asked EXCEPT ![p] = Idle] /\ UNCHANGED breaks
            /\ leaseRetry' = [leaseRetry EXCEPT ![p] = @ \/ lease # NoRow]
  /\ UNCHANGED <<lease, running, primaryLeaseHeld, manualStopRequested, stopping, starting,
                 excuse, stops>>

\* The dead owner's row is deleted, if it is still there.
ReclaimLease(p) ==
  /\ asked[p].step = "dead"
  /\ LET o == asked[p].owner
     IN /\ lease' = IF lease.owner = o THEN NoRow ELSE lease
        /\ excuse' = IF lease.owner = o /\ o \in Candidates /\ DaemonUp(o)
                     THEN [excuse EXCEPT ![o] = @ \cup {"robbed"}] ELSE excuse
  /\ asked' = [asked EXCEPT ![p].step = "reclaimed"]
  /\ UNCHANGED <<running, primaryLeaseHeld, manualStopRequested, stopping, leaseRetry, starting,
                 stops, breaks>>

RetryAcquire(p) ==
  /\ asked[p].step = "reclaimed"
  /\ \/ Takeable(p) /\ Take(p) /\ UNCHANGED leaseRetry
     \/ /\ ~Takeable(p)
        /\ asked' = [asked EXCEPT ![p] = Idle]
        /\ leaseRetry' = [leaseRetry EXCEPT ![p] = TRUE]
        /\ UNCHANGED <<lease, running, primaryLeaseHeld, excuse, breaks>>
  /\ UNCHANGED <<manualStopRequested, stopping, starting, stops>>

\* The catch block of startDaemon.
StartFails(p) ==
  /\ asked[p].step = "throws"
  /\ asked' = [asked EXCEPT ![p] = Idle]
  /\ running' = [running EXCEPT ![p] = FALSE]
  /\ Release(p, stopping[p] > 0)
  /\ UNCHANGED <<manualStopRequested, stopping, leaseRetry, starting, stops, breaks>>

\* leaseRetryTimeoutId fires.
LeaseRetryFires(p) ==
  /\ asked[p] = Idle /\ leaseRetry[p]
  /\ leaseRetry' = [leaseRetry EXCEPT ![p] = FALSE]
  /\ IF running[p] \/ primaryLeaseHeld[p] \/ manualStopRequested[p]
     THEN UNCHANGED <<lease, running, primaryLeaseHeld, asked, excuse, breaks>>
     ELSE StartDaemon(p)
  /\ UNCHANGED <<manualStopRequested, stopping, starting, stops>>

\* Bug: a row that is gone counts as renewed.
RenewsAnyway(p) == TRUE

\* renewRuntimeLock does not look at the time.
Renewed(p) == lease.owner = p

\* The renewal timer: a daemon that cannot renew stops.
RenewLease(p) ==
  /\ asked[p] = Idle /\ running[p] /\ primaryLeaseHeld[p]
  /\ \/ /\ Renewed(p)
        /\ lease' = [lease EXCEPT !.live = TRUE]
        /\ excuse' = [excuse EXCEPT ![p] = @ \ {"overslept"}]
        /\ UNCHANGED <<running, primaryLeaseHeld, stopping, breaks>>
     \/ /\ \/ ~Renewed(p) /\ UNCHANGED breaks
           \/ Break
        /\ primaryLeaseHeld' = [primaryLeaseHeld EXCEPT ![p] = FALSE]
        /\ running' = [running EXCEPT ![p] = FALSE]
        /\ stopping' = [stopping EXCEPT ![p] = @ + 1]
        /\ UNCHANGED <<lease, excuse>>
  /\ UNCHANGED <<manualStopRequested, leaseRetry, starting, asked, stops>>

\* stopDaemon by the operator or, without the mark, at shutdown.
StopDaemon(p) ==
  /\ asked[p] = Idle /\ stops < MaxStops /\ stops' = stops + 1
  /\ \E manual \in BOOLEAN : manualStopRequested' = [manualStopRequested EXCEPT ![p] = @ \/ manual]
  /\ IF running[p]
     THEN /\ running' = [running EXCEPT ![p] = FALSE]
          /\ stopping' = [stopping EXCEPT ![p] = @ + 1]
          /\ UNCHANGED <<lease, primaryLeaseHeld, excuse>>
     ELSE Release(p, stopping[p] > 0) /\ UNCHANGED <<running, stopping>>
  /\ UNCHANGED <<leaseRetry, starting, asked, breaks>>

\* The connectors are stopped, or 15 seconds are over: the finally block.
StopEnds(p) ==
  /\ asked[p] = Idle /\ stopping[p] > 0
  /\ stopping' = [stopping EXCEPT ![p] = @ - 1]
  /\ Release(p, running[p] \/ stopping[p] > 1)
  /\ UNCHANGED <<running, manualStopRequested, leaseRetry, starting, asked, stops, breaks>>

\* The row's time is over.  A running owner that did not renew in time is a fault.
LeaseExpires ==
  /\ lease.live /\ lease' = [lease EXCEPT !.live = FALSE]
  /\ IF lease.owner \in Candidates /\ DaemonUp(lease.owner)
     THEN Break /\ excuse' = [excuse EXCEPT ![lease.owner] = @ \cup {"overslept"}]
     ELSE UNCHANGED <<excuse, breaks>>
  /\ UNCHANGED <<running, primaryLeaseHeld, manualStopRequested, stopping, leaseRetry, starting,
                 asked, stops>>

\* p dies and comes up again, under another owner string.  Dead owners are not
\* told apart.
ProcessDies(p) ==
  /\ Break
  /\ lease' = IF lease.owner = p THEN [lease EXCEPT !.owner = Ghost] ELSE lease
  /\ running' = [running EXCEPT ![p] = FALSE]
  /\ primaryLeaseHeld' = [primaryLeaseHeld EXCEPT ![p] = FALSE]
  /\ manualStopRequested' = [manualStopRequested EXCEPT ![p] = FALSE]
  /\ stopping' = [stopping EXCEPT ![p] = 0]
  /\ leaseRetry' = [leaseRetry EXCEPT ![p] = FALSE]
  /\ starting' = [starting EXCEPT ![p] = TRUE]
  /\ asked' = [q \in Candidates |->
       IF q = p THEN Idle ELSE IF asked[q].owner = p THEN [asked[q] EXCEPT !.owner = Ghost] ELSE asked[q]]
  /\ excuse' = [excuse EXCEPT ![p] = {}]
  /\ UNCHANGED stops

LeaseNext ==
  \/ \E p \in Candidates :
       \/ EnsureDaemonStarted(p) \/ StartManually(p) \/ ReadLease(p) \/ ReclaimLease(p)
       \/ RetryAcquire(p) \/ StartFails(p) \/ LeaseRetryFires(p) \/ RenewLease(p)
       \/ StopDaemon(p) \/ StopEnds(p) \/ ProcessDies(p)
  \/ LeaseExpires

LeaseSpec == LeaseInit /\ [][LeaseNext]_leaseVars

\* A synchronous call goes on, and the renewal timer fires.
LeaseFairness ==
  \A p \in Candidates :
    /\ WF_leaseVars(ReadLease(p) \/ ReclaimLease(p) \/ RetryAcquire(p) \/ StartFails(p))
    /\ WF_leaseVars(RenewLease(p))
=============================================================================
