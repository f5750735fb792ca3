-------------------------- MODULE DaemonLeaseProofs --------------------------
(***************************************************************************)
(* For any number of machines and processes: one daemon at a time.         *)
(***************************************************************************)
EXTENDS DaemonLeaseProperties, TLAPS

USE DEF Excuses

-----------------------------------------------------------------------------
(* Types *)

LEMMA GhostsAreNoProcess ==
  Ghost \notin Candidates /\ Nobody \notin Candidates /\ Ghost # Nobody
  BY LeaseAssumption

LEMMA BreakTyped ==
  ASSUME LeaseTypeOK, Break PROVE breaks' \in 0 .. MaxBreaks
  BY LeaseAssumption DEF LeaseTypeOK, Break

\* A daemon that goes up keeps what it assigns in range.
LEMMA GoUpTyped ==
  ASSUME LeaseTypeOK, NEW p \in Candidates, GoUp(p)
  PROVE  /\ running' \in [Candidates -> BOOLEAN] /\ primaryLeaseHeld' \in [Candidates -> BOOLEAN]
         /\ asked' \in [Candidates -> [step : {"idle", "refused", "dead", "reclaimed", "throws"},
                                       owner : Candidates \cup {Ghost, Nobody}]]
         /\ breaks' \in 0 .. MaxBreaks
  BY BreakTyped DEF LeaseTypeOK, GoUp, Idle

LEMMA TakeTyped ==
  ASSUME LeaseTypeOK, NEW p \in Candidates, Take(p)
  PROVE  /\ lease' \in [owner : Candidates \cup {Ghost, Nobody}, live : BOOLEAN]
         /\ lease'.owner # Nobody
         /\ excuse' \in [Candidates -> SUBSET Excuses]
  BY GhostsAreNoProcess DEF LeaseTypeOK, Take

LEMMA AskedTyped ==
  ASSUME LeaseTypeOK, NEW p \in Candidates
  PROVE  [asked EXCEPT ![p] = Idle] \in
           [Candidates -> [step : {"idle", "refused", "dead", "reclaimed", "throws"},
                           owner : Candidates \cup {Ghost, Nobody}]]
  BY DEF LeaseTypeOK, Idle

LEMMA StartTyped ==
  ASSUME LeaseTypeOK, NEW p \in Candidates, StartDaemon(p)
  PROVE  /\ lease' \in [owner : Candidates \cup {Ghost, Nobody}, live : BOOLEAN]
         /\ lease'.owner = Nobody => lease' = NoRow
         /\ running' \in [Candidates -> BOOLEAN] /\ primaryLeaseHeld' \in [Candidates -> BOOLEAN]
         /\ asked' \in [Candidates -> [step : {"idle", "refused", "dead", "reclaimed", "throws"},
                                       owner : Candidates \cup {Ghost, Nobody}]]
         /\ excuse' \in [Candidates -> SUBSET Excuses]
         /\ breaks' \in 0 .. MaxBreaks
<1>1. CASE primaryLeaseHeld[p] /\ GoUp(p) /\ UNCHANGED <<lease, excuse>>
  BY <1>1, GoUpTyped DEF LeaseTypeOK, NoRow
<1>2. CASE Take(p)
  BY <1>2, TakeTyped, GoUpTyped DEF LeaseTypeOK, Take
<1>3. CASE /\ asked' = [asked EXCEPT ![p] = [step |-> "refused", owner |-> Nobody]]
           /\ UNCHANGED <<lease, running, primaryLeaseHeld, excuse, breaks>>
  BY <1>3 DEF LeaseTypeOK, NoRow
<1>4. CASE /\ Break
           /\ UNCHANGED <<lease, running, primaryLeaseHeld, excuse, asked>>
  BY <1>4, BreakTyped DEF LeaseTypeOK, NoRow
<1> QED BY <1>1, <1>2, <1>3, <1>4 DEF StartDaemon

LEMMA TypeStep == LeaseTypeOK /\ [LeaseNext]_leaseVars => LeaseTypeOK'
<1> SUFFICES ASSUME LeaseTypeOK, [LeaseNext]_leaseVars PROVE LeaseTypeOK'
  OBVIOUS
<1> USE DEF LeaseTypeOK
<1>1. ASSUME NEW p \in Candidates, EnsureDaemonStarted(p) PROVE LeaseTypeOK'
  BY <1>1, StartTyped DEF EnsureDaemonStarted, NoRow
<1>2. ASSUME NEW p \in Candidates, StartManually(p) PROVE LeaseTypeOK'
  BY <1>2, StartTyped DEF StartManually
<1>3. ASSUME NEW p \in Candidates, ReadLease(p) PROVE LeaseTypeOK'
  <2>1. breaks' \in 0 .. MaxBreaks BY <1>3, BreakTyped DEF ReadLease
  <2>2. asked' \in [Candidates -> [step : {"idle", "refused", "dead", "reclaimed", "throws"},
                                   owner : Candidates \cup {Ghost, Nobody}]]
    BY <1>3 DEF ReadLease, Idle
  <2> QED BY <1>3, <2>1, <2>2 DEF ReadLease, NoRow
<1>4. ASSUME NEW p \in Candidates, ReclaimLease(p) PROVE LeaseTypeOK'
  BY <1>4 DEF ReclaimLease, NoRow
<1>5. ASSUME NEW p \in Candidates, RetryAcquire(p) PROVE LeaseTypeOK'
  <2>1. CASE Take(p)
    BY <1>5, <2>1, TakeTyped, GoUpTyped DEF RetryAcquire, Take
  <2>2. CASE /\ asked' = [asked EXCEPT ![p] = Idle]
             /\ leaseRetry' = [leaseRetry EXCEPT ![p] = TRUE]
             /\ UNCHANGED <<lease, running, primaryLeaseHeld, excuse, breaks>>
    BY <1>5, <2>2, AskedTyped DEF RetryAcquire, NoRow
  <2> QED BY <1>5, <2>1, <2>2 DEF RetryAcquire
<1>6. ASSUME NEW p \in Candidates, StartFails(p) PROVE LeaseTypeOK'
  BY <1>6, AskedTyped DEF StartFails, Release, AfterRelease, NoRow
<1>7. ASSUME NEW p \in Candidates, LeaseRetryFires(p) PROVE LeaseTypeOK'
  BY <1>7, StartTyped DEF LeaseRetryFires, NoRow
<1>8. ASSUME NEW p \in Candidates, RenewLease(p) PROVE LeaseTypeOK'
  <2>1. CASE Renewed(p) /\ lease' = [lease EXCEPT !.live = TRUE]
             /\ excuse' = [excuse EXCEPT ![p] = @ \ {"overslept"}]
             /\ UNCHANGED <<running, primaryLeaseHeld, stopping, breaks>>
    BY <1>8, <2>1, GhostsAreNoProcess DEF RenewLease, Renewed
  <2>2. CASE /\ \/ UNCHANGED breaks
                \/ Break
             /\ primaryLeaseHeld' = [primaryLeaseHeld EXCEPT ![p] = FALSE]
             /\ running' = [running EXCEPT ![p] = FALSE]
             /\ stopping' = [stopping EXCEPT ![p] = @ + 1]
             /\ UNCHANGED <<lease, excuse>>
    BY <1>8, <2>2, BreakTyped DEF RenewLease, NoRow
  <2> QED BY <1>8, <2>1, <2>2 DEF RenewLease
<1>9. ASSUME NEW p \in Candidates, StopDaemon(p) PROVE LeaseTypeOK'
  <2>1. stops' \in 0 .. MaxStops /\ manualStopRequested' \in [Candidates -> BOOLEAN]
    BY <1>9, LeaseAssumption DEF StopDaemon
  <2>2. CASE running[p]
    <3>1. /\ running' = [running EXCEPT ![p] = FALSE]
          /\ stopping' = [stopping EXCEPT ![p] = @ + 1]
          /\ UNCHANGED <<lease, primaryLeaseHeld, excuse>>
          /\ UNCHANGED <<leaseRetry, starting, asked, breaks>>
      BY <1>9, <2>2, Zenon DEF StopDaemon
    <3> QED BY <2>1, <3>1 DEF NoRow
  <2>3. CASE ~running[p]
    <3>1. /\ Release(p, stopping[p] > 0) /\ UNCHANGED <<running, stopping>>
          /\ UNCHANGED <<leaseRetry, starting, asked, breaks>>
      BY <1>9, <2>3, Zenon DEF StopDaemon
    <3> QED BY <2>1, <3>1 DEF Release, AfterRelease, NoRow
  <2> QED BY <2>2, <2>3
<1>10. ASSUME NEW p \in Candidates, StopEnds(p) PROVE LeaseTypeOK'
  <2>1. stopping' \in [Candidates -> Nat] BY <1>10 DEF StopEnds
  <2> QED BY <1>10, <2>1 DEF StopEnds, Release, AfterRelease, NoRow
<1>11. ASSUME NEW p \in Candidates, ProcessDies(p) PROVE LeaseTypeOK'
  <2>1. breaks' \in 0 .. MaxBreaks BY <1>11, BreakTyped DEF ProcessDies
  <2>2. asked' \in [Candidates -> [step : {"idle", "refused", "dead", "reclaimed", "throws"},
                                   owner : Candidates \cup {Ghost, Nobody}]]
    BY <1>11 DEF ProcessDies, Idle
  <2> QED BY <1>11, <2>1, <2>2, GhostsAreNoProcess DEF ProcessDies, NoRow
<1>12. CASE LeaseExpires
  <2>1. breaks' \in 0 .. MaxBreaks BY <1>12, BreakTyped DEF LeaseExpires
  <2>2. excuse' \in [Candidates -> SUBSET Excuses] BY <1>12 DEF LeaseExpires
  <2>3. lease' \in [owner : Candidates \cup {Ghost, Nobody}, live : BOOLEAN]
        /\ (lease'.owner = Nobody => lease' = NoRow)
    BY <1>12, GhostsAreNoProcess DEF LeaseExpires, NoRow
  <2> QED BY <1>12, <2>1, <2>2, <2>3 DEF LeaseExpires
<1>13. CASE UNCHANGED leaseVars BY <1>13 DEF leaseVars, NoRow
<1> QED
  BY <1>1, <1>2, <1>3, <1>4, <1>5, <1>6, <1>7, <1>8, <1>9, <1>10, <1>11, <1>12, <1>13 DEF LeaseNext

-----------------------------------------------------------------------------
(* The invariant: every change of the row is made by its owner, at the expense *)
(* of one whose time is over, or leaves an excuse.                             *)

\* A daemon goes up: it has just taken the row, or it held the lease already
\* and was up.
LEMMA StartKeeps ==
  ASSUME LeaseIInv, NEW p \in Candidates, StartDaemon(p), UNCHANGED stopping
  PROVE  HolderIsUp' /\ UpHasRow'
<1> USE DEF LeaseIInv, LeaseTypeOK, HolderIsUp, UpHasRow, DaemonUp
<1>1. CASE primaryLeaseHeld[p] /\ GoUp(p) /\ UNCHANGED <<lease, excuse>>
  BY <1>1 DEF GoUp
<1>2. CASE Take(p) /\ (lease.owner \in {Nobody, p} \/ ~lease.live)
  BY <1>2, GhostsAreNoProcess DEF Take, GoUp
<1>3. CASE UNCHANGED <<lease, running, primaryLeaseHeld, excuse>>
  BY <1>3
<1> QED BY <1>1, <1>2, <1>3 DEF StartDaemon, Takeable

\* A daemon gives the lease back: it is down afterwards, or has an excuse, or
\* had not held it.
LEMMA ReleaseKeeps ==
  ASSUME LeaseIInv, NEW p \in Candidates,
         Release(p, running'[p] \/ stopping'[p] > 0),
         DaemonUp(p)' => DaemonUp(p),
         \A q \in Candidates \ {p} : running'[q] = running[q] /\ stopping'[q] = stopping[q]
  PROVE  HolderIsUp' /\ UpHasRow'
<1> USE DEF LeaseIInv, LeaseTypeOK, HolderIsUp, UpHasRow, DaemonUp
<1>1. ~primaryLeaseHeld'[p] BY DEF Release
<1>2. ASSUME DaemonUp(p)', excuse'[p] = {} PROVE lease'.owner = p /\ lease'.live
  <2>1. ~primaryLeaseHeld[p] /\ excuse[p] = {} BY <1>2 DEF Release
  <2> QED BY <1>2, <2>1 DEF Release
<1>3. ASSUME NEW q \in Candidates \ {p}
      PROVE  /\ primaryLeaseHeld'[q] => DaemonUp(q)'
             /\ DaemonUp(q)' /\ excuse'[q] = {} => lease'.owner = q /\ lease'.live
  BY <1>3 DEF Release, AfterRelease
<1> QED BY <1>1, <1>2, <1>3

LEMMA SoundStep == LeaseIInv /\ [LeaseNext]_leaseVars => HolderIsUp' /\ UpHasRow'
<1> SUFFICES ASSUME LeaseIInv, [LeaseNext]_leaseVars PROVE HolderIsUp' /\ UpHasRow'
  OBVIOUS
<1> USE DEF LeaseIInv
<1> DEFINE Same == UNCHANGED <<lease, running, primaryLeaseHeld, stopping, excuse>>
<1>0. CASE Same
  BY <1>0 DEF LeaseTypeOK, HolderIsUp, UpHasRow, DaemonUp
<1>1. ASSUME NEW p \in Candidates, EnsureDaemonStarted(p) PROVE HolderIsUp' /\ UpHasRow'
  BY <1>0, <1>1, StartKeeps DEF EnsureDaemonStarted
<1>2. ASSUME NEW p \in Candidates, StartManually(p) PROVE HolderIsUp' /\ UpHasRow'
  BY <1>2, StartKeeps DEF StartManually
<1>3. ASSUME NEW p \in Candidates, ReadLease(p) PROVE HolderIsUp' /\ UpHasRow'
  BY <1>0, <1>3 DEF ReadLease
<1>4. ASSUME NEW p \in Candidates, ReclaimLease(p) PROVE HolderIsUp' /\ UpHasRow'
  BY <1>4, GhostsAreNoProcess DEF ReclaimLease, LeaseTypeOK, HolderIsUp, UpHasRow, DaemonUp, NoRow
<1>5. ASSUME NEW p \in Candidates, RetryAcquire(p) PROVE HolderIsUp' /\ UpHasRow'
  <2>1. CASE Takeable(p) /\ Take(p)
    BY <1>5, <2>1, GhostsAreNoProcess
       DEF RetryAcquire, Take, Takeable, GoUp, LeaseTypeOK, HolderIsUp, UpHasRow, DaemonUp
  <2> QED BY <1>0, <1>5, <2>1 DEF RetryAcquire
<1>6. ASSUME NEW p \in Candidates, StartFails(p) PROVE HolderIsUp' /\ UpHasRow'
  <2>1. /\ ~running'[p] /\ stopping'[p] = stopping[p]
        /\ \A q \in Candidates \ {p} : running'[q] = running[q] /\ stopping'[q] = stopping[q]
    BY <1>6 DEF StartFails, LeaseTypeOK
  <2>2. Release(p, running'[p] \/ stopping'[p] > 0)
    BY <1>6, <2>1 DEF StartFails, Release
  <2> QED BY <2>1, <2>2, ReleaseKeeps DEF DaemonUp
<1>7. ASSUME NEW p \in Candidates, LeaseRetryFires(p) PROVE HolderIsUp' /\ UpHasRow'
  BY <1>0, <1>7, StartKeeps DEF LeaseRetryFires
<1>8. ASSUME NEW p \in Candidates, RenewLease(p) PROVE HolderIsUp' /\ UpHasRow'
  <2>1. CASE /\ Renewed(p) /\ lease' = [lease EXCEPT !.live = TRUE]
             /\ excuse' = [excuse EXCEPT ![p] = @ \ {"overslept"}]
             /\ UNCHANGED <<running, primaryLeaseHeld, stopping, breaks>>
    <3>1. lease'.owner = lease.owner /\ lease'.live /\ lease.owner = p
      BY <2>1 DEF Renewed, LeaseTypeOK
    <3>2. \A q \in Candidates : DaemonUp(q)' <=> DaemonUp(q)
      BY <2>1 DEF DaemonUp
    <3>3. \A q \in Candidates \ {p} : excuse'[q] = excuse[q]
      BY <2>1 DEF LeaseTypeOK
    <3> QED BY <2>1, <3>1, <3>2, <3>3 DEF HolderIsUp, UpHasRow
  <2>2. CASE /\ primaryLeaseHeld' = [primaryLeaseHeld EXCEPT ![p] = FALSE]
             /\ running' = [running EXCEPT ![p] = FALSE]
             /\ stopping' = [stopping EXCEPT ![p] = @ + 1]
             /\ UNCHANGED <<lease, excuse>>
    <3>1. \A q \in Candidates : DaemonUp(q) => DaemonUp(q)'
      BY <2>2 DEF LeaseTypeOK, DaemonUp
    <3>2. \A q \in Candidates : primaryLeaseHeld'[q] => primaryLeaseHeld[q]
      BY <2>2 DEF LeaseTypeOK
    <3>3. \A q \in Candidates \ {p} : DaemonUp(q)' => DaemonUp(q)
      BY <2>2 DEF LeaseTypeOK, DaemonUp
    <3>4. DaemonUp(p) BY <1>8 DEF RenewLease, DaemonUp
    <3> QED BY <2>2, <3>1, <3>2, <3>3, <3>4 DEF HolderIsUp, UpHasRow
  <2> QED BY <1>8, <2>1, <2>2, Zenon DEF RenewLease
<1>9. ASSUME NEW p \in Candidates, StopDaemon(p) PROVE HolderIsUp' /\ UpHasRow'
  <2>1. CASE running[p]
    <3>1. /\ running' = [running EXCEPT ![p] = FALSE] /\ stopping' = [stopping EXCEPT ![p] = @ + 1]
          /\ UNCHANGED <<lease, primaryLeaseHeld, excuse>>
      BY <1>9, <2>1, Zenon DEF StopDaemon
    <3>2. \A q \in Candidates : DaemonUp(q)' => DaemonUp(q)
      BY <2>1, <3>1 DEF LeaseTypeOK, DaemonUp
    <3>3. \A q \in Candidates : DaemonUp(q) => DaemonUp(q)'
      BY <3>1 DEF LeaseTypeOK, DaemonUp
    <3> QED BY <3>1, <3>2, <3>3, Zenon DEF HolderIsUp, UpHasRow
  <2>2. CASE ~running[p]
    <3>1. Release(p, stopping[p] > 0) /\ UNCHANGED <<running, stopping>>
      BY <1>9, <2>2, Zenon DEF StopDaemon
    <3>2. Release(p, running'[p] \/ stopping'[p] > 0)
      BY <2>2, <3>1 DEF Release
    <3> QED BY <3>1, <3>2, ReleaseKeeps DEF DaemonUp
  <2> QED BY <2>1, <2>2
<1>10. ASSUME NEW p \in Candidates, StopEnds(p) PROVE HolderIsUp' /\ UpHasRow'
  <2>1. /\ running' = running /\ stopping[p] > 0 /\ stopping'[p] = stopping[p] - 1
        /\ \A q \in Candidates \ {p} : stopping'[q] = stopping[q]
    BY <1>10 DEF StopEnds, LeaseTypeOK
  <2>2. stopping'[p] > 0 <=> stopping[p] > 1
    BY <2>1 DEF LeaseTypeOK
  <2>3. Release(p, running'[p] \/ stopping'[p] > 0)
    BY <1>10, <2>1, <2>2 DEF StopEnds, Release
  <2> QED BY <2>1, <2>3, ReleaseKeeps DEF DaemonUp
<1>11. ASSUME NEW p \in Candidates, ProcessDies(p) PROVE HolderIsUp' /\ UpHasRow'
  BY <1>11 DEF ProcessDies, LeaseTypeOK, HolderIsUp, UpHasRow, DaemonUp
<1>12. CASE LeaseExpires
  <2>1. /\ UNCHANGED <<running, primaryLeaseHeld, stopping>>
        /\ lease'.owner = lease.owner
    BY <1>12 DEF LeaseExpires, LeaseTypeOK
  <2>2. ASSUME NEW q \in Candidates, DaemonUp(q), excuse'[q] = {} PROVE FALSE
    <3>1. CASE lease.owner = q
      <4>1. excuse' = [excuse EXCEPT ![q] = @ \cup {"overslept"}]
        BY <1>12, <2>2, <3>1 DEF LeaseExpires
      <4>2. "overslept" \in excuse'[q] BY <4>1 DEF LeaseTypeOK
      <4> QED BY <2>2, <4>2
    <3>2. CASE lease.owner # q
      <4>1. excuse'[q] = excuse[q] BY <1>12, <3>2 DEF LeaseExpires, LeaseTypeOK
      <4> QED BY <2>2, <3>2, <4>1 DEF UpHasRow
    <3> QED BY <3>1, <3>2
  <2> QED BY <2>1, <2>2 DEF HolderIsUp, UpHasRow, DaemonUp
<1>13. CASE UNCHANGED leaseVars BY <1>0, <1>13 DEF leaseVars
<1> QED
  BY <1>1, <1>2, <1>3, <1>4, <1>5, <1>6, <1>7, <1>8, <1>9, <1>10, <1>11, <1>12, <1>13 DEF LeaseNext

LEMMA LeaseStarts == LeaseInit => LeaseIInv
<1> SUFFICES ASSUME LeaseInit PROVE LeaseIInv
  OBVIOUS
<1>1. starting \in [Candidates -> BOOLEAN] BY DEF LeaseInit
<1>2. LeaseTypeOK
  <2>1. stops \in 0 .. MaxStops /\ breaks \in 0 .. MaxBreaks
    BY LeaseAssumption DEF LeaseInit
  <2>2. lease \in [owner : Candidates \cup {Ghost, Nobody}, live : BOOLEAN] /\ lease = NoRow
    BY DEF LeaseInit, NoRow
  <2>3. asked \in [Candidates -> [step : {"idle", "refused", "dead", "reclaimed", "throws"},
                                  owner : Candidates \cup {Ghost, Nobody}]]
    BY DEF LeaseInit, Idle
  <2> QED BY <1>1, <2>1, <2>2, <2>3 DEF LeaseInit, LeaseTypeOK
<1>3. \A p \in Candidates : ~primaryLeaseHeld[p] /\ ~DaemonUp(p) BY DEF LeaseInit, DaemonUp
<1> QED BY <1>2, <1>3 DEF LeaseIInv, HolderIsUp, UpHasRow

\* The inductive invariant holds in every state.
THEOREM LeaseInvariance == LeaseSpec => []LeaseIInv
<1>1. LeaseIInv /\ [LeaseNext]_leaseVars => LeaseIInv'
  BY TypeStep, SoundStep DEF LeaseIInv
<1> QED BY LeaseStarts, <1>1, PTL DEF LeaseSpec

\* One daemon at a time, in any number of processes on any machines: a second
\* is up only where one of two has an excuse (runtime/daemon-state/core.ts).
THEOREM OneDaemonAtATime == LeaseSpec => []OneDaemon
<1>1. LeaseIInv => OneDaemon
  BY DEF LeaseIInv, UpHasRow, OneDaemon
<1> QED BY LeaseInvariance, <1>1, PTL
=============================================================================
