------------------------ MODULE DaemonLeaseProperties ------------------------
(***************************************************************************)
(* What the daemon's lease promises.                                       *)
(***************************************************************************)
EXTENDS DaemonLease

\* Every variable stays in its range.
LeaseTypeOK ==
  /\ lease \in [owner : Candidates \cup {Ghost, Nobody}, live : BOOLEAN]
  /\ lease.owner = Nobody => lease = NoRow
  /\ running \in [Candidates -> BOOLEAN] /\ primaryLeaseHeld \in [Candidates -> BOOLEAN]
  /\ manualStopRequested \in [Candidates -> BOOLEAN] /\ leaseRetry \in [Candidates -> BOOLEAN]
  /\ starting \in [Candidates -> BOOLEAN] /\ stopping \in [Candidates -> Nat]
  /\ asked \in [Candidates -> [step : {"idle", "refused", "dead", "reclaimed", "throws"},
                               owner : Candidates \cup {Ghost, Nobody}]]
  /\ excuse \in [Candidates -> SUBSET Excuses]
  /\ stops \in 0 .. MaxStops /\ breaks \in 0 .. MaxBreaks

\* The services or the connectors of a daemon are up in one process at a time,
\* unless one of two overslept its renewal, was robbed of the row by a process
\* of another machine, or gave the row up itself (a second stop while the first
\* awaits the connectors, or the end of a stop after which it was started anew).
OneDaemon ==
  \A p, q \in Candidates : p # q /\ DaemonUp(p) /\ DaemonUp(q) => excuse[p] \cup excuse[q] # {}

\* Who counts as the holder of the lease is up.
HolderIsUp == \A p \in Candidates : primaryLeaseHeld[p] => DaemonUp(p)

\* Who is up without an excuse has the row, and its time is not over.
UpHasRow ==
  \A p \in Candidates : DaemonUp(p) /\ excuse[p] = {} => lease.owner = p /\ lease.live

\* The inductive invariant behind OneDaemon.
LeaseIInv == LeaseTypeOK /\ HolderIsUp /\ UpHasRow

\* Two daemons do not go on side by side: the one without the row finds out and
\* stops, unless it gave the row up itself and renews nothing any more.
TwoDaemonsEnd ==
  \A P \in SUBSET Candidates : Cardinality(P) = 2 =>
    ((\A p \in P : running[p]) ~> (\E p \in P : ~running[p] \/ "dropped" \in excuse[p]))
=============================================================================
