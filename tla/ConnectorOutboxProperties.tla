---------------------- MODULE ConnectorOutboxProperties ----------------------
(***************************************************************************)
(* What the connector outbox promises its callers.                         *)
(***************************************************************************)
EXTENDS ConnectorOutbox

\* A message reaches the platform twice only if a claim on it went stale and
\* was taken over, or a send threw after the message had arrived: two workers
\* that list the same due row never both send it.
TwiceOnlyIfDoubted == \A e \in Entries \ doubted : copies[e] <= 1

\* A row that has ended keeps its end, unless it was taken over from a slow
\* claimant, or was cancelled while its send was under way.
EndsAreFinal ==
  [][\A e \in Entries \ doubted' :
       status[e] \in Final /\ status'[e] # status[e] =>
         status[e] = "cancelled" /\ \E p \in Procs : sending[p].id = e]_vars

\* Every message comes to an end: it is sent, given up, or cancelled, also when
\* its worker crashes on the way.
EveryEntryEnds == \A e \in Entries : status[e] \in Live ~> status[e] \in Final

\* What the comment at task-followups.ts:519-521 says, and the test at
\* outbox.test.ts:130-133 expects: a failed send is retried; a row is called
\* sent or suppressed ("a successful terminal state", outbox.ts:310-311) only if
\* its key has reached the platform.
RetriedUntilSent ==
  \A e \in Entries : status[e] \in {"sent", "suppressed"} =>
    \E d \in Entries : key[d] = key[e] /\ copies[d] > 0

\* What the test at outbox.test.ts:136 and 188 says of a replaced follow-up: it
\* is cancelled durably.
ReplacedStaysCancelled ==
  [][\A e \in Entries : status[e] = "cancelled" => status'[e] = "cancelled"]_vars
=============================================================================
