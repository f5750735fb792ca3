--------------------------- MODULE ConnectorOutbox ---------------------------
(***************************************************************************)
(* The connector outbox (src/lib/server/connectors/outbox.ts): messages to *)
(* chat platforms are rows of a table that every process of the system     *)
(* drains.  A worker claims a due row, sends it with sendConnectorMessage, *)
(* and writes the row back as sent, or as pending with a later due time.   *)
(*                                                                         *)
(* A process runs a handler to its next await; the awaits are the calls to *)
(* the platform.  Between two database statements of one handler another   *)
(* process may act.  Time is relative: each row, timer and window counts   *)
(* the ticks it has left, so no bound on the length of a behaviour is      *)
(* needed.  Definitions headed "Bug:" are mutations nothing here uses.     *)
(***************************************************************************)
EXTENDS Integers, FiniteSets

CONSTANTS
  Procs,        \* processes that share the database
  Keys,         \* dedupe keys of messages, one platform message text each
  Requests,     \* what callers ask for
  MaxEntries,   \* bound: rows ever inserted
  BatchSize,    \* MAX_BATCH_SIZE
  MaxAttempts,  \* DEFAULT_MAX_ATTEMPTS
  RetryBase, RetryMax,  \* RETRY_BASE_MS and RETRY_MAX_MS, in ticks
  ClaimStale,   \* CLAIM_STALE_MS, in ticks
  DedupeWindow, \* OUTBOUND_DEDUP_TTL_MS, in ticks
  MaxDelay,     \* bound: the latest due time asked for, in ticks
  MaxLag,       \* bound: ticks one batch takes
  MaxCrashes,   \* bound: process crashes
  MaxStops      \* bound: times a worker is stopped

Entries == 1 .. MaxEntries
NoEntry == 0
Idle == -1                       \* no timer armed

\* task: the follow-up of a task (notifyConnectorTaskFollowups), due at once;
\* otherwise a scheduled follow-up (scheduleConnectorFollowUp), due after delay.
RequestType == [key : Keys, task : BOOLEAN, delay : 0 .. MaxDelay, replace : BOOLEAN]

ASSUME OutboxAssumption ==
  /\ Requests \subseteq RequestType
  /\ \A k \in {MaxEntries, MaxAttempts, BatchSize, MaxDelay, MaxLag, MaxCrashes, MaxStops} : k \in Nat
  /\ {RetryBase, RetryMax, ClaimStale, DedupeWindow} \subseteq Nat \ {0}
  /\ BatchSize > 0 /\ MaxAttempts > 0

Final == {"sent", "suppressed", "failed", "cancelled"}
Live == {"pending", "processing"}

VARIABLES
  last,        \* rows 1..last exist, in the order they were created
  status,      \* of each row
  key,
  wait,        \* ticks until sendAt, negative once it has passed
  age,         \* ticks since processingStartedAt
  attempts,    \* attemptCount
  asking,      \* a caller between its dedupe look-up and its insert
  timer,       \* ticks until the worker's timer is due, or Idle
  running, pendingKick,
  lag,         \* ticks since the batch began: Date.now() - now
  batch,       \* its candidates still to be processed, with their sendAt
  sending,     \* the claimed row and where its send is
  recent,      \* recentOutbound: ticks left in which a key counts as sent
  started,     \* the daemon has started the worker of this process
  copies,      \* messages of each row that reached the platform
  doubted,     \* rows whose send may have arrived although it looks undone
  crashes, stops

rows == <<last, status, key, wait, age, attempts>>
worker == <<timer, running, pendingKick, lag, batch, sending, recent, started>>
bounds == <<crashes, stops>>
vars == <<rows, asking, worker, copies, doubted, bounds>>

NoAsk == [key |-> "none"]
NoSend == [id |-> NoEntry]
SendType == [id : Entries, attempts : Nat, phase : {"claimed", "inflight", "arrived"}, again : BOOLEAN]

-----------------------------------------------------------------------------
(* Helpers *)

Exist == 1 .. last
LiveRows == {e \in Exist : status[e] \in Live}

\* listEntries sorted by sendAt, then createdAt.
Before(d, c) == d.wait < c.wait \/ (d.wait = c.wait /\ d.id < c.id)
Listing(R) == {[id |-> e, wait |-> wait[e]] : e \in R}
Foremost(L) == {c \in L : \A d \in L \ {c} : Before(c, d)}

\* Bug: a listed row is claimed although another worker has claimed it since.
AnyLive(e, p) == status[e] \in Live

\* isClaimEligible, with the time at which the batch of p began.
ClaimEligible(e, p) ==
  \/ status[e] = "pending" /\ wait[e] <= -lag[p]
  \/ status[e] = "processing" /\ age[e] - lag[p] >= ClaimStale

\* No attempt is left after the nth.
GivenUp(n) == n >= MaxAttempts

\* nextRetryAt
Backoff(n) ==
  LET d == RetryBase * 2 ^ (IF n > 0 THEN n - 1 ELSE 0)
  IN IF d > RetryMax THEN RetryMax ELSE d

\* scheduleTimer: an earlier timer stays.
Armed(t, delay) == IF t # Idle /\ t <= delay THEN t ELSE delay

\* rescheduleFromStorage: for the first live row, whether it is due or claimed.
Rescheduled(t, R, w) ==
  IF R = {} THEN Idle
  ELSE LET first == CHOOSE e \in R : \A d \in R : w[e] <= w[d]
       IN Armed(t, IF w[first] > 0 THEN w[first] ELSE 0)

\* The event loop of p may take up something new: no caller is between its two
\* statements, and a running batch is awaiting the platform.
Free(p) == /\ asking[p] = NoAsk
           /\ running[p] => sending[p] # NoSend /\ sending[p].phase # "claimed"

-----------------------------------------------------------------------------
Init ==
  /\ last = 0
  /\ status = [e \in Entries |-> "none"] /\ key = [e \in Entries |-> "none"]
  /\ wait = [e \in Entries |-> 0] /\ age = [e \in Entries |-> 0]
  /\ attempts = [e \in Entries |-> 0]
  /\ asking = [p \in Procs |-> NoAsk]
  /\ timer = [p \in Procs |-> Idle]
  /\ running = [p \in Procs |-> FALSE] /\ pendingKick = [p \in Procs |-> FALSE]
  /\ lag = [p \in Procs |-> 0] /\ batch = [p \in Procs |-> {}]
  /\ sending = [p \in Procs |-> NoSend]
  /\ recent = [p \in Procs |-> [k \in Keys |-> 0]]
  /\ started = [p \in Procs |-> FALSE]
  /\ copies = [e \in Entries |-> 0] /\ doubted = {}
  /\ crashes = 0 /\ stops = 0

-----------------------------------------------------------------------------
(* enqueueConnectorOutbox *)

\* findPendingConnectorOutboxByDedupe
Pending(k) == {e \in LiveRows : key[e] = k /\ (wait[e] > 0 \/ status[e] = "processing")}
Existing(k) == IF Pending(k) = {} THEN {NoEntry} ELSE {c.id : c \in Foremost(Listing(Pending(k)))}

\* hasSentConnectorOutboxForDedupe, which task follow-ups ask first.
HasSent(k) == \E e \in Exist : key[e] = k /\ status[e] \in {"sent", "suppressed"}

\* The look-up.  A request that is answered by an existing row ends here.
FindExisting(p, rq) ==
  /\ Free(p)
  /\ last + Cardinality({q \in Procs : asking[q] # NoAsk}) < MaxEntries
  /\ rq.task => ~HasSent(rq.key)
  /\ \E e \in Existing(rq.key) :
       /\ e # NoEntry /\ wait[e] > 0 => rq.replace
       /\ asking' = [asking EXCEPT ![p] =
            [key |-> rq.key, delay |-> rq.delay, replaces |-> IF rq.replace THEN e ELSE NoEntry]]
  /\ UNCHANGED <<rows, worker, copies, doubted, bounds>>

\* Bug: a row that has reached its end meanwhile is cancelled all the same.
ReplaceAnything(e) == e

\* The row a replacement cancels: not one that has reached its end meanwhile.
Replaced(e) == IF e # NoEntry /\ status[e] \in Live THEN e ELSE NoEntry

\* Cancel the row to be replaced, insert the new one, arm this process's timer.
Insert(p) ==
  /\ asking[p] # NoAsk /\ last < MaxEntries
  /\ LET new == last + 1
         old == Replaced(asking[p].replaces)
     IN /\ last' = new
        /\ status' = [e \in Entries |-> IF e = new THEN "pending"
                                     ELSE IF e = old THEN "cancelled" ELSE status[e]]
        /\ key' = [key EXCEPT ![new] = asking[p].key]
        /\ wait' = [wait EXCEPT ![new] = asking[p].delay]
        /\ timer' = [timer EXCEPT ![p] =
             Rescheduled(@, (LiveRows \ {old}) \cup {new}, wait')]
  /\ asking' = [asking EXCEPT ![p] = NoAsk]
  /\ UNCHANGED <<age, attempts, running, pendingKick, lag, batch, sending, recent,
                 started, copies, doubted, bounds>>

-----------------------------------------------------------------------------
(* runConnectorOutboxNow *)

DueRows == {e \in LiveRows : \/ status[e] = "pending" /\ wait[e] <= 0
                             \/ status[e] = "processing" /\ age[e] >= ClaimStale}
FirstOf(L) == {c \in L : Cardinality({d \in L : Before(d, c)}) < BatchSize}

\* The timer: a batch already running is kicked; otherwise one begins with the
\* first due rows.
RunOutbox(p) ==
  /\ Free(p) /\ timer[p] = 0
  /\ timer' = [timer EXCEPT ![p] = Idle]
  /\ IF running[p]
     THEN /\ pendingKick' = [pendingKick EXCEPT ![p] = TRUE]
          /\ UNCHANGED <<running, lag, batch>>
     ELSE /\ running' = [running EXCEPT ![p] = TRUE]
          /\ lag' = [lag EXCEPT ![p] = 0]
          /\ batch' = [batch EXCEPT ![p] = FirstOf(Listing(DueRows))]
          /\ UNCHANGED pendingKick
  /\ UNCHANGED <<rows, asking, sending, recent, started, copies, doubted, bounds>>

\* processEntry of the next candidate: claimEntry in a transaction.
Claim(p) ==
  /\ asking[p] = NoAsk /\ running[p] /\ sending[p] = NoSend
  /\ \E c \in Foremost(batch[p]) :
       LET e == c.id
       IN /\ batch' = [batch EXCEPT ![p] = @ \ {c}]
          /\ IF ClaimEligible(e, p)
             THEN /\ status' = [status EXCEPT ![e] = "processing"]
                  /\ age' = [age EXCEPT ![e] = lag[p]]
                  /\ sending' = [sending EXCEPT ![p] =
                       [id |-> e, attempts |-> attempts[e], phase |-> "claimed", again |-> FALSE]]
                  /\ doubted' = IF status[e] = "processing" /\ age[e] >= ClaimStale
                                THEN doubted \cup {e} ELSE doubted
             ELSE UNCHANGED <<status, age, sending, doubted>>
  /\ UNCHANGED <<last, key, wait, attempts, asking, timer, running, pendingKick, lag,
                 recent, started, copies, bounds>>

\* The row of p's send is written back from the claimed copy, whatever it says
\* by now.
WriteBack(p, s, w) ==
  LET e == sending[p].id
  IN /\ status' = [status EXCEPT ![e] = s]
     /\ wait' = [wait EXCEPT ![e] = w]
     /\ age' = [age EXCEPT ![e] = 0]
     /\ attempts' = [attempts EXCEPT ![e] = sending[p].attempts + 1]
     /\ sending' = [sending EXCEPT ![p] = NoSend]
     /\ UNCHANGED <<last, key, asking, timer, running, pendingKick, lag, batch, recent,
                    started, copies, bounds>>

\* sendConnectorMessage: a key sent within the window is taken for a duplicate.
\* The window opens when the send begins, not when it has succeeded.
StartSend(p) ==
  /\ sending[p] # NoSend /\ sending[p].phase = "claimed"
  /\ LET k == key[sending[p].id]
     IN \/ /\ recent[p][k] > 0
           /\ WriteBack(p, "suppressed", 0) /\ UNCHANGED doubted
        \/ /\ recent[p][k] = 0
           /\ recent' = [recent EXCEPT ![p][k] = DedupeWindow]
           /\ sending' = [sending EXCEPT ![p] = [@ EXCEPT !.phase = "inflight"]]
           /\ UNCHANGED <<rows, asking, timer, running, pendingKick, lag, batch, started,
                          copies, doubted, bounds>>

\* The platform takes the message (external).
Arrive(p) ==
  /\ sending[p] # NoSend /\ sending[p].phase = "inflight"
  /\ sending' = [sending EXCEPT ![p] = [@ EXCEPT !.phase = "arrived"]]
  /\ copies' = [copies EXCEPT ![sending[p].id] = @ + 1]
  /\ UNCHANGED <<rows, asking, timer, running, pendingKick, lag, batch, recent, started,
                 doubted, bounds>>

\* A message may have arrived though its sender does not know.
Doubt(p) == IF sending[p].phase = "arrived" THEN doubted \cup {sending[p].id} ELSE doubted

\* A recoverable connection error: restart the connector, send once more.
Resend(p) ==
  /\ sending[p] # NoSend /\ sending[p].phase # "claimed" /\ ~sending[p].again
  /\ sending' = [sending EXCEPT ![p] = [@ EXCEPT !.phase = "inflight", !.again = TRUE]]
  /\ doubted' = Doubt(p)
  /\ UNCHANGED <<rows, asking, timer, running, pendingKick, lag, batch, recent, started,
                 copies, bounds>>

FinishSend(p) ==
  /\ sending[p] # NoSend /\ sending[p].phase = "arrived" /\ asking[p] = NoAsk
  /\ WriteBack(p, "sent", 0) /\ UNCHANGED doubted

\* Any error: no such connector, not running, refused, or lost on the way back.
FailSend(p) ==
  /\ sending[p] # NoSend /\ asking[p] = NoAsk
  /\ LET n == sending[p].attempts + 1
     IN IF GivenUp(n) THEN WriteBack(p, "failed", 0) ELSE WriteBack(p, "pending", Backoff(n))
  /\ doubted' = Doubt(p)

\* Bug: a kick that came during the batch is forgotten.
KickForgotten(p) == IF pendingKick[p] THEN timer[p] ELSE Rescheduled(timer[p], LiveRows, wait)

\* The timer the finally block leaves.
AfterBatch(p) == IF pendingKick[p] THEN Armed(timer[p], 0) ELSE Rescheduled(timer[p], LiveRows, wait)

EndBatch(p) ==
  /\ asking[p] = NoAsk /\ running[p] /\ sending[p] = NoSend /\ batch[p] = {}
  /\ running' = [running EXCEPT ![p] = FALSE]
  /\ lag' = [lag EXCEPT ![p] = 0]
  /\ pendingKick' = [pendingKick EXCEPT ![p] = FALSE]
  /\ timer' = [timer EXCEPT ![p] = AfterBatch(p)]
  /\ UNCHANGED <<rows, asking, batch, sending, recent, started, copies, doubted, bounds>>

-----------------------------------------------------------------------------
(* The daemon starts and stops the worker; processes crash; time passes *)

StartWorker(p) ==
  /\ Free(p) /\ ~started[p]
  /\ started' = [started EXCEPT ![p] = TRUE]
  /\ timer' = [timer EXCEPT ![p] = Rescheduled(@, LiveRows, wait)]
  /\ UNCHANGED <<rows, asking, running, pendingKick, lag, batch, sending, recent, copies,
                 doubted, bounds>>

\* A batch that is running goes on, and its finally block arms the timer again.
StopWorker(p) ==
  /\ Free(p) /\ started[p] /\ stops < MaxStops
  /\ stops' = stops + 1
  /\ started' = [started EXCEPT ![p] = FALSE]
  /\ timer' = [timer EXCEPT ![p] = Idle]
  /\ pendingKick' = [pendingKick EXCEPT ![p] = FALSE]
  /\ UNCHANGED <<rows, asking, running, lag, batch, sending, recent, copies, doubted, crashes>>

\* A claimed row stays claimed.
Crash(p) ==
  /\ crashes < MaxCrashes /\ crashes' = crashes + 1
  /\ asking' = [asking EXCEPT ![p] = NoAsk]
  /\ timer' = [timer EXCEPT ![p] = Idle]
  /\ running' = [running EXCEPT ![p] = FALSE] /\ lag' = [lag EXCEPT ![p] = 0]
  /\ pendingKick' = [pendingKick EXCEPT ![p] = FALSE]
  /\ batch' = [batch EXCEPT ![p] = {}] /\ sending' = [sending EXCEPT ![p] = NoSend]
  /\ recent' = [recent EXCEPT ![p] = [k \in Keys |-> 0]]
  /\ started' = [started EXCEPT ![p] = FALSE]
  /\ UNCHANGED <<rows, copies, doubted, stops>>

\* Counting stops where no comparison could tell the difference.
Tick ==
  /\ \A p \in Procs : running[p] => lag[p] < MaxLag
  /\ wait' = [e \in Entries |-> IF e \in LiveRows /\ wait[e] > -MaxLag THEN wait[e] - 1 ELSE wait[e]]
  /\ age' = [e \in Entries |-> IF status[e] = "processing" /\ age[e] < ClaimStale + MaxLag
                               THEN age[e] + 1 ELSE age[e]]
  /\ timer' = [p \in Procs |-> IF timer[p] > 0 THEN timer[p] - 1 ELSE timer[p]]
  /\ lag' = [p \in Procs |-> IF running[p] THEN lag[p] + 1 ELSE lag[p]]
  /\ recent' = [p \in Procs |-> [k \in Keys |-> IF recent[p][k] > 0 THEN recent[p][k] - 1 ELSE 0]]
  /\ UNCHANGED <<last, status, key, attempts, asking, running, pendingKick, batch, sending,
                 started, copies, doubted, bounds>>

-----------------------------------------------------------------------------
Next ==
  \/ \E p \in Procs :
       \/ \E rq \in Requests : FindExisting(p, rq)
       \/ Insert(p) \/ RunOutbox(p) \/ Claim(p) \/ StartSend(p) \/ Arrive(p) \/ Resend(p)
       \/ FinishSend(p) \/ FailSend(p) \/ EndBatch(p)
       \/ StartWorker(p) \/ StopWorker(p) \/ Crash(p)
  \/ Tick

Spec == Init /\ [][Next]_vars

\* A handler goes on, a send returns or throws, timers fire, a daemon that went
\* down comes back, and time passes.
Fairness ==
  /\ \A p \in Procs :
       /\ WF_vars(Insert(p)) /\ WF_vars(RunOutbox(p)) /\ WF_vars(Claim(p))
       /\ WF_vars(StartSend(p)) /\ WF_vars(FinishSend(p) \/ FailSend(p))
       /\ WF_vars(EndBatch(p)) /\ WF_vars(StartWorker(p))
  /\ WF_vars(Tick)

FairSpec == Spec /\ Fairness
=============================================================================
