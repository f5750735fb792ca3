------------------------ MODULE ConnectorOutboxProofs ------------------------
(***************************************************************************)
(* Proofs about the connector outbox, for any number of processes, rows,   *)
(* keys and requests and any length of the waits.  The argument: as long   *)
(* as nothing made a row doubtful, one worker at most is sending it, the   *)
(* row says so (or was cancelled under it), and the copies that reached    *)
(* the platform are what its status and that worker's send account for.    *)
(***************************************************************************)
EXTENDS ConnectorOutboxProperties, TLAPS

\* The ranges the argument needs.
Shape ==
  /\ last \in Nat /\ last <= MaxEntries
  /\ status \in [Entries -> {"none"} \cup Live \cup Final]
  /\ \A e \in Entries : e > last <=> status[e] = "none"
  /\ age \in [Entries -> Nat] /\ attempts \in [Entries -> Nat]
  /\ lag \in [Procs -> Nat]
  /\ batch \in [Procs -> SUBSET [id : Entries, wait : Int]]
  /\ wait \in [Entries -> Int]
  /\ asking \in [Procs -> {NoAsk} \cup
                   [key : Keys, delay : 0 .. MaxDelay, replaces : Entries \cup {NoEntry}]]
  /\ sending \in [Procs -> {NoSend} \cup SendType]
  /\ \A p \in Procs : sending[p] = NoSend \/ sending[p].id <= last
  /\ copies \in [Entries -> Nat] /\ doubted \in SUBSET Entries

\* Process p is sending row e.
Sends(p, e) == sending[p] # NoSend /\ sending[p].id = e

\* What is known of a row that nothing made doubtful.
Accounted(e) ==
  /\ copies[e] <= 1
  /\ copies[e] = 1 => status[e] \in {"sent", "processing", "cancelled"}
  /\ \A p \in Procs : Sends(p, e) =>
       /\ status[e] \in {"processing", "cancelled"}
       /\ sending[p].phase # "arrived" => copies[e] = 0
       /\ \A q \in Procs : Sends(q, e) => q = p

\* What writing back status s means for the doubts about p's row.
Doubtless(p, s) ==
  \/ s = "sent" /\ UNCHANGED doubted
  \/ sending[p].phase # "arrived" /\ UNCHANGED doubted
  \/ doubted' = Doubt(p)

\* The inductive invariant.
OutboxIInv == Shape /\ \A e \in Entries \ doubted : Accounted(e)

-----------------------------------------------------------------------------
(* Steps that touch neither the rows nor a send *)

\* What a step leaves alone decides what the invariant says of each row.
LEMMA SameSends ==
  ASSUME OutboxIInv, Shape', UNCHANGED <<status, sending, copies, doubted>>
  PROVE  OutboxIInv'
<1>1. ASSUME NEW e \in Entries \ doubted PROVE Accounted(e)'
  BY <1>1 DEF OutboxIInv, Accounted, Sends
<1>2. QED BY <1>1 DEF OutboxIInv

\* What is listed is rows with their due times.
LEMMA ListingOfRows ==
  ASSUME OutboxIInv, NEW R \in SUBSET Entries
  PROVE  Listing(R) \subseteq [id : Entries, wait : Int]
<1>1. \A e \in R : e \in Entries /\ wait[e] \in Int
  BY DEF OutboxIInv, Shape
<1>2. ASSUME NEW c \in Listing(R) PROVE c \in [id : Entries, wait : Int]
  <2>1. PICK e \in R : c = [id |-> e, wait |-> wait[e]]
    BY DEF Listing
  <2>2. QED BY <1>1, <2>1
<1>3. QED BY <1>2

\* Live rows are rows.
LEMMA LiveRowsAreRows ==
  ASSUME OutboxIInv
  PROVE  LiveRows \subseteq Entries
BY OutboxAssumption DEF LiveRows, Exist, Entries, OutboxIInv, Shape

\* A look-up only makes p a caller between its two statements.
LEMMA FindExistingKeeps ==
  ASSUME OutboxIInv, NEW p \in Procs, NEW rq \in Requests, FindExisting(p, rq)
  PROVE  OutboxIInv'
<1>1. rq \in RequestType BY OutboxAssumption
<1>2. PICK e \in Existing(rq.key) : asking' = [asking EXCEPT ![p] =
             [key |-> rq.key, delay |-> rq.delay, replaces |-> IF rq.replace THEN e ELSE NoEntry]]
  BY DEF FindExisting
<1>3. e \in Entries \cup {NoEntry}
  <2>1. Pending(rq.key) \subseteq Entries
    BY LiveRowsAreRows DEF Pending
  <2>2. Foremost(Listing(Pending(rq.key))) \subseteq [id : Entries, wait : Int]
    BY <2>1, ListingOfRows DEF Foremost
  <2>3. CASE e = NoEntry
    BY <2>3
  <2>4. CASE e # NoEntry
    <3>1. PICK c \in Foremost(Listing(Pending(rq.key))) : e = c.id
      BY <2>4 DEF Existing
    <3>2. QED BY <2>2, <3>1
  <2>5. QED BY <2>3, <2>4
<1>4. asking'[p] \in [key : Keys, delay : 0 .. MaxDelay, replaces : Entries \cup {NoEntry}]
  BY <1>1, <1>2, <1>3 DEF RequestType, OutboxIInv, Shape
<1>5. Shape'
  BY <1>2, <1>4 DEF OutboxIInv, Shape, FindExisting, rows, worker
<1>6. QED BY <1>5, SameSends DEF FindExisting, rows, worker

\* A batch consists of rows with their due times.
LEMMA RunOutboxKeeps ==
  ASSUME OutboxIInv, NEW p \in Procs, RunOutbox(p)
  PROVE  OutboxIInv'
<1>1. FirstOf(Listing(DueRows)) \subseteq [id : Entries, wait : Int]
  <2>1. DueRows \in SUBSET Entries BY LiveRowsAreRows DEF DueRows
  <2>2. QED BY <2>1, ListingOfRows DEF FirstOf
<1>2. lag' \in [Procs -> Nat] /\ batch' \in [Procs -> SUBSET [id : Entries, wait : Int]]
  <2>1. CASE running[p]
    BY <2>1 DEF RunOutbox, OutboxIInv, Shape
  <2>2. CASE ~running[p]
    <3>1. lag' = [lag EXCEPT ![p] = 0] /\ batch' = [batch EXCEPT ![p] = FirstOf(Listing(DueRows))]
      BY <2>2 DEF RunOutbox
    <3>2. QED BY <1>1, <3>1 DEF OutboxIInv, Shape
  <2>3. QED BY <2>1, <2>2
<1>3. Shape' BY <1>2 DEF OutboxIInv, Shape, RunOutbox, rows
<1>4. QED BY <1>3, SameSends DEF RunOutbox, rows

\* The end of a batch touches no row.
LEMMA EndBatchKeeps ==
  ASSUME OutboxIInv, NEW p \in Procs, EndBatch(p)
  PROVE  OutboxIInv'
<1>1. Shape' BY DEF OutboxIInv, Shape, EndBatch, rows
<1>2. QED BY <1>1, SameSends DEF EndBatch, rows

\* Starting the worker touches no row.
LEMMA StartWorkerKeeps ==
  ASSUME OutboxIInv, NEW p \in Procs, StartWorker(p)
  PROVE  OutboxIInv'
<1>1. Shape' BY DEF OutboxIInv, Shape, StartWorker, rows
<1>2. QED BY <1>1, SameSends DEF StartWorker, rows

\* Stopping the worker touches no row and no send.
LEMMA StopWorkerKeeps ==
  ASSUME OutboxIInv, NEW p \in Procs, StopWorker(p)
  PROVE  OutboxIInv'
<1>1. Shape' BY DEF OutboxIInv, Shape, StopWorker, rows
<1>2. QED BY <1>1, SameSends DEF StopWorker, rows

\* Time changes the waits only.
LEMMA TickKeeps ==
  ASSUME OutboxIInv, Tick
  PROVE  OutboxIInv'
<1>1. /\ wait' \in [Entries -> Int] /\ age' \in [Entries -> Nat]
      /\ lag' \in [Procs -> Nat]
  BY DEF OutboxIInv, Shape, Tick
<1>2. Shape' BY <1>1 DEF OutboxIInv, Shape, Tick
<1>3. QED BY <1>2, SameSends DEF Tick

-----------------------------------------------------------------------------
(* Steps that do *)

\* A new row has no copies and no sender; a cancelled one keeps both.
LEMMA InsertKeeps ==
  ASSUME OutboxIInv, NEW p \in Procs, Insert(p)
  PROVE  OutboxIInv'
<1> DEFINE new == last + 1
           old == Replaced(asking[p].replaces)
<1>1. asking[p] \in [key : Keys, delay : 0 .. MaxDelay, replaces : Entries \cup {NoEntry}]
  BY DEF Insert, OutboxIInv, Shape
<1>2. new \in Entries /\ status[new] = "none"
  BY OutboxAssumption DEF Entries, OutboxIInv, Shape, Insert
<1>3. old \in Entries \cup {NoEntry} /\ (old # NoEntry => status[old] \in Live)
  BY <1>1 DEF Replaced
<1>4. last' = new
  BY DEF Insert
<1>5. status' = [e \in Entries |-> IF e = new THEN "pending"
                                   ELSE IF e = old THEN "cancelled" ELSE status[e]]
  BY DEF Insert
<1>6. wait' \in [Entries -> Int] /\ asking' = [asking EXCEPT ![p] = NoAsk]
  <2>1. asking[p] \in [key : Keys, delay : 0 .. MaxDelay, replaces : Entries \cup {NoEntry}]
    BY DEF Insert, OutboxIInv, Shape
  <2>2. asking[p].delay \in Int
    BY <2>1
  <2>3. wait' = [wait EXCEPT ![last + 1] = asking[p].delay] /\ asking' = [asking EXCEPT ![p] = NoAsk]
    BY DEF Insert
  <2>4. QED BY <2>2, <2>3 DEF OutboxIInv, Shape
<1>7. Shape'
  <2>1. status' \in [Entries -> {"none"} \cup Live \cup Final]
    BY <1>5 DEF OutboxIInv, Shape, Live, Final
  <2>2. ASSUME NEW e \in Entries PROVE e > last' <=> status'[e] = "none"
    <3>1. last \in Nat /\ e \in Nat /\ (e > last <=> status[e] = "none")
      BY OutboxAssumption DEF OutboxIInv, Shape, Entries
    <3>2. old # NoEntry => status[old] # "none"
      BY <1>3 DEF Live
    <3>3. CASE e = new
      BY <1>4, <1>5, <3>1, <3>3
    <3>4. CASE e # new /\ e = old
      <4>1. e # NoEntry
        BY OutboxAssumption DEF Entries, NoEntry
      <4>2. status'[e] = "cancelled" /\ status[e] # "none"
        BY <1>5, <3>2, <3>4, <4>1
      <4>3. QED BY <1>4, <3>1, <3>4, <4>2
    <3>5. CASE e # new /\ e # old
      BY <1>4, <1>5, <3>1, <3>5
    <3>6. QED BY <3>3, <3>4, <3>5
  <2>3. last' \in Nat /\ last' <= MaxEntries
    BY <1>4, OutboxAssumption DEF Insert, OutboxIInv, Shape
  <2>4. asking' \in [Procs -> {NoAsk} \cup
                   [key : Keys, delay : 0 .. MaxDelay, replaces : Entries \cup {NoEntry}]]
    BY <1>6 DEF OutboxIInv, Shape
  <2>5. UNCHANGED <<age, attempts, lag, batch, sending, copies, doubted>>
    BY DEF Insert
  <2>6. \A q \in Procs : sending'[q] = NoSend \/ sending'[q].id <= last'
    <3>1. ASSUME NEW q \in Procs, sending[q] # NoSend PROVE sending[q].id \in Int
      BY <3>1, OutboxAssumption DEF OutboxIInv, Shape, SendType, Entries
    <3>2. QED BY <1>4, <2>5, <3>1 DEF OutboxIInv, Shape
  <2>7. QED BY <1>6, <2>1, <2>2, <2>3, <2>4, <2>5, <2>6 DEF OutboxIInv, Shape
<1>8. ASSUME NEW e \in Entries \ doubted PROVE Accounted(e)'
  <2>1. UNCHANGED <<sending, copies>>
    BY DEF Insert
  <2>2. CASE e = new
    <3>1. copies[e] = 0 /\ \A q \in Procs : ~Sends(q, e)
      <4>1. Accounted(e) /\ status[e] = "none" /\ copies[e] \in Nat
        BY <1>2, <1>8, <2>2 DEF OutboxIInv, Shape
      <4>2. QED BY <4>1 DEF Accounted
    <3>2. QED BY <1>2, <1>5, <2>1, <2>2, <3>1 DEF Accounted, Sends
  <2>3. CASE e # new /\ e = old
    <3>1. status'[e] = "cancelled"
      BY <1>5, <1>8, <2>3
    <3>2. QED BY <1>8, <2>1, <3>1 DEF OutboxIInv, Accounted, Sends
  <2>4. CASE e # new /\ e # old
    <3>1. status'[e] = status[e]
      BY <1>5, <1>8, <2>4
    <3>2. QED BY <1>8, <2>1, <3>1 DEF OutboxIInv, Accounted, Sends
  <2>5. QED BY <2>2, <2>3, <2>4
<1>9. QED BY <1>7, <1>8 DEF OutboxIInv, Insert

\* A claim of a row that is not doubtful finds it pending, with no sender and
\* no copies.
LEMMA ClaimKeeps ==
  ASSUME OutboxIInv, NEW p \in Procs, Claim(p)
  PROVE  OutboxIInv'
<1>1. PICK c \in Foremost(batch[p]) :
        LET e == c.id
        IN /\ batch' = [batch EXCEPT ![p] = @ \ {c}]
           /\ IF ClaimEligible(e, p)
              THEN /\ status' = [status EXCEPT ![e] = "processing"]
                   /\ age' = [age EXCEPT ![e] = lag[p]]
                   /\ sending' = [sending EXCEPT ![p] =
                        [id |-> e, attempts |-> attempts[e], phase |-> "claimed", again |-> FALSE]]
                   /\ doubted' = IF status[e] = "processing" /\ age[e] >= ClaimStale
                                 THEN doubted \cup {e} ELSE doubted
              ELSE UNCHANGED <<status, age, sending, doubted>>
  BY DEF Claim
<1> DEFINE e == c.id
<1>2. e \in Entries
  BY <1>1 DEF Foremost, OutboxIInv, Shape
<1>3. batch' \in [Procs -> SUBSET [id : Entries, wait : Int]]
  BY <1>1 DEF OutboxIInv, Shape
<1>4. CASE ~ClaimEligible(e, p)
  <2>1. UNCHANGED <<status, age, sending, doubted>>
    BY <1>1, <1>4
  <2>2. Shape'
    BY <1>3, <2>1 DEF OutboxIInv, Shape, Claim
  <2>3. QED BY <2>1, <2>2, SameSends DEF Claim
<1>5. CASE ClaimEligible(e, p)
  <2>1. /\ status' = [status EXCEPT ![e] = "processing"]
        /\ age' = [age EXCEPT ![e] = lag[p]]
        /\ sending' = [sending EXCEPT ![p] =
             [id |-> e, attempts |-> attempts[e], phase |-> "claimed", again |-> FALSE]]
        /\ doubted' = IF status[e] = "processing" /\ age[e] >= ClaimStale
                      THEN doubted \cup {e} ELSE doubted
    BY <1>1, <1>5
  <2>2. status[e] \in Live
    BY <1>5 DEF ClaimEligible, Live
  <2>3. sending'[p] \in SendType /\ sending'[p] # NoSend /\ sending'[p].phase = "claimed"
    BY <1>2, <2>1 DEF SendType, OutboxIInv, Shape, NoSend, NoEntry, Entries
  <2>4. Shape'
    <3>1. e <= last
      <4>1. status[e] # "none"
        BY <2>2 DEF Live
      <4>2. e > last <=> status[e] = "none"
        BY <1>2 DEF OutboxIInv, Shape
      <4>3. e \in Int /\ last \in Int
        BY <1>2 DEF OutboxIInv, Shape, Entries
      <4>4. QED BY <4>1, <4>2, <4>3
    <3>2. /\ status' \in [Entries -> {"none"} \cup Live \cup Final]
          /\ \A d \in Entries : status'[d] = "none" <=> status[d] = "none"
      BY <1>2, <2>1, <2>2 DEF OutboxIInv, Shape, Live
    <3>3. age' \in [Entries -> Nat] /\ doubted' \in SUBSET Entries
      BY <1>2, <2>1 DEF OutboxIInv, Shape
    <3>4. /\ sending' \in [Procs -> {NoSend} \cup SendType]
          /\ \A q \in Procs : sending'[q] = NoSend \/ sending'[q].id <= last
      BY <2>1, <2>3, <3>1 DEF OutboxIInv, Shape
    <3>5. UNCHANGED <<last, attempts, lag, wait, asking, copies>>
      BY DEF Claim
    <3>6. QED BY <1>3, <3>2, <3>3, <3>4, <3>5 DEF OutboxIInv, Shape
  <2>5. ASSUME NEW d \in Entries \ doubted' PROVE Accounted(d)'
    <3>1. d \notin doubted /\ Accounted(d)
      BY <2>1, <2>5 DEF OutboxIInv
    <3>2. copies' = copies
      BY DEF Claim
    <3>3. \A q \in Procs \ {p} : Sends(q, d)' = Sends(q, d) /\ sending'[q] = sending[q]
      BY <2>1 DEF Sends, OutboxIInv, Shape
    <3>4. CASE d = e
      <4>1. status[e] = "pending"
        <5>1. age[e] \in Nat /\ lag[p] \in Nat /\ ClaimStale \in Nat
          BY <1>2, OutboxAssumption DEF OutboxIInv, Shape
        <5>2. ~(status[e] = "processing" /\ age[e] >= ClaimStale)
          BY <1>2, <2>1, <2>5, <3>4
        <5>3. QED BY <1>5, <5>1, <5>2 DEF ClaimEligible
      <4>2. copies[e] = 0 /\ \A q \in Procs : ~Sends(q, e)
        <5>1. copies[e] \in Nat /\ Accounted(e)
          BY <1>2, <3>1, <3>4 DEF OutboxIInv, Shape
        <5>2. QED BY <4>1, <5>1 DEF Accounted
      <4>3. status'[e] = "processing"
        BY <1>2, <2>1 DEF OutboxIInv, Shape
      <4>4. QED BY <2>3, <3>2, <3>3, <3>4, <4>2, <4>3 DEF Accounted
    <3>5. CASE d # e
      <4>1. status'[d] = status[d] /\ ~Sends(p, d)' /\ ~Sends(p, d)
        BY <2>1, <3>5 DEF Sends, Claim, OutboxIInv, Shape
      <4>2. QED BY <3>1, <3>2, <3>3, <4>1 DEF Accounted
    <3>6. QED BY <3>4, <3>5
  <2>6. QED BY <2>4, <2>5 DEF OutboxIInv
<1>6. QED BY <1>4, <1>5

\* A row written back by its only sender: its copies must fit the new status.
LEMMA WriteBackKeeps ==
  ASSUME OutboxIInv, NEW p \in Procs, sending[p] # NoSend,
         NEW s \in {"sent", "suppressed", "failed", "pending"}, NEW w \in Int,
         WriteBack(p, s, w), Doubtless(p, s)
  PROVE  OutboxIInv'
<1> DEFINE e == sending[p].id
<1>1. sending[p] \in SendType /\ e \in Entries
  BY DEF OutboxIInv, Shape, SendType
<1>2. status' = [status EXCEPT ![e] = s] /\ sending' = [sending EXCEPT ![p] = NoSend]
  BY DEF WriteBack
<1>3. doubted \subseteq doubted' /\ doubted' \in SUBSET Entries /\ copies' = copies
  BY <1>1 DEF Doubtless, OutboxIInv, Shape, Doubt, WriteBack
<1>4. Shape'
  <2>1. attempts' \in [Entries -> Nat] /\ age' \in [Entries -> Nat] /\ wait' \in [Entries -> Int]
    BY <1>1 DEF OutboxIInv, Shape, WriteBack, SendType
  <2>2. status[e] # "none"
    BY <1>1, OutboxAssumption DEF OutboxIInv, Shape, Entries
  <2>3. status' \in [Entries -> {"none"} \cup Live \cup Final]
        /\ \A d \in Entries : status'[d] = "none" <=> status[d] = "none"
    BY <1>1, <1>2, <2>2 DEF OutboxIInv, Shape, Final, Live
  <2>4. last' = last /\ UNCHANGED <<lag, batch, asking>>
    BY DEF WriteBack
  <2>5. sending' \in [Procs -> {NoSend} \cup SendType]
        /\ \A q \in Procs : sending'[q] = NoSend \/ sending'[q].id <= last
    BY <1>2 DEF OutboxIInv, Shape
  <2>6. QED BY <1>3, <2>1, <2>3, <2>4, <2>5 DEF OutboxIInv, Shape
<1>5. ASSUME NEW d \in Entries \ doubted' PROVE Accounted(d)'
  <2>1. d \notin doubted /\ Accounted(d)
    BY <1>3, <1>5 DEF OutboxIInv
  <2>2. ~Sends(p, d)'
    BY <1>2 DEF Sends, OutboxIInv, Shape
  <2>3. \A q \in Procs \ {p} : Sends(q, d)' = Sends(q, d) /\ sending'[q] = sending[q]
    BY <1>2 DEF Sends, OutboxIInv, Shape
  <2>4. CASE d = e
    <3>1. Sends(p, d)
      BY <2>4 DEF Sends
    <3>2. \A q \in Procs : ~Sends(q, d)'
      BY <2>1, <2>2, <2>3, <3>1 DEF Accounted
    <3>3. copies[d] = 1 => s = "sent"
      BY <1>5, <2>1, <2>4, <3>1 DEF Doubtless, Doubt, Accounted
    <3>4. QED BY <1>1, <1>2, <1>3, <2>1, <2>4, <3>2, <3>3 DEF Accounted, OutboxIInv, Shape
  <2>5. CASE d # e
    <3>1. status'[d] = status[d] /\ ~Sends(p, d)
      BY <1>2, <2>5 DEF Sends, OutboxIInv, Shape
    <3>2. QED BY <1>3, <2>1, <2>2, <2>3, <3>1 DEF Accounted
  <2>6. QED BY <2>4, <2>5
<1>6. QED BY <1>4, <1>5 DEF OutboxIInv

\* A send that begins has delivered nothing yet; a suppressed one never will.
LEMMA StartSendKeeps ==
  ASSUME OutboxIInv, NEW p \in Procs, StartSend(p)
  PROVE  OutboxIInv'
<1>1. CASE WriteBack(p, "suppressed", 0) /\ UNCHANGED doubted
  BY <1>1, WriteBackKeeps DEF StartSend, Doubtless
<1>2. CASE /\ sending' = [sending EXCEPT ![p] = [@ EXCEPT !.phase = "inflight"]]
           /\ UNCHANGED <<rows, asking, lag, batch, copies, doubted>>
  <2>1. sending[p] \in SendType BY DEF StartSend, OutboxIInv, Shape
  <2>2. sending'[p] \in SendType /\ sending'[p].id = sending[p].id /\ sending'[p].phase = "inflight"
    BY <1>2, <2>1 DEF SendType, OutboxIInv, Shape
  <2>3. sending'[p] # NoSend
    BY <2>2 DEF SendType, NoSend, Entries, NoEntry
  <2>4. Shape'
    <3>1. sending' \in [Procs -> {NoSend} \cup SendType]
          /\ \A q \in Procs : sending'[q] = NoSend \/ sending'[q].id <= last
      BY <1>2, <2>2 DEF OutboxIInv, Shape, StartSend
    <3>2. QED BY <1>2, <3>1 DEF OutboxIInv, Shape, rows
  <2>5. ASSUME NEW d \in Entries \ doubted PROVE Accounted(d)'
    <3>1. \A q \in Procs : Sends(q, d)' = Sends(q, d)
      BY <1>2, <2>2, <2>3 DEF Sends, OutboxIInv, Shape, StartSend
    <3>2. \A q \in Procs \ {p} : sending'[q] = sending[q]
      BY <1>2 DEF OutboxIInv, Shape
    <3>3. QED BY <1>2, <2>2, <2>5, <3>1, <3>2 DEF StartSend, Accounted, OutboxIInv, rows
  <2>6. QED BY <1>2, <2>4, <2>5 DEF OutboxIInv
<1>3. QED BY <1>1, <1>2 DEF StartSend

\* The one copy of an undoubted row is its only sender's.
LEMMA ArriveKeeps ==
  ASSUME OutboxIInv, NEW p \in Procs, Arrive(p)
  PROVE  OutboxIInv'
<1> DEFINE e == sending[p].id
<1>1. sending[p] \in SendType /\ e \in Entries
  BY DEF Arrive, OutboxIInv, Shape, SendType
<1>2. sending' = [sending EXCEPT ![p] = [@ EXCEPT !.phase = "arrived"]] /\ copies' = [copies EXCEPT ![e] = @ + 1]
  BY DEF Arrive
<1>3. sending'[p] \in SendType /\ sending'[p].id = e /\ sending'[p].phase = "arrived"
  BY <1>1, <1>2 DEF SendType, OutboxIInv, Shape
<1>4. sending'[p] # NoSend
  BY <1>3 DEF SendType, NoSend, Entries, NoEntry
<1>5. Shape'
  BY <1>1, <1>2, <1>3 DEF OutboxIInv, Shape, Arrive, rows
<1>6. ASSUME NEW d \in Entries \ doubted PROVE Accounted(d)'
  <2>1. \A q \in Procs : Sends(q, d)' = Sends(q, d)
    BY <1>2, <1>3, <1>4 DEF Sends, OutboxIInv, Shape, Arrive
  <2>2. \A q \in Procs \ {p} : sending'[q] = sending[q]
    BY <1>2 DEF OutboxIInv, Shape
  <2>3. CASE d = e
    <3>1. Sends(p, d) BY <2>3 DEF Sends, Arrive
    <3>2. copies[d] = 0 BY <1>6, <3>1 DEF Arrive, Accounted, OutboxIInv
    <3>3. copies'[d] = 1 BY <1>1, <1>2, <2>3, <3>2 DEF OutboxIInv, Shape
    <3>4. status'[d] = status[d] BY DEF Arrive, rows
    <3>5. QED BY <1>3, <1>6, <2>1, <2>2, <3>1, <3>3, <3>4 DEF Accounted, OutboxIInv
  <2>4. CASE d # e
    <3>1. copies'[d] = copies[d] /\ ~Sends(p, d)
      BY <1>2, <2>4 DEF Sends, OutboxIInv, Shape
    <3>2. QED BY <1>6, <2>1, <2>2, <3>1 DEF Accounted, OutboxIInv, Arrive, rows
  <2>5. QED BY <2>3, <2>4
<1>7. QED BY <1>5, <1>6 DEF OutboxIInv, Arrive

\* A second send of an arrived message makes its row doubtful.
LEMMA ResendKeeps ==
  ASSUME OutboxIInv, NEW p \in Procs, Resend(p)
  PROVE  OutboxIInv'
<1> DEFINE e == sending[p].id
<1>1. sending[p] \in SendType /\ e \in Entries
  BY DEF Resend, OutboxIInv, Shape, SendType
<1>2. sending' = [sending EXCEPT ![p] = [@ EXCEPT !.phase = "inflight", !.again = TRUE]] /\ doubted' = Doubt(p)
  BY DEF Resend
<1>3. sending'[p] \in SendType /\ sending'[p].id = e /\ sending'[p].phase = "inflight"
  BY <1>1, <1>2 DEF SendType, OutboxIInv, Shape
<1>4. sending'[p] # NoSend
  BY <1>3 DEF SendType, NoSend, Entries, NoEntry
<1>5. Shape'
  BY <1>1, <1>2, <1>3 DEF OutboxIInv, Shape, Resend, rows, Doubt
<1>6. ASSUME NEW d \in Entries \ doubted' PROVE Accounted(d)'
  <2>1. \A q \in Procs : Sends(q, d)' = Sends(q, d)
    BY <1>2, <1>3, <1>4 DEF Sends, OutboxIInv, Shape, Resend
  <2>2. \A q \in Procs \ {p} : sending'[q] = sending[q]
    BY <1>2 DEF OutboxIInv, Shape
  <2>3. d \notin doubted /\ Accounted(d) BY <1>2, <1>6 DEF Doubt, OutboxIInv
  <2>4. Sends(p, d) => sending[p].phase # "arrived"
    BY <1>2, <1>6 DEF Doubt, Sends
  <2>5. QED BY <1>3, <2>1, <2>2, <2>3, <2>4 DEF Accounted, Resend, rows
<1>7. QED BY <1>5, <1>6 DEF OutboxIInv

\* A crash forgets the send; the row stays as it is.
LEMMA CrashKeeps ==
  ASSUME OutboxIInv, NEW p \in Procs, Crash(p)
  PROVE  OutboxIInv'
<1>1. sending' = [sending EXCEPT ![p] = NoSend] BY DEF Crash
<1>2. Shape' BY <1>1 DEF OutboxIInv, Shape, Crash, rows
<1>3. ASSUME NEW d \in Entries \ doubted PROVE Accounted(d)'
  <2>1. ~Sends(p, d)' BY <1>1 DEF Sends, OutboxIInv, Shape
  <2>2. \A q \in Procs \ {p} : Sends(q, d)' = Sends(q, d) /\ sending'[q] = sending[q]
    BY <1>1 DEF Sends, OutboxIInv, Shape
  <2>3. QED BY <1>3, <2>1, <2>2 DEF Accounted, OutboxIInv, Crash, rows
<1>4. QED BY <1>2, <1>3 DEF OutboxIInv, Crash

\* A send that arrived is written back as sent.
LEMMA FinishSendKeeps ==
  ASSUME OutboxIInv, NEW p \in Procs, FinishSend(p)
  PROVE  OutboxIInv'
  BY WriteBackKeeps DEF FinishSend, Doubtless

\* A send that throws is written back undone, and is doubtful if it arrived.
LEMMA FailSendKeeps ==
  ASSUME OutboxIInv, NEW p \in Procs, FailSend(p)
  PROVE  OutboxIInv'
<1>1. Backoff(sending[p].attempts + 1) \in Int
  <2>1. sending[p].attempts \in Nat BY DEF FailSend, OutboxIInv, Shape, SendType
  <2>2. QED BY <2>1, OutboxAssumption DEF Backoff
<1>2. QED BY <1>1, WriteBackKeeps DEF FailSend, Doubtless

-----------------------------------------------------------------------------
(* The invariant *)

\* It holds at the start.
LEMMA InitKeeps == Init => OutboxIInv
<1> SUFFICES ASSUME Init PROVE OutboxIInv OBVIOUS
<1>1. Shape
  <2>1. last = 0 /\ status = [e \in Entries |-> "none"] /\ \A e \in Entries : e > last
    BY OutboxAssumption DEF Init, Entries
  <2>2. QED BY <2>1, OutboxAssumption DEF Init, Shape
<1>2. ASSUME NEW e \in Entries \ doubted PROVE Accounted(e)
  BY <1>2 DEF Init, Accounted, Sends
<1>3. QED BY <1>1, <1>2 DEF OutboxIInv

\* Every step keeps it.
LEMMA NextKeeps == OutboxIInv /\ [Next]_vars => OutboxIInv'
<1> SUFFICES ASSUME OutboxIInv, [Next]_vars PROVE OutboxIInv' OBVIOUS
<1>1. ASSUME NEW p \in Procs, NEW rq \in Requests, FindExisting(p, rq) PROVE OutboxIInv'
  BY <1>1, FindExistingKeeps
<1>2. ASSUME NEW p \in Procs, Insert(p) \/ RunOutbox(p) \/ Claim(p) PROVE OutboxIInv'
  BY <1>2, InsertKeeps, RunOutboxKeeps, ClaimKeeps
<1>3. ASSUME NEW p \in Procs, StartSend(p) \/ Arrive(p) \/ Resend(p) PROVE OutboxIInv'
  BY <1>3, StartSendKeeps, ArriveKeeps, ResendKeeps
<1>4. ASSUME NEW p \in Procs, FinishSend(p) \/ FailSend(p) \/ EndBatch(p) PROVE OutboxIInv'
  BY <1>4, FinishSendKeeps, FailSendKeeps, EndBatchKeeps
<1>5. ASSUME NEW p \in Procs, StartWorker(p) \/ StopWorker(p) \/ Crash(p) PROVE OutboxIInv'
  BY <1>5, StartWorkerKeeps, StopWorkerKeeps, CrashKeeps
<1>6. ASSUME Tick PROVE OutboxIInv'
  BY <1>6, TickKeeps
<1>7. ASSUME UNCHANGED vars PROVE OutboxIInv'
  <2>1. Shape' BY <1>7 DEF vars, rows, worker, OutboxIInv, Shape
  <2>2. QED BY <1>7, <2>1, SameSends DEF vars, rows, worker
<1>8. QED BY <1>1, <1>2, <1>3, <1>4, <1>5, <1>6, <1>7 DEF Next

\* The invariant holds in every state.
THEOREM OutboxInvariant == Spec => []OutboxIInv
BY InitKeeps, NextKeeps, PTL DEF Spec

\* A message reaches the platform twice only if a claim on its row was taken
\* over as stale or its send threw after it had arrived (claimEntry and
\* processEntry of outbox.ts).
THEOREM DeliveredOnce == Spec => []TwiceOnlyIfDoubted
<1>1. OutboxIInv => TwiceOnlyIfDoubted
  BY DEF OutboxIInv, Accounted, TwiceOnlyIfDoubted
<1>2. QED BY <1>1, OutboxInvariant, PTL

-----------------------------------------------------------------------------
(* Ends *)

\* The change of status EndsAreFinal allows one row.
EndKept(e) ==
  e \notin doubted' /\ status[e] \in Final /\ status'[e] # status[e] =>
    status[e] = "cancelled" /\ \E p \in Procs : sending[p].id = e

\* A write-back that adds no doubt about the row finds it processing, or
\* cancelled under the send.
LEMMA WriteBackEnds ==
  ASSUME OutboxIInv, NEW p \in Procs, sending[p] # NoSend, NEW s, NEW w,
         WriteBack(p, s, w), doubted \subseteq doubted', NEW e \in Entries
  PROVE  EndKept(e)
<1>1. CASE e = sending[p].id /\ e \notin doubted'
  <2>1. Sends(p, e) /\ Accounted(e)
    BY <1>1 DEF Sends, OutboxIInv
  <2>2. status[e] \in {"processing", "cancelled"}
    BY <2>1 DEF Accounted
  <2>3. QED BY <1>1, <2>2 DEF EndKept, Final
<1>2. CASE e # sending[p].id
  <2>1. status'[e] = status[e]
    BY <1>2 DEF WriteBack, OutboxIInv, Shape
  <2>2. QED BY <2>1 DEF EndKept
<1>3. CASE e \in doubted'
  BY <1>3 DEF EndKept
<1>4. QED BY <1>1, <1>2, <1>3

\* What every step does to a row that has ended.
LEMMA NextEnds ==
  ASSUME OutboxIInv, [Next]_vars, NEW e \in Entries
  PROVE  EndKept(e)
<1>1. ASSUME NEW p \in Procs, Insert(p) PROVE EndKept(e)
  <2> DEFINE old == Replaced(asking[p].replaces)
  <2>1. status' = [d \in Entries |-> IF d = last + 1 THEN "pending"
                                     ELSE IF d = old THEN "cancelled" ELSE status[d]]
    BY <1>1 DEF Insert
  <2>2. e = last + 1 => status[e] = "none"
    <3>1. last \in Nat /\ (e > last <=> status[e] = "none")
      BY DEF OutboxIInv, Shape
    <3>2. QED BY <3>1
  <2>3. e = old => status[e] \in Live
    BY OutboxAssumption DEF Replaced, NoEntry, Entries
  <2>4. QED BY <2>1, <2>2, <2>3 DEF EndKept, Live, Final
<1>2. ASSUME NEW p \in Procs, Claim(p) PROVE EndKept(e)
  <2>1. PICK c \in Foremost(batch[p]) :
          \/ ClaimEligible(c.id, p) /\ status' = [status EXCEPT ![c.id] = "processing"]
          \/ UNCHANGED status
    BY <1>2 DEF Claim
  <2>2. ClaimEligible(c.id, p) => status[c.id] \in Live
    BY DEF ClaimEligible, Live
  <2>3. QED BY <2>1, <2>2 DEF EndKept, OutboxIInv, Shape, Live, Final
<1>3. ASSUME NEW p \in Procs, StartSend(p) PROVE EndKept(e)
  <2>1. CASE WriteBack(p, "suppressed", 0) /\ UNCHANGED doubted
    BY <1>3, <2>1, WriteBackEnds DEF StartSend
  <2>2. CASE UNCHANGED rows
    BY <2>2 DEF rows, EndKept
  <2>3. QED BY <1>3, <2>1, <2>2 DEF StartSend
<1>4. ASSUME NEW p \in Procs, FinishSend(p) \/ FailSend(p) PROVE EndKept(e)
  BY <1>4, WriteBackEnds DEF FinishSend, FailSend, Doubt
<1>5. ASSUME UNCHANGED status PROVE EndKept(e)
  BY <1>5 DEF EndKept
<1>6. ASSUME NEW p \in Procs,
             \/ \E rq \in Requests : FindExisting(p, rq)
             \/ RunOutbox(p) \/ Arrive(p) \/ Resend(p) \/ EndBatch(p)
             \/ StartWorker(p) \/ StopWorker(p) \/ Crash(p)
      PROVE UNCHANGED status
  BY <1>6 DEF FindExisting, RunOutbox, Arrive, Resend, EndBatch, StartWorker, StopWorker,
              Crash, rows
<1>7. Tick \/ UNCHANGED vars => UNCHANGED status
  BY DEF Tick, vars, rows
<1>8. QED BY <1>1, <1>2, <1>3, <1>4, <1>5, <1>6, <1>7 DEF Next

\* A row that has ended keeps its end, unless its claim went stale or it was
\* cancelled while its send was under way (the write-backs of processEntry and
\* the cancellation in enqueueConnectorOutbox).
THEOREM EndsStay == Spec => EndsAreFinal
<1>1. OutboxIInv /\ [Next]_vars =>
        [\A e \in Entries \ doubted' :
           status[e] \in Final /\ status'[e] # status[e] =>
             status[e] = "cancelled" /\ \E p \in Procs : sending[p].id = e]_vars
  BY NextEnds DEF EndKept
<1>2. QED BY <1>1, OutboxInvariant, PTL DEF Spec, EndsAreFinal

=============================================================================
