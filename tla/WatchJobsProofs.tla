--------------------------- MODULE WatchJobsProofs ---------------------------
(***************************************************************************)
(* For any number of watches and ticks: who counts as triggered was woken, *)
(* and woken once unless ticks overlap or one is cut off.                  *)
(***************************************************************************)
EXTENDS WatchJobs, TLAPS

USE DEF WatchStatuses, Watches

\* The rows a tick may be about to write.
Updates == UNION {[D -> WatchRow] : D \in SUBSET Watches}
TickType == [Ticks -> [on : BOOLEAN, left : SUBSET Polled, updates : Updates]]

TypesHold ==
  /\ watch \in [Watches -> WatchRow] /\ wakes \in [Watches -> 0 .. 2]
  /\ tick \in TickType
  /\ \A k \in Ticks : ~tick[k].on => tick[k] = NoTick
  /\ watchFaults \in Nat

\* A row that says triggered, written or yet to be written, has woken its agent.
TriggeredRowsWoke ==
  \A k \in Ticks : \A w \in DOMAIN tick[k].updates :
    tick[k].updates[w].status = "triggered" => wakes[w] > 0

WokenIInv == TypesHold /\ TriggeredWasWoken /\ TriggeredRowsWoke

\* What holds as long as ticks neither overlap nor are cut off.  A watch that woke
\* its agent is no longer active, or will be written as triggered by the tick;
\* what the tick will evaluate, or write as active, has woken nobody.
OneTick == \A j, k \in Ticks : tick[j].on /\ tick[k].on => j = k

Spent(w) == \E k \in Ticks : /\ tick[k].on /\ w \in DOMAIN tick[k].updates
                             /\ tick[k].updates[w].status = "triggered"

WokenAreSpent ==
  \A w \in Watches : wakes[w] > 0 => /\ watch[w].status # "none" /\ wakes[w] <= 1
                                     /\ watch[w].status = "active" => Spent(w)

TickIsFresh ==
  \A k \in Ticks :
    /\ \A w \in tick[k].left : wakes[w] = 0 /\ watch[w].status # "none"
    /\ \A w \in DOMAIN tick[k].updates :
         /\ tick[k].updates[w].status # "none"
         /\ tick[k].updates[w].status \in {"active", "triggered"} => w \in Polled
         /\ tick[k].updates[w].status = "active" => wakes[w] = 0

Quiet == ~overlap /\ watchFaults = 0
OnceIInv == TypesHold /\ (Quiet => OneTick /\ WokenAreSpent /\ TickIsFresh)

-----------------------------------------------------------------------------
(* Types *)

LEMMA UpdatesIntro ==
  ASSUME NEW D \in SUBSET Watches, NEW u \in [D -> WatchRow] PROVE u \in Updates
  BY DEF Updates

LEMMA UpdatesElim ==
  ASSUME NEW u \in Updates
  PROVE  /\ DOMAIN u \subseteq Watches /\ u \in [DOMAIN u -> WatchRow]
         /\ \A w \in DOMAIN u : u[w] \in WatchRow
<1>1. PICK D \in SUBSET Watches : u \in [D -> WatchRow] BY DEF Updates
<1> QED BY <1>1

\* One more row to write.
LEMMA UpdatesExtend ==
  ASSUME NEW u \in Updates, NEW w \in Watches, NEW r \in WatchRow
  PROVE  /\ WithRow(u, w, r) \in Updates
         /\ DOMAIN WithRow(u, w, r) = DOMAIN u \cup {w}
         /\ WithRow(u, w, r)[w] = r
         /\ \A v \in DOMAIN u \ {w} : WithRow(u, w, r)[v] = u[v]
<1>1. DOMAIN u \subseteq Watches /\ \A v \in DOMAIN u : u[v] \in WatchRow BY UpdatesElim
<1>2. WithRow(u, w, r) \in [DOMAIN u \cup {w} -> WatchRow] BY <1>1 DEF WithRow
<1>3. WithRow(u, w, r) \in Updates BY <1>1, <1>2, UpdatesIntro
<1> QED BY <1>3 DEF WithRow

LEMMA NoTickTyped == NoTick \in [on : BOOLEAN, left : SUBSET Polled, updates : Updates]
                     /\ DOMAIN NoTick.updates = {} /\ NoTick.left = {} /\ ~NoTick.on
<1>1. <<>> \in [{} -> WatchRow] OBVIOUS
<1>2. <<>> \in Updates BY <1>1, UpdatesIntro
<1> QED BY <1>2 DEF NoTick

LEMMA AgainCounts ==
  ASSUME NEW n \in 0 .. 2 PROVE Again(n) \in 0 .. 2 /\ Again(n) > 0 /\ (n = 0 => Again(n) = 1)
  BY DEF Again

\* What the evaluation of w changes.
LEMMA EvaluatedIs ==
  ASSUME TypesHold, NEW k \in Ticks, NEW w \in Polled, Evaluated(k, w)
  PROVE  /\ tick' \in TickType /\ wakes' \in [Watches -> 0 .. 2] /\ watchFaults' \in Nat
         /\ UNCHANGED <<watch, overlap>> /\ watchFaults' >= watchFaults
         /\ \A j \in Ticks \ {k} : tick'[j] = tick[j]
         /\ tick[k].on /\ tick'[k].on /\ w \in tick[k].left /\ tick'[k].left = tick[k].left \ {w}
         /\ DOMAIN tick'[k].updates = DOMAIN tick[k].updates \cup {w}
         /\ \A v \in DOMAIN tick[k].updates \ {w} : tick'[k].updates[v] = tick[k].updates[v]
         /\ \A v \in Watches \ {w} : wakes'[v] = wakes[v]
         /\ \/ /\ tick'[k].updates[w].status = "triggered" /\ wakes'[w] = Again(wakes[w])
            \/ /\ tick'[k].updates[w].status = "active" /\ wakes'[w] = wakes[w]
<1>1. PICK st \in {"triggered", "active"} :
        /\ wakes' = IF st = "triggered" THEN Woken(w) ELSE wakes
        /\ tick' = [tick EXCEPT ![k].left = @ \ {w},
                               ![k].updates = WithRow(@, w, [status |-> st, due |-> st = "triggered"])]
        /\ UNCHANGED watchFaults \/ WatchFault
  BY DEF Evaluated
<1> DEFINE r == [status |-> st, due |-> st = "triggered"]
<1>2. r \in WatchRow /\ r.status = st BY DEF WatchRow
<1>3. tick[k].updates \in Updates /\ tick[k].left \subseteq Polled BY DEF TypesHold, TickType
<1>4. tick'[k] = [tick[k] EXCEPT !.left = @ \ {w}, !.updates = WithRow(@, w, r)]
      /\ \A j \in Ticks \ {k} : tick'[j] = tick[j]
  BY <1>1 DEF TypesHold, TickType
<1>5. /\ tick'[k].on = tick[k].on /\ tick'[k].left = tick[k].left \ {w}
      /\ tick'[k].updates = WithRow(tick[k].updates, w, r)
  BY <1>4 DEF TypesHold, TickType
<1>6. WithRow(tick[k].updates, w, r) \in Updates BY <1>2, <1>3, UpdatesExtend
<1>7. tick' \in TickType
  BY <1>1, <1>3, <1>6 DEF TypesHold, TickType
<1>8. w \in tick[k].left BY DEF Evaluated
<1>9. tick[k].on BY <1>8, NoTickTyped DEF TypesHold
<1>10. watchFaults' \in Nat /\ watchFaults' >= watchFaults
  BY <1>1 DEF WatchFault, TypesHold
<1>11. /\ wakes' \in [Watches -> 0 .. 2]
       /\ \A v \in Watches \ {w} : wakes'[v] = wakes[v]
       /\ IF st = "triggered" THEN wakes'[w] = Again(wakes[w]) ELSE wakes'[w] = wakes[w]
  BY <1>1, AgainCounts DEF Woken, TypesHold
<1>12. /\ DOMAIN tick'[k].updates = DOMAIN tick[k].updates \cup {w}
       /\ \A v \in DOMAIN tick[k].updates \ {w} : tick'[k].updates[v] = tick[k].updates[v]
       /\ tick'[k].updates[w].status = st
  <2> DEFINE u == WithRow(tick[k].updates, w, r)
  <2>1. w \in Watches OBVIOUS
  <2>2. /\ DOMAIN u = DOMAIN tick[k].updates \cup {w} /\ u[w] = r
        /\ \A v \in DOMAIN tick[k].updates \ {w} : u[v] = tick[k].updates[v]
    <3> HIDE DEF r
    <3> QED BY <1>2, <1>3, <2>1, UpdatesExtend
  <2>3. tick'[k].updates = u BY <1>5
  <2> HIDE DEF u, r
  <2> QED BY <1>2, <2>2, <2>3
<1>13. UNCHANGED <<watch, overlap>> BY DEF Evaluated
<1> QED BY <1>1, <1>4, <1>5, <1>7, <1>8, <1>9, <1>10, <1>11, <1>12, <1>13

\* What the start of a tick changes.
LEMMA StartIs ==
  ASSUME TypesHold, NEW k \in Ticks, StartTick(k)
  PROVE  /\ tick' \in TickType /\ UNCHANGED <<watch, wakes, watchFaults>>
         /\ \A j \in Ticks \ {k} : tick'[j] = tick[j]
         /\ ~tick[k].on /\ tick'[k].on
         /\ \A w \in tick'[k].left : watch[w].status = "active" /\ w \in Polled
         /\ \A w \in DOMAIN tick'[k].updates : tick'[k].updates[w].status = "failed"
         /\ overlap' = (overlap \/ \E j \in Ticks : tick[j].on)
<1> DEFINE listed == {w \in Watches : watch[w].status = "active"}
           l == {w \in (listed \cap Polled) \ tooLate : watch[w].due}
           u == [w \in listed \cap tooLate |-> Became(w, "failed")]
<1>1. /\ tick' = [tick EXCEPT ![k] = [on |-> TRUE, left |-> l, updates |-> u]]
      /\ UNCHANGED <<watch, wakes, watchFaults>> /\ ~tick[k].on
      /\ overlap' = (overlap \/ \E j \in Ticks : tick[j].on)
  BY DEF StartTick
<1>2. \A w \in Watches : Became(w, "failed") \in WatchRow /\ Became(w, "failed").status = "failed"
  BY DEF Became, TypesHold, WatchRow
<1>3. u \in [listed \cap tooLate -> WatchRow] BY <1>2
<1>4. u \in Updates BY <1>3, UpdatesIntro
<1>5. tick'[k] = [on |-> TRUE, left |-> l, updates |-> u]
      /\ \A j \in Ticks \ {k} : tick'[j] = tick[j]
  BY <1>1 DEF TypesHold, TickType
<1>6. tick' \in TickType BY <1>1, <1>4 DEF TypesHold, TickType
<1> QED BY <1>1, <1>2, <1>5, <1>6

\* What its end changes.
LEMMA EndIs ==
  ASSUME TypesHold, NEW k \in Ticks, TickEnds(k)
  PROVE  /\ tick' \in TickType /\ UNCHANGED <<wakes, overlap, watchFaults>>
         /\ \A j \in Ticks \ {k} : tick'[j] = tick[j]
         /\ tick[k].on /\ tick'[k] = NoTick
         /\ watch' \in [Watches -> WatchRow]
         /\ \A w \in Watches : watch'[w] = IF w \in DOMAIN tick[k].updates THEN tick[k].updates[w] ELSE watch[w]
<1>1. tick[k].updates \in Updates BY DEF TypesHold, TickType
<1>2. /\ tick' = [tick EXCEPT ![k] = NoTick] /\ tick[k].on
      /\ UNCHANGED <<wakes, overlap, watchFaults>>
      /\ watch' = Written(tick[k].updates)
  BY DEF TickEnds
<1>3. tick' \in TickType BY <1>2, NoTickTyped DEF TypesHold, TickType
<1>4. watch' \in [Watches -> WatchRow] BY <1>1, <1>2, UpdatesElim DEF Written, TypesHold
<1>5. \A w \in Watches : watch'[w] = IF w \in DOMAIN tick[k].updates THEN tick[k].updates[w] ELSE watch[w]
  BY <1>2 DEF Written
<1>6. tick'[k] = NoTick /\ \A j \in Ticks \ {k} : tick'[j] = tick[j]
  BY <1>2 DEF TypesHold, TickType
<1> QED BY <1>2, <1>3, <1>4, <1>5, <1>6

\* What it changes that some watches are told.
LEMMA TellIs ==
  ASSUME TypesHold, NEW S \in SUBSET Told, Tell(S)
  PROVE  /\ watch' \in [Watches -> WatchRow] /\ wakes' \in [Watches -> 0 .. 2]
         /\ UNCHANGED <<tick, overlap, watchFaults>>
         /\ \A w \in S : /\ watch[w].status = "active" /\ watch'[w].status = "triggered"
                         /\ wakes'[w] = Again(wakes[w])
         /\ \A w \in Watches \ S : watch'[w] = watch[w] /\ wakes'[w] = wakes[w]
<1>1. \A w \in Watches : Became(w, "triggered") \in WatchRow /\ Became(w, "triggered").status = "triggered"
  BY DEF Became, TypesHold, WatchRow
<1>2. watch' \in [Watches -> WatchRow] BY <1>1 DEF Tell, ToldRows, TypesHold
<1>3. wakes' \in [Watches -> 0 .. 2] BY AgainCounts DEF Tell, TypesHold
<1> QED BY <1>1, <1>2, <1>3 DEF Tell, ToldRows

\* The other steps change the row of one watch, and what nobody reads here.
Aside(w) ==
  /\ UNCHANGED <<tick, wakes, overlap, watchFaults>>
  /\ watch' \in [Watches -> WatchRow]
  /\ \A v \in Watches \ {w} : watch'[v] = watch[v]
  /\ \/ watch'[w].status = watch[w].status
     \/ watch[w].status = "none" /\ watch'[w].status = "active"
     \/ watch[w].status # "none" /\ watch'[w].status = "cancelled"

LEMMA AsideIs ==
  ASSUME TypesHold, NEW w \in Watches,
         CreateWatch(w) \/ CancelWatch(w) \/ CheckComes(w) \/ ConditionComes(w) \/ TimeoutComes(w)
  PROVE  Aside(w)
<1> USE DEF TypesHold, Aside
<1>1. CASE CreateWatch(w)
  <2>1. PICK due \in BOOLEAN : watch' = [watch EXCEPT ![w] = [status |-> "active", due |-> due]]
    BY <1>1 DEF CreateWatch
  <2>2. [status |-> "active", due |-> due] \in WatchRow BY DEF WatchRow
  <2> QED BY <1>1, <2>1, <2>2 DEF CreateWatch
<1>2. CASE CancelWatch(w)
  <2>1. Became(w, "cancelled") \in WatchRow /\ Became(w, "cancelled").status = "cancelled"
    BY DEF Became, WatchRow
  <2> QED BY <1>2, <2>1 DEF CancelWatch
<1>3. CASE CheckComes(w) BY <1>3 DEF CheckComes, WatchRow
<1>4. CASE ConditionComes(w) BY <1>4 DEF ConditionComes
<1>5. CASE TimeoutComes(w) BY <1>5 DEF TimeoutComes
<1> QED BY <1>1, <1>2, <1>3, <1>4, <1>5

LEMMA DiesIs ==
  ASSUME TypesHold, DaemonDies
  PROVE  /\ tick' \in TickType /\ UNCHANGED <<watch, wakes>> /\ watchFaults' \in Nat
         /\ watchFaults' > 0 /\ \A k \in Ticks : tick'[k] = NoTick
  BY NoTickTyped DEF DaemonDies, WatchFault, TypesHold, TickType

-----------------------------------------------------------------------------
(* Steps *)

LEMMA TypesStep == TypesHold /\ [WatchNext]_watchVars => TypesHold'
<1> SUFFICES ASSUME TypesHold, [WatchNext]_watchVars PROVE TypesHold'
  OBVIOUS
<1>1. ASSUME NEW w \in Watches,
             CreateWatch(w) \/ CancelWatch(w) \/ CheckComes(w) \/ ConditionComes(w) \/ TimeoutComes(w)
      PROVE  TypesHold'
  BY <1>1, AsideIs DEF Aside, TypesHold
<1>2. ASSUME NEW S \in SUBSET Told, Tell(S) PROVE TypesHold'
  BY <1>2, TellIs DEF TypesHold
<1>3. ASSUME NEW k \in Ticks, StartTick(k) PROVE TypesHold'
  BY <1>3, StartIs DEF TypesHold
<1>4. ASSUME NEW k \in Ticks, TickEnds(k) PROVE TypesHold'
  BY <1>4, EndIs DEF TypesHold
<1>5. ASSUME NEW k \in Ticks, NEW w \in Polled, Evaluated(k, w) PROVE TypesHold'
  <2>1. watch' = watch BY <1>5, EvaluatedIs
  <2>2. \A j \in Ticks : ~tick'[j].on => tick'[j] = NoTick BY <1>5, EvaluatedIs DEF TypesHold
  <2> QED BY <1>5, <2>1, <2>2, EvaluatedIs DEF TypesHold
<1>6. CASE DaemonDies BY <1>6, DiesIs DEF TypesHold
<1>7. CASE UNCHANGED watchVars BY <1>7 DEF watchVars, TypesHold
<1> QED BY <1>1, <1>2, <1>3, <1>4, <1>5, <1>6, <1>7 DEF WatchNext

\* Rows become triggered with a wake, and wakes are not taken back.
LEMMA WokenStep == WokenIInv /\ [WatchNext]_watchVars => WokenIInv'
<1> SUFFICES ASSUME WokenIInv, [WatchNext]_watchVars PROVE WokenIInv'
  OBVIOUS
<1> USE DEF WokenIInv
<1>0. TypesHold' BY TypesStep
<1>1. ASSUME NEW w \in Watches,
             CreateWatch(w) \/ CancelWatch(w) \/ CheckComes(w) \/ ConditionComes(w) \/ TimeoutComes(w)
      PROVE  TriggeredWasWoken' /\ TriggeredRowsWoke'
  BY <1>1, AsideIs DEF Aside, TriggeredWasWoken, TriggeredRowsWoke
<1>2. ASSUME NEW S \in SUBSET Told, Tell(S) PROVE TriggeredWasWoken' /\ TriggeredRowsWoke'
  <2>1. \A w \in Watches : wakes[w] > 0 => wakes'[w] > 0
    BY <1>2, TellIs, AgainCounts DEF TypesHold
  <2>2. \A w \in S : wakes'[w] > 0
    BY <1>2, TellIs, AgainCounts DEF TypesHold
  <2>3. TriggeredWasWoken' BY <1>2, <2>1, <2>2, TellIs DEF TriggeredWasWoken
  <2>4. \A k \in Ticks : DOMAIN tick[k].updates \subseteq Watches
    BY UpdatesElim DEF TypesHold, TickType
  <2>5. tick' = tick BY <1>2, TellIs
  <2> QED BY <2>1, <2>3, <2>4, <2>5 DEF TriggeredRowsWoke
<1>3. ASSUME NEW k \in Ticks, StartTick(k) PROVE TriggeredWasWoken' /\ TriggeredRowsWoke'
  BY <1>3, StartIs DEF TriggeredWasWoken, TriggeredRowsWoke
<1>4. ASSUME NEW k \in Ticks, TickEnds(k) PROVE TriggeredWasWoken' /\ TriggeredRowsWoke'
  <2>1. TriggeredWasWoken' BY <1>4, EndIs DEF TriggeredWasWoken, TriggeredRowsWoke
  <2>2. TriggeredRowsWoke' BY <1>4, EndIs, NoTickTyped DEF TriggeredRowsWoke
  <2> QED BY <2>1, <2>2
<1>5. ASSUME NEW k \in Ticks, NEW w \in Polled, Evaluated(k, w)
      PROVE  TriggeredWasWoken' /\ TriggeredRowsWoke'
  <2>1. /\ wakes'[w] = Again(wakes[w]) \/ wakes'[w] = wakes[w]
        /\ \A v \in Watches \ {w} : wakes'[v] = wakes[v]
        /\ watch' = watch
    BY <1>5, EvaluatedIs
  <2>2. \A v \in Watches : wakes[v] > 0 => wakes'[v] > 0
    BY <2>1, AgainCounts DEF TypesHold
  <2>3. TriggeredWasWoken' BY <2>1, <2>2 DEF TriggeredWasWoken
  <2>4. tick'[k].updates[w].status = "triggered" => wakes'[w] > 0
    BY <1>5, EvaluatedIs, AgainCounts DEF TypesHold
  <2>5. \A j \in Ticks : DOMAIN tick[j].updates \subseteq Watches
    BY UpdatesElim DEF TypesHold, TickType
  <2>6. /\ \A j \in Ticks \ {k} : tick'[j] = tick[j]
        /\ DOMAIN tick'[k].updates = DOMAIN tick[k].updates \cup {w}
        /\ \A v \in DOMAIN tick[k].updates \ {w} : tick'[k].updates[v] = tick[k].updates[v]
    BY <1>5, EvaluatedIs
  <2>7. TriggeredRowsWoke' BY <2>2, <2>4, <2>5, <2>6 DEF TriggeredRowsWoke
  <2> QED BY <2>3, <2>7
<1>6. CASE DaemonDies
  BY <1>0, <1>6, DiesIs, NoTickTyped DEF TriggeredWasWoken, TriggeredRowsWoke
<1>7. CASE UNCHANGED watchVars
  BY <1>0, <1>7 DEF watchVars, TriggeredWasWoken, TriggeredRowsWoke
<1> QED BY <1>0, <1>1, <1>2, <1>3, <1>4, <1>5, <1>6, <1>7 DEF WatchNext

\* While all is quiet, what woke stays woken once.
LEMMA OnceStep == OnceIInv /\ [WatchNext]_watchVars => OnceIInv'
<1> SUFFICES ASSUME OnceIInv, [WatchNext]_watchVars, Quiet' PROVE (OneTick /\ WokenAreSpent /\ TickIsFresh)'
  BY TypesStep DEF OnceIInv
<1> DEFINE Goal == OneTick' /\ WokenAreSpent' /\ TickIsFresh'
<1>0. TypesHold /\ TypesHold' BY TypesStep DEF OnceIInv
<1>q. ASSUME UNCHANGED <<overlap, watchFaults>>
      PROVE  OneTick /\ WokenAreSpent /\ TickIsFresh
  BY <1>q DEF Quiet, OnceIInv
<1>1. ASSUME NEW w \in Watches,
             CreateWatch(w) \/ CancelWatch(w) \/ CheckComes(w) \/ ConditionComes(w) \/ TimeoutComes(w)
      PROVE  Goal
  <2>1. Aside(w) BY <1>0, <1>1, AsideIs
  <2>2. OneTick /\ WokenAreSpent /\ TickIsFresh BY <1>q, <2>1 DEF Aside
  <2>3. OneTick' BY <2>1, <2>2 DEF Aside, OneTick
  <2>6. \A v \in Watches : watch[v].status # "none" => watch'[v].status # "none"
    BY <2>1 DEF Aside
  <2>7. \A k \in Ticks : tick[k].left \subseteq Watches BY <1>0 DEF TypesHold, TickType
  <2>8. TickIsFresh' BY <2>1, <2>2, <2>6, <2>7 DEF Aside, TickIsFresh
  <2>4. \A v \in Watches : Spent(v)' <=> Spent(v) BY <2>1 DEF Aside, Spent
  <2>5. WokenAreSpent' BY <2>1, <2>2, <2>4 DEF Aside, WokenAreSpent
  <2> QED BY <2>3, <2>5, <2>8
<1>2. ASSUME NEW S \in SUBSET Told, Tell(S) PROVE Goal
  <2>1. OneTick /\ WokenAreSpent /\ TickIsFresh BY <1>0, <1>2, <1>q, TellIs
  <2>2. tick' = tick BY <1>0, <1>2, TellIs
  <2>3. \A v \in Watches : Spent(v)' <=> Spent(v) BY <2>2 DEF Spent
  <2>4. \A v \in Told : ~Spent(v)
    BY <2>1, WatchAssumption DEF Spent, TickIsFresh
  <2>5. \A v \in S : wakes[v] = 0
    BY <1>0, <1>2, <2>1, <2>4, TellIs DEF WokenAreSpent, TypesHold
  <2>6. \A v \in S : wakes'[v] = 1 /\ watch'[v].status = "triggered"
    BY <1>0, <1>2, <2>5, TellIs, AgainCounts DEF TypesHold
  <2>7. WokenAreSpent'
    BY <1>0, <1>2, <2>1, <2>3, <2>6, TellIs DEF WokenAreSpent
  <2>8. \A k \in Ticks : tick[k].left \subseteq Polled /\ DOMAIN tick[k].updates \subseteq Watches
    BY <1>0, UpdatesElim DEF TypesHold, TickType
  <2>9. \A v \in Watches \ S : wakes'[v] = wakes[v] BY <1>0, <1>2, TellIs
  <2>10. TickIsFresh'
    <3>1. \A v \in Polled : wakes'[v] = wakes[v] /\ watch'[v] = watch[v]
      BY <1>0, <1>2, TellIs, WatchAssumption
    <3>2. \A k \in Ticks : \A v \in DOMAIN tick[k].updates :
            tick[k].updates[v].status = "active" => wakes'[v] = 0
      BY <2>1, <3>1 DEF TickIsFresh
    <3> QED BY <2>1, <2>2, <2>8, <3>1, <3>2 DEF TickIsFresh
  <2>11. OneTick' BY <2>1, <2>2 DEF OneTick
  <2> QED BY <2>7, <2>10, <2>11
<1>3. ASSUME NEW k \in Ticks, StartTick(k) PROVE Goal
  <2>1. /\ UNCHANGED <<watch, wakes, watchFaults>>
        /\ \A j \in Ticks \ {k} : tick'[j] = tick[j]
        /\ \A w \in tick'[k].left : watch[w].status = "active" /\ w \in Polled
        /\ \A w \in DOMAIN tick'[k].updates : tick'[k].updates[w].status = "failed"
        /\ overlap' = (overlap \/ \E j \in Ticks : tick[j].on)
    BY <1>0, <1>3, StartIs
  <2>2. /\ OneTick /\ WokenAreSpent /\ TickIsFresh
        /\ \A j \in Ticks : ~tick[j].on
    BY <2>1 DEF Quiet, OnceIInv
  <2>3. \A w \in Watches : watch[w].status = "active" => wakes[w] = 0
    BY <1>0, <2>2 DEF WokenAreSpent, Spent, TypesHold
  <2>4. OneTick' BY <2>1, <2>2 DEF OneTick
  <2>5. WokenAreSpent' BY <1>0, <2>1, <2>2, <2>3 DEF WokenAreSpent, TypesHold
  <2>6. TickIsFresh' BY <2>1, <2>2, <2>3 DEF TickIsFresh
  <2> QED BY <2>4, <2>5, <2>6
<1>4. ASSUME NEW k \in Ticks, TickEnds(k) PROVE Goal
  <2>1. /\ UNCHANGED <<wakes, overlap, watchFaults>>
        /\ \A j \in Ticks \ {k} : tick'[j] = tick[j]
        /\ tick[k].on /\ tick'[k] = NoTick
        /\ \A w \in Watches : watch'[w] = IF w \in DOMAIN tick[k].updates THEN tick[k].updates[w] ELSE watch[w]
    BY <1>0, <1>4, EndIs
  <2>2. OneTick /\ WokenAreSpent /\ TickIsFresh BY <1>q, <2>1
  <2>3. OneTick' BY <2>1, <2>2, NoTickTyped DEF OneTick
  <2>4. TickIsFresh'
    <3>1. \A j \in Ticks \ {k} : ~tick[j].on /\ tick[j] = NoTick
      BY <1>0, <2>1, <2>2 DEF OneTick, TypesHold
    <3>2. \A j \in Ticks : tick'[j] = NoTick BY <2>1, <3>1
    <3> QED BY <3>2, NoTickTyped DEF TickIsFresh
  <2>5. ASSUME NEW w \in Watches, wakes'[w] > 0
        PROVE  watch'[w].status # "none" /\ wakes'[w] <= 1 /\ watch'[w].status # "active"
    <3>1. CASE w \in DOMAIN tick[k].updates
      BY <2>1, <2>2, <2>5, <3>1 DEF TickIsFresh, WokenAreSpent
    <3>2. CASE w \notin DOMAIN tick[k].updates
      <4>1. ~Spent(w) BY <2>1, <2>2, <3>2 DEF Spent, OneTick
      <4> QED BY <2>1, <2>2, <2>5, <3>2, <4>1 DEF WokenAreSpent
    <3> QED BY <3>1, <3>2
  <2>6. WokenAreSpent' BY <2>5 DEF WokenAreSpent
  <2> QED BY <2>3, <2>4, <2>6
<1>5. ASSUME NEW k \in Ticks, NEW w \in Polled, Evaluated(k, w) PROVE Goal
  <2>1. /\ UNCHANGED <<watch, overlap>> /\ watchFaults' >= watchFaults
        /\ \A j \in Ticks \ {k} : tick'[j] = tick[j]
        /\ tick[k].on /\ tick'[k].on /\ w \in tick[k].left /\ tick'[k].left = tick[k].left \ {w}
        /\ DOMAIN tick'[k].updates = DOMAIN tick[k].updates \cup {w}
        /\ \A v \in DOMAIN tick[k].updates \ {w} : tick'[k].updates[v] = tick[k].updates[v]
        /\ \A v \in Watches \ {w} : wakes'[v] = wakes[v]
    BY <1>0, <1>5, EvaluatedIs
  <2>2. \/ /\ tick'[k].updates[w].status = "triggered" /\ wakes'[w] = Again(wakes[w])
        \/ /\ tick'[k].updates[w].status = "active" /\ wakes'[w] = wakes[w]
    BY <1>0, <1>5, EvaluatedIs
  <2>3. OneTick /\ WokenAreSpent /\ TickIsFresh
    BY <1>0, <2>1 DEF Quiet, OnceIInv, TypesHold
  <2>4. \A j \in Ticks \ {k} : ~tick[j].on /\ tick[j] = NoTick
    BY <1>0, <2>1, <2>3 DEF OneTick, TypesHold
  <2>5. OneTick' BY <2>1, <2>4 DEF OneTick
  <2>6. /\ wakes[w] = 0
        /\ \/ tick'[k].updates[w].status = "triggered" /\ wakes'[w] = 1
           \/ tick'[k].updates[w].status = "active" /\ wakes'[w] = 0
    BY <1>0, <2>1, <2>2, <2>3, AgainCounts DEF TickIsFresh, TypesHold
  <2>7. tick[k].left \subseteq Polled /\ DOMAIN tick[k].updates \subseteq Watches
    BY <1>0, UpdatesElim DEF TypesHold, TickType
  <2>8. TickIsFresh'
    <3>1. \A v \in tick'[k].left : wakes'[v] = 0 /\ watch'[v].status # "none"
      BY <2>1, <2>3, <2>7 DEF TickIsFresh
    <3>2. ASSUME NEW v \in DOMAIN tick'[k].updates
          PROVE  /\ tick'[k].updates[v].status # "none"
                 /\ tick'[k].updates[v].status \in {"active", "triggered"} => v \in Polled
                 /\ tick'[k].updates[v].status = "active" => wakes'[v] = 0
      <4>1. CASE v = w BY <2>6, <4>1
      <4>2. CASE v # w BY <2>1, <2>3, <2>7, <3>2, <4>2 DEF TickIsFresh
      <4> QED BY <4>1, <4>2
    <3>3. \A j \in Ticks \ {k} : tick'[j] = NoTick BY <2>1, <2>4
    <3> QED BY <3>1, <3>2, <3>3, NoTickTyped DEF TickIsFresh
  <2>9. ASSUME NEW v \in Watches, wakes'[v] > 0
        PROVE  /\ watch'[v].status # "none" /\ wakes'[v] <= 1
               /\ watch'[v].status = "active" => Spent(v)'
    <3>1. CASE v = w
      <4>1. Spent(w)' BY <2>1, <2>6, <2>9, <3>1 DEF Spent
      <4>2. watch[w].status # "none" BY <2>1, <2>3 DEF TickIsFresh
      <4> QED BY <2>1, <2>6, <3>1, <4>1, <4>2
    <3>2. CASE v # w
      <4>1. wakes[v] > 0 /\ wakes'[v] = wakes[v] /\ watch' = watch BY <2>1, <2>9, <3>2
      <4>2. Spent(v) => Spent(v)' BY <2>1, <2>4, <3>2, NoTickTyped DEF Spent
      <4> QED BY <2>3, <4>1, <4>2 DEF WokenAreSpent
    <3> QED BY <3>1, <3>2
  <2>10. WokenAreSpent' BY <2>9 DEF WokenAreSpent
  <2> QED BY <2>5, <2>8, <2>10
<1>6. CASE DaemonDies
  <2>1. watchFaults' > 0 BY <1>0, <1>6, DiesIs
  <2>2. watchFaults' = 0 BY DEF Quiet
  <2> QED BY <2>1, <2>2
<1>7. CASE UNCHANGED watchVars
  <2>1. OneTick /\ WokenAreSpent /\ TickIsFresh BY <1>q, <1>7 DEF watchVars
  <2> QED BY <1>7, <2>1 DEF watchVars, OneTick, WokenAreSpent, TickIsFresh, Spent
<1> QED BY <1>1, <1>2, <1>3, <1>4, <1>5, <1>6, <1>7 DEF WatchNext

LEMMA WatchInitTypes == WatchInit => TypesHold
<1> SUFFICES ASSUME WatchInit PROVE TypesHold
  OBVIOUS
<1>1. watch \in [Watches -> WatchRow] BY DEF WatchInit, WatchRow
<1>2. tick \in TickType /\ \A k \in Ticks : tick[k] = NoTick
  BY NoTickTyped DEF WatchInit, TickType
<1> QED BY <1>1, <1>2 DEF WatchInit, TypesHold

\* What the types above leave out.
WatchTyped ==
  /\ TypesHold /\ holds \subseteq Polled /\ tooLate \subseteq Watches
  /\ overlap \in BOOLEAN /\ watchFaults \in 0 .. MaxWatchFaults

LEMMA WatchTypedStarts == WatchInit => WatchTyped
<1>1. WatchInit => TypesHold BY WatchInitTypes
<1>2. 0 \in 0 .. MaxWatchFaults BY WatchAssumption
<1> HIDE DEF Watches
<1> QED BY <1>1, <1>2 DEF WatchInit, WatchTyped

LEMMA WatchTypedStep == WatchTyped /\ [WatchNext]_watchVars => WatchTyped'
<1> SUFFICES ASSUME WatchTyped, [WatchNext]_watchVars PROVE WatchTyped'
  OBVIOUS
<1> USE DEF WatchTyped
<1>1. TypesHold' BY TypesStep
<1>2. ASSUME NEW w \in Watches,
             CreateWatch(w) \/ CancelWatch(w) \/ CheckComes(w) \/ ConditionComes(w) \/ TimeoutComes(w)
      PROVE  WatchTyped'
  BY <1>1, <1>2 DEF CreateWatch, CancelWatch, CheckComes, ConditionComes, TimeoutComes
<1>3. ASSUME NEW S \in SUBSET Told, Tell(S) PROVE WatchTyped'
  BY <1>1, <1>3 DEF Tell
<1>4. ASSUME NEW k \in Ticks, StartTick(k) PROVE WatchTyped'
  BY <1>1, <1>4 DEF StartTick
<1>5. ASSUME NEW k \in Ticks, TickEnds(k) PROVE WatchTyped'
  BY <1>1, <1>5 DEF TickEnds
<1>6. ASSUME NEW k \in Ticks, NEW w \in Polled, Evaluated(k, w) PROVE WatchTyped'
  <2>1. UNCHANGED watchFaults \/ WatchFault BY <1>6 DEF Evaluated
  <2>2. watchFaults' \in 0 .. MaxWatchFaults BY <2>1, WatchAssumption DEF WatchFault
  <2> QED BY <1>1, <1>6, <2>2 DEF Evaluated
<1>7. CASE DaemonDies BY <1>1, <1>7, WatchAssumption DEF DaemonDies, WatchFault
<1>8. CASE UNCHANGED watchVars BY <1>1, <1>8 DEF watchVars
<1> QED BY <1>2, <1>3, <1>4, <1>5, <1>6, <1>7, <1>8 DEF WatchNext

LEMMA WatchIsTyped == WatchTyped => WatchTypeOK
<1> SUFFICES ASSUME WatchTyped PROVE WatchTypeOK
  OBVIOUS
<1>1. ASSUME NEW k \in Ticks
      PROVE  tick[k].left \subseteq Polled /\ DOMAIN tick[k].updates \subseteq Watches
             /\ (~tick[k].on => tick[k] = NoTick)
  <2>1. tick[k].left \subseteq Polled /\ tick[k].updates \in Updates
    BY DEF WatchTyped, TypesHold, TickType
  <2> QED BY <2>1, UpdatesElim DEF WatchTyped, TypesHold
<1> QED BY <1>1 DEF WatchTyped, TypesHold, WatchTypeOK

-----------------------------------------------------------------------------
(* Theorems *)

\* Rows that say triggered, in the table or in the hands of a tick, belong to
\* watches that woke their agents: what makes the theorem below inductive.
THEOREM WokenInvariance == WatchSpec => []WokenIInv
<1>1. WatchInit => WokenIInv
  <2> SUFFICES ASSUME WatchInit PROVE WokenIInv
    OBVIOUS
  <2>1. \A w \in Watches : watch[w].status = "none" BY DEF WatchInit
  <2>2. \A k \in Ticks : tick[k] = NoTick BY DEF WatchInit
  <2>3. TriggeredWasWoken BY <2>1 DEF TriggeredWasWoken
  <2>4. TriggeredRowsWoke BY <2>2, NoTickTyped DEF TriggeredRowsWoke
  <2> QED BY <2>3, <2>4, WatchInitTypes DEF WokenIInv
<1> QED BY <1>1, WokenStep, PTL DEF WatchSpec

\* No row of a watch says triggered whose agent was not woken, through crashes,
\* overlapping ticks and rows that processDueWatchJobs writes from an old list.
THEOREM TriggeredMeansWoken == WatchSpec => []TriggeredWasWoken
<1>1. WokenIInv => TriggeredWasWoken BY DEF WokenIInv
<1> QED BY <1>1, WokenInvariance, PTL

\* As long as ticks do not overlap and none is cut off, a watch that woke its
\* agent is spent: not active any more, or about to be written as triggered.
THEOREM OnceInvariance == WatchSpec => []OnceIInv
<1>1. WatchInit => OnceIInv
  <2> SUFFICES ASSUME WatchInit PROVE OnceIInv
    OBVIOUS
  <2>1. \A w \in Watches : wakes[w] = 0 BY DEF WatchInit
  <2>2. \A k \in Ticks : tick[k] = NoTick BY DEF WatchInit
  <2>3. OneTick BY <2>2, NoTickTyped DEF OneTick
  <2>4. WokenAreSpent BY <2>1 DEF WokenAreSpent
  <2>5. TickIsFresh BY <2>2, NoTickTyped DEF TickIsFresh
  <2> QED BY <2>3, <2>4, <2>5, WatchInitTypes DEF OnceIInv
<1> QED BY <1>1, OnceStep, PTL DEF WatchSpec

\* An agent is woken at most once for a watch, whatever cancels, times out or
\* tells it while a tick awaits, unless ticks overlap or one is cut off.
THEOREM AgentWokenOnce == WatchSpec => []WokenOnce
<1>1. OnceIInv => WokenOnce
  <2> SUFFICES ASSUME OnceIInv, ~overlap, watchFaults = 0, NEW w \in Watches PROVE wakes[w] <= 1
    BY DEF WokenOnce
  <2>1. WokenAreSpent BY DEF OnceIInv, Quiet
  <2>2. wakes[w] \in 0 .. 2 BY DEF OnceIInv, TypesHold
  <2> QED BY <2>1, <2>2 DEF WokenAreSpent
<1> QED BY <1>1, OnceInvariance, PTL
=============================================================================
