---------------------------- MODULE HumanQuestions ----------------------------
(***************************************************************************)
(* Questions to the human in one session: the card in the chat log, the    *)
(* request in the session's mailbox, and the wait for the reply            *)
(* (src/lib/server/session-tools/human-loop.ts, human-question-answer.ts,  *)
(* chatrooms/session-mailbox.ts).  Every statement of a handler is a step, *)
(* which a crash may cut off; other handlers come between handlers.        *)
(*                                                                         *)
(* A chat turn reads the session's row, and the mailbox in it, keeps it    *)
(* across awaits and writes it back as a whole                             *)
(* (chat-execution/chat-turn-preparation.ts, chat-turn-finalization.ts).   *)
(* It does the same to the log, with copies of its own                     *)
(* (chat-turn-partial-persistence.ts, chat-turn-finalization.ts).  Left    *)
(* out: two open questions under one correlationId, and the turn's own     *)
(* messages.                                                               *)
(***************************************************************************)
EXTENDS Integers, FiniteSets, Sequences

CONSTANTS
  Questions,  \* numbered by age, no two open under one correlationId
  Cards,      \* those that the chat shows as a card
  MaxSlips    \* bound: crashes, requests removed by hand, rows written back

ASSUME QuestionAssumption ==
  /\ Questions \subseteq Nat /\ IsFiniteSet(Questions) /\ Cards \subseteq Questions
  /\ MaxSlips \in Nat

VARIABLES
  card,      \* questionState.status; "lost": shown once, no longer in the log
  box,       \* the mailbox: the request and the reply of each question
  turnCopy,  \* the row that a turn is about to write back, or NoCopy
  logCopy,   \* the log that a turn is about to write back, or NoCopy
  wait,      \* the watch job of wait_for_reply
  told,      \* questions whose reply is yet to be told to the watch jobs
  script,    \* statements the handler has still to carry out
  turns,     \* questions whose answer has started a turn
  woken,     \* questions whose wait has woken the agent
  settled,   \* history: questions that were answered or superseded
  reopened,  \* history: those of them whose card a turn wrote back as pending
  namesakes, \* questions asked under the correlationId of an older, closed card
  orphaned,  \* open questions whose request is gone, was never written, or has
             \* another type than human_request
  lateWait,  \* questions that were settled when the wait was made
  slips

histories == <<settled, reopened, namesakes>>
questionVars == <<card, box, turnCopy, logCopy, wait, told, script, turns, woken, histories,
                  orphaned, lateWait, slips>>

NoCopy == <<>>
Empty == [request |-> "none", reply |-> FALSE]
Closed == {"answered", "superseded"}
Shown == {"card", "namesake"}
Requests == {"request", "requestOfType"}
Logs == [Questions -> {"none", "pending", "lost"} \cup Closed]
Boxes == [Questions -> [request : {"none", "new", "ack", "otherType"}, reply : BOOLEAN]]

Slip == slips < MaxSlips /\ slips' = slips + 1
Do(what, q) == [what |-> what, q |-> q]

QuestionsInit ==
  /\ card = [q \in Questions |-> "none"]
  /\ box = [q \in Questions |-> Empty]
  /\ turnCopy = NoCopy /\ logCopy = NoCopy
  /\ wait = [q \in Questions |-> "none"]
  /\ told = {} /\ script = <<>> /\ turns = {} /\ woken = {}
  /\ settled = {} /\ reopened = {} /\ namesakes = {}
  /\ orphaned = {} /\ lateWait = {} /\ slips = 0

-----------------------------------------------------------------------------
(* Handlers: each reads the mailbox and leaves a script. *)

\* Requests of type human_request in the mailbox that are not acked.
OpenRequests == {q \in Questions : box[q].request = "new"}

\* request_input: the card first, then the request, of the type and under the
\* correlationId that the agent gives it.
Ask(q) == /\ card[q] = "none" /\ box[q] = Empty
          /\ \E show \in Shown, request \in Requests :
               script' = IF q \in Cards THEN <<Do(show, q), Do(request, q)>> ELSE <<Do(request, q)>>

\* Bug: the wait goes on, and the reply will end it.
AnswerOnly(q) == <<Do("answered", q), Do("reply", q), Do("ack", q), Do("turn", q)>>

\* answerHumanQuestion: the card is closed, the wait stopped before the reply is
\* there, the reply written, the request acked, and a turn started.
AnswerScript(q) ==
  <<Do("answered", q), Do("cancel", q), Do("reply", q), Do("ack", q), Do("turn", q)>>

Answer(q) == q \in OpenRequests \cap Cards /\ script' = AnswerScript(q)

\* supersedePendingHumanQuestions: the user typed instead.  Card and request of each
\* are closed, then the waits are stopped.
SupersedeScript(s) ==
  LET n == Len(s)
  IN [i \in 1 .. 3 * n |->
        IF i > 2 * n THEN Do("cancel", s[i - 2 * n])
        ELSE Do(IF i % 2 = 1 THEN "superseded" ELSE "ack", s[(i + 1) \div 2])]

NewestFirst(S) ==
  {s \in [1 .. Cardinality(S) -> S] : \A i, j \in 1 .. Cardinality(S) : i < j => s[i] > s[j]}

Supersede ==
  /\ OpenRequests # {}
  /\ \E s \in NewestFirst(OpenRequests) : script' = SupersedeScript(s)

\* Bug: a request with a card is bridged as well.
AllBridgeable == {q \in OpenRequests : ~box[q].reply}

\* findLatestBridgeableHumanRequestEnvelope
Bridgeable == {q \in OpenRequests \ Cards : ~box[q].reply}

\* bridgeHumanReplyFromChat: what the user typed is the reply to the last of them.
Bridge ==
  \E q \in Bridgeable :
    /\ \A r \in Bridgeable : r <= q
    /\ script' = <<Do("reply", q), Do("ack", q)>>

Handle ==
  /\ script = <<>>
  /\ (\E q \in Questions : Ask(q) \/ Answer(q)) \/ Supersede \/ Bridge
  /\ UNCHANGED <<card, box, turnCopy, logCopy, wait, told, turns, woken, histories, orphaned,
                 lateWait, slips>>

\* The next statement of the handler.  closeQuestionMessage closes the first card of
\* the correlationId, if the log has one.
Carry ==
  /\ script # <<>> /\ script' = Tail(script)
  /\ LET q == Head(script).q
         what == Head(script).what
     IN /\ card' = [card EXCEPT ![q] =
             IF what \in Shown THEN "pending"
             ELSE IF what \in Closed /\ q \in Cards \ namesakes /\ @ # "lost" THEN what ELSE @]
        /\ box' = [box EXCEPT ![q] =
             CASE what = "request" -> [@ EXCEPT !.request = "new"]
               [] what = "requestOfType" -> [@ EXCEPT !.request = "otherType"]
               [] what = "reply" -> [@ EXCEPT !.reply = TRUE]
               [] what = "ack" -> [@ EXCEPT !.request = IF @ = "new" THEN "ack" ELSE @]
               [] OTHER -> @]
        /\ wait' = [wait EXCEPT ![q] = IF what = "cancel" /\ @ = "active" THEN "cancelled" ELSE @]
        /\ told' = IF what = "reply" THEN told \cup {q} ELSE told
        \* an emergency stop may refuse the turn
        /\ turns' \in IF what = "turn" THEN {turns, turns \cup {q}} ELSE {turns}
        /\ settled' = IF what \in Closed THEN settled \cup {q} ELSE settled
        /\ namesakes' = IF what = "namesake" THEN namesakes \cup {q} ELSE namesakes
        /\ orphaned' = IF what = "requestOfType" THEN orphaned \cup {q} ELSE orphaned
  /\ UNCHANGED <<turnCopy, logCopy, woken, reopened, lateWait, slips>>

-----------------------------------------------------------------------------
\* wait_for_reply
WaitForReply(q) ==
  /\ script = <<>> /\ wait[q] = "none" /\ (card[q] # "none" \/ box[q] # Empty)
  /\ wait' = [wait EXCEPT ![q] = "active"]
  /\ lateWait' = IF q \in settled THEN lateWait \cup {q} ELSE lateWait
  /\ UNCHANGED <<card, box, turnCopy, logCopy, told, script, turns, woken, histories, orphaned,
                 slips>>

\* triggerMailboxWatchJobs, once its module is there.
TellWatches(q) ==
  /\ script = <<>> /\ q \in told /\ told' = told \ {q}
  /\ wait' = [wait EXCEPT ![q] = IF @ = "active" THEN "triggered" ELSE @]
  /\ woken' = IF wait[q] = "active" THEN woken \cup {q} ELSE woken
  /\ UNCHANGED <<card, box, turnCopy, logCopy, script, turns, histories, orphaned, lateWait, slips>>

\* A turn reads the session's row, and awaits.
TurnReads ==
  /\ script = <<>> /\ turnCopy = NoCopy /\ slips < MaxSlips
  /\ turnCopy' = box
  /\ UNCHANGED <<card, box, logCopy, wait, told, script, turns, woken, histories, orphaned,
                 lateWait, slips>>

\* It writes the row back, and with it the mailbox as it was.
TurnSaves ==
  /\ script = <<>> /\ turnCopy # NoCopy
  /\ box' = turnCopy /\ turnCopy' = NoCopy
  /\ IF turnCopy = box THEN UNCHANGED slips ELSE Slip
  /\ orphaned' = orphaned \cup {q \in OpenRequests : turnCopy[q].request # "new"}
  /\ UNCHANGED <<card, logCopy, wait, told, script, turns, woken, histories, lateWait>>

\* A turn reads the log, and awaits its hooks.
TurnReadsLog ==
  /\ script = <<>> /\ logCopy = NoCopy /\ slips < MaxSlips
  /\ logCopy' = card
  /\ UNCHANGED <<card, box, turnCopy, wait, told, script, turns, woken, histories, orphaned,
                 lateWait, slips>>

\* replaceAllMessages: the log as it was; of what came since, only the messages of
\* the user are kept.
Rewritten(q) == IF logCopy[q] = "none" /\ card[q] # "none" THEN "lost" ELSE logCopy[q]

TurnWritesLog ==
  /\ script = <<>> /\ logCopy # NoCopy
  /\ card' = [q \in Questions |-> Rewritten(q)] /\ logCopy' = NoCopy
  /\ IF card' = card THEN UNCHANGED slips ELSE Slip
  /\ reopened' = reopened \cup {q \in settled : logCopy[q] = "pending"}
  /\ UNCHANGED <<box, turnCopy, wait, told, script, turns, woken, settled, namesakes, orphaned,
                 lateWait>>

\* A request is acked by the agent or a route, cleared, or expires.
RemoveByHand(q) ==
  /\ script = <<>> /\ q \in OpenRequests /\ Slip
  /\ \E request \in {"ack", "none"} : box' = [box EXCEPT ![q].request = request]
  /\ orphaned' = orphaned \cup {q}
  /\ UNCHANGED <<card, turnCopy, logCopy, wait, told, script, turns, woken, histories, lateWait>>

\* The process dies.
ServerDies ==
  /\ script # <<>> \/ told # {}
  /\ Slip
  /\ orphaned' = orphaned \cup {script[i].q : i \in {i \in DOMAIN script : script[i].what \in Requests}}
  /\ script' = <<>> /\ told' = {} /\ turnCopy' = NoCopy /\ logCopy' = NoCopy
  \* what was cut off counts as a wait that nobody ends
  /\ lateWait' = lateWait \cup {script[i].q : i \in DOMAIN script}
  /\ UNCHANGED <<card, box, wait, turns, woken, histories>>

QuestionsNext ==
  \/ Handle \/ Carry \/ TurnReads \/ TurnSaves \/ TurnReadsLog \/ TurnWritesLog \/ ServerDies
  \/ \E q \in Questions : WaitForReply(q) \/ TellWatches(q) \/ RemoveByHand(q)

QuestionsSpec == QuestionsInit /\ [][QuestionsNext]_questionVars

-----------------------------------------------------------------------------
QuestionsTypeOK ==
  /\ card \in Logs /\ \A q \in Questions \ Cards : card[q] = "none"
  /\ (logCopy = NoCopy \/ logCopy \in Logs)
  /\ box \in Boxes /\ (turnCopy = NoCopy \/ turnCopy \in Boxes)
  /\ wait \in [Questions -> {"none", "active", "cancelled", "triggered"}]
  /\ Len(script) <= 3 * Cardinality(Questions) + 2
  /\ UNION {told, turns, woken, settled, reopened, namesakes, orphaned, lateWait} \subseteq Questions
  /\ slips \in 0 .. MaxSlips

\* A card with live buttons can be answered: its request is open.  Except where the
\* request was removed by hand, expired, cut off by a crash, lost under a row that a
\* turn wrote back, or asked for with a type that answerHumanQuestion does not look
\* for; and except where a turn's copy of the log took an answered or superseded
\* card back to pending, or an older card of its correlationId is closed in its place.
CardIsAnswerable ==
  script = <<>> =>
    \A q \in Questions : card[q] = "pending" =>
      q \in OpenRequests \cup orphaned \cup reopened \cup namesakes

\* An answer resumes the agent once: the turn it starts is not joined by a wake
\* of the wait, unless the wait was made after the question was settled.
ResumedOnce == turns \cap woken \subseteq lateWait
=============================================================================
