---------------------------- MODULE InboundBridge ----------------------------
(***************************************************************************)
(* How a Pi session works off the messages of other peers, one at a time   *)
(* (createInboundPromptBridge of src/src/peers/inbound-bridge.mjs): a      *)
(* priority queue, one active entry that waits for the end of Pi's turn,   *)
(* a timeout, cancellation by the sender and shutdown.                     *)
(*                                                                         *)
(* Pi itself is external.  Prompts are handed to it as follow-ups, and one *)
(* agent_end ends the run that took up all prompts given to it before, as  *)
(* the cancellation test of peer-inbound-bridge.test.mjs has it.  `asked`  *)
(* is the set of messages whose prompt is in the current run.  A nudge     *)
(* only repeats the prompt of the active entry and is left out, as are the *)
(* texts of prompts, progress and handoffs.                                *)
(*                                                                         *)
(* A message is one call of handleEnvelope, with the promise it returns:   *)
(* an envelope that is delivered twice counts as two.                      *)
(***************************************************************************)
EXTENDS Naturals, Sequences, FiniteSets, SequencesExt

CONSTANTS
  Messages, NoMessage,
  Priority,          \* priorityRank of each message: 0 for P0, 1 for P1, 2 for P2
  MayFailToDeliver   \* may pi.sendMessage throw?

VARIABLES
  queue,       \* waiting messages
  active,      \* activeEntry
  timers,      \* entries whose timer is armed
  cancelling,  \* entries whose sender asked to cancel them
  answer,      \* the response each message was settled with, or "none"
  asked,       \* see above (external)
  arrivals     \* the messages accepted so far, in order (history)

vars == <<queue, active, timers, cancelling, answer, asked, arrivals>>

ASSUME BridgeConstants ==
  /\ NoMessage \notin Messages
  /\ Priority \in [Messages -> 0..2]
  /\ MayFailToDeliver \in BOOLEAN

Answers == {"none", "OK", "ERROR", "CANCELLED"}
Waiting == {queue[i] : i \in DOMAIN queue}
Settled == {m \in Messages : answer[m] # "none"}

Init ==
  /\ queue = <<>> /\ active = NoMessage
  /\ timers = {} /\ cancelling = {}
  /\ answer = [m \in Messages |-> "none"]
  /\ asked = {} /\ arrivals = <<>>

(* settleEntry: an entry is answered once. *)
SettleEntry(S, response) ==
  [m \in Messages |-> IF m \in S /\ answer[m] = "none" THEN response ELSE answer[m]]

(***************************************************************************)
(* activateNext, with nobody active: the first message of q that Pi takes  *)
(* becomes active; those before it, which Pi refused, are answered ERROR.  *)
(***************************************************************************)
ActivateNext(q, answers, armed, run) ==
  \E refused \in 0..Len(q) :
    /\ refused > 0 => MayFailToDeliver
    /\ answer' = [m \in Messages |-> IF \E i \in 1..refused : q[i] = m THEN "ERROR" ELSE answers[m]]
    /\ queue' = SubSeq(q, refused + 2, Len(q))
    /\ IF refused = Len(q)
       THEN active' = NoMessage /\ timers' = armed /\ asked' = run
       ELSE /\ active' = q[refused + 1]
            /\ timers' = armed \cup {active'}
            /\ asked' = run \cup {active'}

EnqueueBeforeEquals(m) ==      \* as if it were put before the first that is not more urgent
  LET i == SelectInSeq(queue, LAMBDA other : Priority[other] >= Priority[m]) IN
  IF i = 0 THEN Append(queue, m) ELSE InsertAt(queue, i, m)

(* enqueueEntry: before the first message of a lower priority. *)
EnqueueEntry(m) ==
  LET i == SelectInSeq(queue, LAMBDA other : Priority[other] > Priority[m]) IN
  IF i = 0 THEN Append(queue, m) ELSE InsertAt(queue, i, m)

HandleEnvelope(m) ==
  /\ ~Contains(arrivals, m)
  /\ arrivals' = Append(arrivals, m)
  /\ IF active = NoMessage
     THEN ActivateNext(EnqueueEntry(m), answer, timers, asked)
     ELSE queue' = EnqueueEntry(m) /\ UNCHANGED <<active, timers, answer, asked>>
  /\ UNCHANGED cancelling

CancelKeepsQueued(m) ==      \* as if a cancelled entry stayed in the queue
  /\ m \in (Waiting \cup {active}) \ {NoMessage} /\ m \notin cancelling
  /\ cancelling' = cancelling \cup {m}
  /\ \/ m = active /\ UNCHANGED answer
     \/ m \in Waiting /\ answer' = SettleEntry({m}, "CANCELLED")
  /\ UNCHANGED <<queue, active, timers, asked, arrivals>>

(***************************************************************************)
(* cancelEntry: a waiting entry is answered at once; the active one is     *)
(* only marked, and Pi is told to stop.  The call of activateNext in the    *)
(* first case changes nothing, as somebody is active while anybody waits.  *)
(***************************************************************************)
CancelEntry(m) ==
  /\ m \in (Waiting \cup {active}) \ {NoMessage} /\ m \notin cancelling
  /\ cancelling' = cancelling \cup {m}
  /\ \/ m = active /\ UNCHANGED <<queue, answer>>
     \/ /\ \E i \in DOMAIN queue : queue[i] = m /\ queue' = RemoveAt(queue, i)
        /\ answer' = SettleEntry({m}, "CANCELLED")
  /\ UNCHANGED <<active, timers, asked, arrivals>>

ActiveTimeoutOnly(m) ==      \* as if the timer forgot to activate the next entry
  /\ m \in timers
  /\ timers' = timers \ {m}
  /\ active = m /\ active' = NoMessage
  /\ answer' = SettleEntry({m}, "ERROR")
  /\ UNCHANGED <<queue, cancelling, asked, arrivals>>

(* The timer of startActiveTimer: Pi has not ended its turn in time. *)
ActiveTimeout(m) ==
  /\ m \in timers
  /\ IF active # m \/ m \in Settled
     THEN timers' = timers \ {m} /\ UNCHANGED <<queue, active, answer, asked>>
     ELSE ActivateNext(queue, SettleEntry({m}, "ERROR"), timers \ {m}, asked)
  /\ UNCHANGED <<cancelling, arrivals>>

(* As if the bridge, and not the entry, remembered that a cancellation was  *)
(* asked for, until a run ends.                                             *)
HandleAgentEndForAny(text) ==
  /\ IF active = NoMessage
     THEN asked' = {} /\ UNCHANGED <<queue, active, timers, answer>>
     ELSE ActivateNext(queue,
                       SettleEntry({active}, IF \E m \in cancelling : answer[m] # "CANCELLED" THEN "CANCELLED"
                                             ELSE IF text THEN "OK" ELSE "ERROR"),
                       timers \ {active}, {})
  /\ UNCHANGED <<cancelling, arrivals>>

(* handleAgentEnd: Pi's run ended, with a final assistant text or without. *)
HandleAgentEnd(text) ==
  /\ IF active = NoMessage
     THEN asked' = {} /\ UNCHANGED <<queue, active, timers, answer>>
     ELSE ActivateNext(queue,
                       SettleEntry({active}, IF active \in cancelling THEN "CANCELLED"
                                             ELSE IF text THEN "OK" ELSE "ERROR"),
                       timers \ {active}, {})
  /\ UNCHANGED <<cancelling, arrivals>>

(* dispose: the session shuts down; nothing is activated any more. *)
Dispose ==
  /\ answer' = SettleEntry(Waiting \cup {active}, "CANCELLED")
  /\ queue' = <<>> /\ active' = NoMessage
  /\ timers' = timers \ {active}
  /\ UNCHANGED <<cancelling, asked, arrivals>>

Next ==
  \/ \E m \in Messages : HandleEnvelope(m) \/ CancelEntry(m) \/ ActiveTimeout(m)
  \/ \E text \in BOOLEAN : HandleAgentEnd(text)
  \/ Dispose

Spec == Init /\ [][Next]_vars

(* A Node timer that is armed and not cleared fires; Pi owes us nothing. *)
FairSpec == Spec /\ WF_vars(\E m \in Messages : ActiveTimeout(m))

-----------------------------------------------------------------------------
(* Properties. *)

(* Every accepted message is in exactly one place: waiting once, active     *)
(* with an armed timer, or answered.  None is dropped by an activation that *)
(* fails, a cancellation or a timeout, and none waits while nobody is       *)
(* active.                                                                  *)
NothingIsDropped ==
  /\ queue # <<>> => active # NoMessage
  /\ timers = {active} \ {NoMessage}
  /\ \A i, j \in DOMAIN queue : queue[i] = queue[j] => i = j
  /\ \A m \in Messages :
       Contains(arrivals, m) <=> m \in Waiting \/ m = active \/ m \in Settled
  /\ Waiting \cap Settled = {} /\ active \notin Waiting \cup Settled

(* A message gets one answer.  A text counts as its answer only when its    *)
(* prompt is in the run that ends and its sender did not cancel it: a turn  *)
(* that outlives a timeout does not answer whoever is next.  It is answered *)
(* as cancelled only when its own sender cancelled it, be it while it       *)
(* waited or while it was active, or when the session shuts down.           *)
AnswersAreEarned ==
  [][\A m \in Messages :
       /\ m \in Settled => answer'[m] = answer[m]
       /\ m \notin Settled /\ answer'[m] = "OK" => m \in asked /\ m \notin cancelling
       /\ m \notin Settled /\ answer'[m] = "CANCELLED" => m \in cancelling' \/ Dispose]_vars

(* More urgent, or as urgent and here before.                               *)
Before(m, n) ==
  \/ Priority[m] < Priority[n]
  \/ /\ Priority[m] = Priority[n]
     /\ \E i, j \in DOMAIN arrivals : i < j /\ arrivals[i] = m /\ arrivals[j] = n

(* A message is begun only when none that waits is more urgent, or as       *)
(* urgent and came earlier, through all that timeouts, cancellations and    *)
(* refused deliveries take out of the queue.                                *)
TurnsGoInOrder ==
  [][active' # active /\ active' # NoMessage => \A m \in Waiting' : Before(active, m)']_vars

(* Every accepted message is answered, even if Pi never ends a turn.        *)
EveryMessageIsAnswered ==
  \A m \in Messages : Contains(arrivals, m) ~> m \in Settled
=============================================================================
