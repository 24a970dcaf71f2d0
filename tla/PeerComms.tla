------------------------------ MODULE PeerComms ------------------------------
(***************************************************************************)
(* The messages a session sends to its peers (createPeerComms of           *)
(* src/src/peers/comms.mjs) with their store (message-store.mjs), composed *)
(* with the transport and the bridge of the session that receives them:    *)
(* dispatch, retry with backoff, control frames, cancellation, persistence *)
(* and, after a restart, recovery and resumption.                          *)
(*                                                                         *)
(* Each attempt to deliver an outgoing message is a request of its own of  *)
(* LocalTransport.  The checks before a message exists (unknown peer, hop  *)
(* limit, capabilities) leave no state behind and are left out, as are     *)
(* events, audit and the copies of a status kept in conversations.  The    *)
(* registry is in memory, so that looking up a peer yields to no other     *)
(* handler.                                                                *)
(***************************************************************************)
EXTENDS LocalTransport

CONSTANTS
  Outgoing,      \* the messages of the session
  MessageOf,     \* of each request: the message it delivers
  MaxAttempts,   \* retryPolicy.maxAttempts of each message
  DeadLetter,    \* the messages whose retryPolicy has deadLetter
  MaxSent,       \* bound: messages sent
  MaxRestarts    \* bound: restarts of the sending session

VARIABLES
  status, response,   \* of each message; response is its body's status
  phase,      \* its dispatch: idle, sending, or waiting to retry
  carrier,    \* the request of its latest attempt
  attempts,   \* attempts of its dispatch
  cancelAsked,  \* messages the user cancelled at some time (history)
  saved,      \* the message in the store: [status, response]
  restarts

book  == <<status, response, phase, carrier, attempts, cancelAsked>>
commsVars == <<vars, wire, book, saved, restarts>>

ASSUME CommsConstants ==
  /\ MessageOf \in [Messages -> Outgoing]
  /\ MaxAttempts \in [Outgoing -> 1..10]
  /\ DeadLetter \subseteq Outgoing
  /\ MaxSent \in Nat /\ MaxRestarts \in Nat

ActiveStatuses   == {"queued", "running", "cancelling"}
TerminalStatuses == {"responded", "cancelled", "error", "dead-letter"}
MessageStatuses  == ActiveStatuses \cup TerminalStatuses \cup {"new", "disconnected", "forgotten"}

Unused(m)  == {c \in Messages : MessageOf[c] = m /\ sender[c] = "unused"}
Aborted(m) == carrier[m] \in signalled

CommsInit ==
  /\ TransportInit
  /\ status = [m \in Outgoing |-> "new"] /\ response = [m \in Outgoing |-> "none"]
  /\ phase = [m \in Outgoing |-> "idle"] /\ carrier = [m \in Outgoing |-> NoMessage]
  /\ attempts = [m \in Outgoing |-> 0] /\ cancelAsked = {}
  /\ saved = [m \in Outgoing |-> [status |-> "new", response |-> "none"]]
  /\ restarts = 0

(* The end of a dispatch. *)
Conclude(m, st, body) ==
  /\ status' = [status EXCEPT ![m] = st]
  /\ response' = [response EXCEPT ![m] = body]
  /\ phase' = [phase EXCEPT ![m] = "idle"]

(* One more attempt to deliver m. *)
Attempt(m) ==
  LET c == CHOOSE c \in Unused(m) : TRUE IN
  /\ Unused(m) # {}
  /\ OpenRequest(c)
  /\ carrier' = [carrier EXCEPT ![m] = c]
  /\ phase' = [phase EXCEPT ![m] = "sending"]
  /\ UNCHANGED vars

(* #dispatch up to its first await. *)
Dispatch(m) ==
  /\ Cardinality(Unused(m)) >= MaxAttempts[m]      \* bound
  /\ Attempt(m)
  /\ status' = [status EXCEPT ![m] = "running"]
  /\ attempts' = [attempts EXCEPT ![m] = 1]
  /\ UNCHANGED <<response, cancelAsked, saved, restarts>>

SendMessage(m) ==
  /\ status[m] = "new"
  /\ Cardinality({n \in Outgoing : status[n] # "new"}) < MaxSent      \* bound
  /\ Dispatch(m)

ResumeMessage(m) == status[m] = "disconnected" /\ Dispatch(m)

(* recordMessageEvent with #applyControlEventStatus: no status is exempt.  *)
ApplyControlEventStatus(frame) ==
  CASE frame = "request.queued"    -> "queued"
    [] frame = "request.active"    -> "running"
    [] frame = "request.cancelled" -> "cancelling"

RecordMessageEvent(c) ==
  /\ ReadControl(c)
  /\ status' = [status EXCEPT ![MessageOf[c]] = ApplyControlEventStatus(Head(toSender[c]))]
  /\ UNCHANGED <<response, phase, carrier, attempts, cancelAsked, saved, restarts>>

(* transport.send resolves. *)
Responded(c) ==
  LET m == MessageOf[c]  reply == Head(toSender[c]) IN
  /\ ReadReply(c)
  /\ Conclude(m, IF reply = "CANCELLED" THEN "cancelled" ELSE "responded", reply)
  /\ UNCHANGED <<carrier, attempts, cancelAsked, saved, restarts>>

RetryAnyway(m) ==      \* as if the backoff ignored the signal
  IF attempts[m] < MaxAttempts[m]
  THEN phase' = [phase EXCEPT ![m] = "waiting"] /\ UNCHANGED <<status, response>>
  ELSE Conclude(m, IF m \in DeadLetter THEN "dead-letter" ELSE "error", "ERROR")

RetryAsCancelled(m) ==      \* as if every backoff ended like an aborted one
  IF attempts[m] < MaxAttempts[m] THEN Conclude(m, "cancelled", "CANCELLED")
  ELSE Conclude(m, IF m \in DeadLetter THEN "dead-letter" ELSE "error", "ERROR")

(* transport.send rejects: retry after a backoff, unless the message was   *)
(* cancelled, or give up.                                                  *)
Retry(m) ==
  IF attempts[m] < MaxAttempts[m]
  THEN IF Aborted(m) THEN Conclude(m, "cancelled", "CANCELLED")
       ELSE phase' = [phase EXCEPT ![m] = "waiting"] /\ UNCHANGED <<status, response>>
  ELSE Conclude(m, IF m \in DeadLetter THEN "dead-letter" ELSE "error", "ERROR")

SendFails(c) ==
  /\ FailRequest(c)
  /\ Retry(MessageOf[c])
  /\ UNCHANGED <<carrier, attempts, cancelAsked, saved, restarts>>

BackoffEnds(m) ==
  /\ phase[m] = "waiting"
  /\ Attempt(m)
  /\ attempts' = [attempts EXCEPT ![m] = @ + 1]
  /\ UNCHANGED <<status, response, cancelAsked, saved, restarts>>

(***************************************************************************)
(* cancelMessage: a dispatch at work is told through its signal, one that  *)
(* waits ends at once, and a message without a dispatch is marked.         *)
(***************************************************************************)
CancelMessage(m) ==
  /\ status[m] \in ActiveStatuses \cup {"disconnected"}
  /\ cancelAsked' = cancelAsked \cup {m}
  /\ \/ /\ phase[m] = "sending"
        /\ status' = [status EXCEPT ![m] = "cancelling"]
        /\ IF Aborted(m) THEN UNCHANGED wire ELSE AbortRequest(carrier[m])
        /\ UNCHANGED <<response, phase>>
     \/ /\ phase[m] = "waiting"
        /\ AbortRequest(carrier[m])
        /\ Conclude(m, "cancelled", "CANCELLED")
     \/ /\ phase[m] = "idle"
        /\ Conclude(m, "cancelled", "CANCELLED")
        /\ UNCHANGED wire
  /\ UNCHANGED <<vars, carrier, attempts, saved, restarts>>

Current(m) == [status |-> status[m], response |-> response[m]]

(* newerSnapshot: a terminal snapshot beats one that is not.               *)
NewerSnapshot(old, new) ==
  IF old.status \in TerminalStatuses /\ new.status \notin TerminalStatuses THEN old ELSE new

(* A save of the store lands; earlier ones may have failed.                *)
SaveLands ==
  /\ saved' = [m \in Outgoing |-> NewerSnapshot(saved[m], Current(m))]
  /\ UNCHANGED <<vars, wire, book, restarts>>

HydrateAsStored(m) ==      \* as if active messages were taken over as they are
  IF saved[m].status = "new" /\ status[m] # "new" THEN "forgotten" ELSE saved[m].status

(* #hydratePersistedState. *)
Hydrate(m) ==
  IF saved[m].status \in ActiveStatuses THEN "disconnected"
  ELSE IF saved[m].status = "new" /\ status[m] # "new" THEN "forgotten"
  ELSE saved[m].status

(* The sending session is killed and comes back with what the store holds. *)
Restart ==
  /\ restarts < MaxRestarts /\ restarts' = restarts + 1
  /\ status' = [m \in Outgoing |-> Hydrate(m)]
  /\ response' = [m \in Outgoing |-> saved[m].response]
  /\ phase' = [m \in Outgoing |-> "idle"]
  /\ sender' = [c \in Messages |->
       IF sender[c] \in {"connecting", "open"} THEN "failed" ELSE sender[c]]
  /\ armed' = {} /\ toSender' = [c \in Messages |-> <<>>]
  /\ UNCHANGED <<vars, ends, toPeer, context, beating, carrier, attempts, cancelAsked, saved>>

(* A step of the transport that the sending session does not see. *)
Beside(step) == step /\ UNCHANGED <<book, saved, restarts>>

CommsNext ==
  \/ \E m \in Outgoing :
       SendMessage(m) \/ ResumeMessage(m) \/ BackoffEnds(m) \/ CancelMessage(m)
  \/ \E c \in Messages : RecordMessageEvent(c) \/ Responded(c) \/ SendFails(c)
  \/ Beside(\E c \in Messages : Connect(c))
  \/ Beside(Serve)
  \/ SaveLands \/ Restart

CommsSpec == CommsInit /\ [][CommsNext]_commsVars

(* Each of the two event loops gets on: timers fire, bytes that were       *)
(* written are read, and a reply that was sent drains.                     *)
FairCommsSpec ==
  /\ CommsSpec
  /\ WF_commsVars(\/ \E m \in Outgoing : BackoffEnds(m)
                 \/ \E c \in Messages : RecordMessageEvent(c) \/ Responded(c) \/ SendFails(c))
  /\ WF_commsVars(Beside(\E c \in Messages :
       ReadRequest(c) \/ ReadCancel(c) \/ Flush(c) \/ TurnTimesOut(c)))

-----------------------------------------------------------------------------
(* Properties. *)

(* The bridge behind the transport behaves as InboundBridge says, so that   *)
(* what is shown there holds for requests that come over sockets.           *)
UsesBridge == Spec

(* A message shown as active can be awaited: awaitMessage finds a response  *)
(* or a dispatch that will bring one, whatever frames come late, attempts   *)
(* fail or restarts intervene.                                              *)
ActiveMessagesAreAwaitable ==
  \A m \in Outgoing :
    status[m] \in ActiveStatuses => response[m] # "none" \/ phase[m] # "idle"

(* What the user is told is what happened: OK only if some turn of the peer *)
(* ended with a text for this very message and was not cancelled, and       *)
(* cancelled only if the user asked for it or the peer shut down.           *)
AnswersTellTheTruth ==
  \A m \in Outgoing :
    /\ response[m] = "OK" =>
         \E c \in Messages : MessageOf[c] = m /\ answer[c] = "OK" /\ c \notin cancelling
    /\ response[m] = "CANCELLED" => m \in cancelAsked \/ endpoint # "up"

(* Once a dispatch is cancelled, its retry policy starts no other attempt.  *)
NoRetryAfterCancel ==
  [][\A m \in Outgoing : phase[m] # "idle" /\ Aborted(m) => carrier'[m] = carrier[m]]_commsVars

(* An answer in the store is not lost again: a frame that comes late makes  *)
(* the message active in memory, but what a restart would recover stays.    *)
SavedAnswersStay ==
  [][\A m \in Outgoing :
       saved[m].status \in TerminalStatuses =>
         saved'[m].status \in TerminalStatuses /\ saved'[m].response # "none"]_commsVars

(* Every dispatch ends, however often the peer is busy, slow, cancelled,    *)
(* shut down or killed while the request is queued without a timer.         *)
EveryDispatchEnds == \A m \in Outgoing : phase[m] # "idle" ~> phase[m] = "idle"
=============================================================================
