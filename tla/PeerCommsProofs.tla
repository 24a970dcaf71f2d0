--------------------------- MODULE PeerCommsProofs ---------------------------
(***************************************************************************)
(* Theorems about PeerComms, for every set of messages and requests, every *)
(* retry policy and any number of restarts: the bridge behind the          *)
(* transport is InboundBridge, a message is awaitable while it is shown as *)
(* active, a cancelled dispatch is not retried, a saved answer stays, an   *)
(* orderly shutdown answers everyone, what the user is told is true.       *)
(*                                                                         *)
(* None of them is inductive.  The first part rests on who may be waiting  *)
(* for what: an open request is the latest attempt of a dispatch that is   *)
(* sending, so that ending it ends nobody else's wait, and frames that     *)
(* come after a reply find a message that has its response.  The second    *)
(* part is about the wire: contexts follow the entries of the bridge, each *)
(* reply on a connection is the answer of its entry, each cancellation has *)
(* a user behind it, and what is answered was written to whoever was there.*)
(***************************************************************************)
EXTENDS PeerComms, InboundBridgeProofs

Pending(c) == sender[c] \in {"connecting", "open"}

(* The variables the argument is about hold functions of the right kind.   *)
BookShape ==
  /\ status \in [Outgoing -> MessageStatuses]
  /\ response \in [Outgoing -> Answers]
  /\ phase \in [Outgoing -> {"idle", "sending", "waiting"}]
  /\ carrier \in [Outgoing -> Messages \cup {NoMessage}]
  /\ saved \in [Outgoing -> [status : MessageStatuses, response : Answers]]
  /\ sender \in [Messages -> {"unused", "connecting", "open", "ok", "failed"}]

OneRequestAtWork ==
  \A c \in Messages :
    Pending(c) => phase[MessageOf[c]] = "sending" /\ carrier[MessageOf[c]] = c

CarrierIsOwn ==
  \A m \in Outgoing :
    phase[m] # "idle" => carrier[m] \in Messages /\ MessageOf[carrier[m]] = m

NoDispatchYet == \A m \in Outgoing : status[m] \in {"new", "disconnected"} => phase[m] = "idle"

BackoffIsWanted == \A m \in Outgoing : phase[m] = "waiting" => ~Aborted(m)

LateFramesFindAnswers ==
  \A c \in Messages : sender[c] = "ok" /\ toSender[c] # <<>> => response[MessageOf[c]] # "none"

TerminalMeansAnswered ==
  \A m \in Outgoing :
    /\ status[m] \in TerminalStatuses => response[m] # "none"
    /\ saved[m].status \in TerminalStatuses => saved[m].response # "none"

DispatchInv == OneRequestAtWork /\ CarrierIsOwn /\ NoDispatchYet /\ BackoffIsWanted

AnswerInv == LateFramesFindAnswers /\ TerminalMeansAnswered /\ ActiveMessagesAreAwaitable

CommsInv == BookShape /\ DispatchInv /\ AnswerInv

-----------------------------------------------------------------------------
(* What the endpoint may do to the sending side: add to or cut what is on   *)
(* the wire, and never send anything to a request that is not open.         *)
LEMMA EndpointStep ==
  ASSUME Serve
  PROVE  /\ [Next]_vars
         /\ sender' = sender /\ signalled' = signalled
         /\ \A c \in Messages : sender[c] # "open" /\ toSender[c] = <<>> => toSender'[c] = <<>>
<1> DEFINE Quietly == /\ sender' = sender /\ signalled' = signalled
                      /\ \A c \in Messages :
                           sender[c] # "open" /\ toSender[c] = <<>> => toSender'[c] = <<>>
<1>1. Follow => Quietly
  BY DEF Follow, Writable
<1>2. UNCHANGED toSender /\ sender' = sender /\ signalled' = signalled => Quietly
  OBVIOUS
<1>3. ASSUME NEW how, Break(how) PROVE [Next]_vars /\ Quietly
  <2>1. BeforeReply(<<>>) = <<>>
    BY DEF BeforeReply, SelectInSeq
  <2>2. QED
    BY <1>3, <2>1 DEF Break
<1>4. ASSUME NEW c \in Messages, ReadRequest(c) PROVE [Next]_vars /\ Quietly
  BY <1>1, <1>4 DEF ReadRequest, Next
<1>5. ASSUME NEW c \in Messages, ReadCancel(c) PROVE [Next]_vars /\ Quietly
  <2>1. CASE CancelEntry(c) /\ Follow
    BY <1>1, <2>1 DEF Next
  <2>2. CASE UNCHANGED vars /\ sender' = sender /\ signalled' = signalled
             /\ toSender' = [toSender EXCEPT ![c] = IF Writable(c) THEN Append(@, "request.cancelled") ELSE @]
    BY <2>2 DEF Writable
  <2>3. CASE UNCHANGED <<vars, sender, signalled, toSender>>
    BY <2>3
  <2>4. QED
    BY <1>5, <2>1, <2>2, <2>3 DEF ReadCancel
<1>6. ASSUME NEW c \in Messages, TurnTimesOut(c) PROVE [Next]_vars /\ Quietly
  BY <1>1, <1>6 DEF TurnTimesOut, Next
<1>7. ASSUME NEW c \in Messages, Progress(c) \/ Flush(c) \/ IdleClose(c) PROVE [Next]_vars /\ Quietly
  BY <1>2, <1>7 DEF Progress, Flush, IdleClose, ends
<1>8. ASSUME NEW text \in BOOLEAN, TurnEnds(text) PROVE [Next]_vars /\ Quietly
  BY <1>1, <1>8 DEF TurnEnds, Next
<1>9. BeginShutdown => [Next]_vars /\ Quietly
  BY <1>1 DEF BeginShutdown, Next
<1>10. Stop \/ Crash => [Next]_vars /\ Quietly
  BY <1>3 DEF Stop, Crash
<1>11. QED
  BY <1>4, <1>5, <1>6, <1>7, <1>8, <1>9, <1>10 DEF Serve

(* Every step of the composition is a step of the bridge or leaves it alone. *)
LEMMA BridgeStep == [CommsNext]_commsVars => [Next]_vars
<1>1. ASSUME NEW m \in Outgoing,
             SendMessage(m) \/ ResumeMessage(m) \/ BackoffEnds(m) \/ CancelMessage(m)
      PROVE  UNCHANGED vars
  BY <1>1 DEF SendMessage, ResumeMessage, BackoffEnds, CancelMessage, Dispatch, Attempt
<1>2. ASSUME NEW c \in Messages,
             RecordMessageEvent(c) \/ Responded(c) \/ SendFails(c) \/ Connect(c)
      PROVE  UNCHANGED vars
  BY <1>2 DEF RecordMessageEvent, ReadControl, Responded, ReadReply, SendFails, FailRequest, Connect
<1>3. SaveLands \/ Restart \/ UNCHANGED commsVars => UNCHANGED vars
  BY DEF SaveLands, Restart, commsVars
<1>4. QED
  BY <1>1, <1>2, <1>3, EndpointStep DEF CommsNext, Beside

(* The bridge behind the transport behaves as InboundBridge says.           *)
THEOREM CommsUsesBridge == CommsSpec => UsesBridge
<1>1. CommsInit => Init
  BY DEF CommsInit, TransportInit
<1>2. QED
  BY <1>1, BridgeStep, PTL DEF CommsSpec, UsesBridge, Spec

(* So the promises of the bridge hold of messages that come over sockets    *)
(* which break, from senders that retry and restart: none is dropped, ...   *)
THEOREM CommsDropsNothing == CommsSpec => []NothingIsDropped
  BY CommsUsesBridge, NothingIsDroppedHolds, PTL DEF UsesBridge

(* ... each gets one answer, of the turn it was given for or of its own     *)
(* cancellation, and ...                                                    *)
THEOREM CommsAnswersAreEarned == CommsSpec => AnswersAreEarned
  BY CommsUsesBridge, AnswersAreEarnedHolds, PTL DEF UsesBridge

(* ... turns go by priority and arrival.                                    *)
THEOREM CommsTurnsGoInOrder == CommsSpec => TurnsGoInOrder
  BY CommsUsesBridge, TurnsGoInOrderHolds, PTL DEF UsesBridge

-----------------------------------------------------------------------------
(* Invariance of CommsInv, a lemma for each kind of step.                   *)

LEMMA InitiallyFine == CommsInit => CommsInv
<1> SUFFICES ASSUME CommsInit PROVE CommsInv
  OBVIOUS
<1>1. BookShape
  BY DEF CommsInit, TransportInit, BookShape, MessageStatuses, Answers
<1>2. DispatchInv
  BY CommsConstants DEF CommsInit, TransportInit, DispatchInv, OneRequestAtWork, CarrierIsOwn,
     NoDispatchYet, BackoffIsWanted, Pending
<1>3. AnswerInv
  BY DEF CommsInit, TransportInit, AnswerInv, LateFramesFindAnswers, TerminalMeansAnswered,
     ActiveMessagesAreAwaitable, TerminalStatuses, ActiveStatuses
<1>4. QED
  BY <1>1, <1>2, <1>3 DEF CommsInv

(* Steps that leave the book, the store and the sending side alone.         *)
LEMMA BesideKeeps ==
  ASSUME CommsInv, UNCHANGED <<status, response, phase, carrier, saved, signalled>>,
         \A c \in Messages : Pending(c)' => Pending(c),
         sender' \in [Messages -> {"unused", "connecting", "open", "ok", "failed"}],
         \A c \in Messages :
           sender'[c] = "ok" /\ toSender'[c] # <<>> => sender[c] = "ok" /\ toSender[c] # <<>>
  PROVE  CommsInv'
<1>1. BookShape'
  BY DEF CommsInv, BookShape
<1>2. DispatchInv'
  BY DEF CommsInv, DispatchInv, OneRequestAtWork, CarrierIsOwn, NoDispatchYet, BackoffIsWanted, Aborted
<1>3. AnswerInv'
  BY DEF CommsInv, AnswerInv, LateFramesFindAnswers, TerminalMeansAnswered, ActiveMessagesAreAwaitable
<1>4. QED
  BY <1>1, <1>2, <1>3 DEF CommsInv

(* An attempt to deliver a message that has no request at work.             *)
LEMMA AttemptKeeps ==
  ASSUME CommsInv, NEW m \in Outgoing, Attempt(m), phase[m] # "sending",
         UNCHANGED <<response, saved>>,
         UNCHANGED status \/ status' = [status EXCEPT ![m] = "running"],
         status'[m] \notin {"new", "disconnected"}
  PROVE  CommsInv'
<1>1. PICK c \in Messages :
        /\ MessageOf[c] = m /\ sender[c] = "unused"
        /\ sender' = [sender EXCEPT ![c] = "connecting"]
        /\ carrier' = [carrier EXCEPT ![m] = c]
        /\ phase' = [phase EXCEPT ![m] = "sending"]
        /\ UNCHANGED <<signalled, toSender>>
  BY DEF Attempt, Unused, OpenRequest, ends
<1> USE CommsConstants
<1>2. BookShape'
  BY <1>1 DEF CommsInv, BookShape, MessageStatuses, ActiveStatuses
<1>3. OneRequestAtWork'
  BY <1>1 DEF CommsInv, BookShape, DispatchInv, OneRequestAtWork, Pending
<1>4. CarrierIsOwn' /\ NoDispatchYet' /\ BackoffIsWanted'
  BY <1>1 DEF CommsInv, BookShape, DispatchInv, CarrierIsOwn, NoDispatchYet, BackoffIsWanted, Aborted
<1>5. AnswerInv'
  BY <1>1 DEF CommsInv, BookShape, AnswerInv, LateFramesFindAnswers, TerminalMeansAnswered,
     ActiveMessagesAreAwaitable, TerminalStatuses, ActiveStatuses
<1>6. QED
  BY <1>2, <1>3, <1>4, <1>5 DEF CommsInv, DispatchInv

(* The end of a dispatch whose request, if any, ends with it.               *)
LEMMA ConcludeKeeps ==
  ASSUME CommsInv, NEW m \in Outgoing, NEW st \in TerminalStatuses, NEW body \in Replies,
         Conclude(m, st, body),
         UNCHANGED <<carrier, saved>>,
         \A n \in Outgoing \ {m} : carrier[n] \in signalled' /\ phase[n] = "waiting" => carrier[n] \in signalled,
         sender' \in [Messages -> {"unused", "connecting", "open", "ok", "failed"}],
         \A c \in Messages : Pending(c)' => Pending(c) /\ MessageOf[c] # m,
         \A c \in Messages : MessageOf[c] # m /\ sender'[c] = "ok" /\ toSender'[c] # <<>>
                                => sender[c] = "ok" /\ toSender[c] # <<>>
  PROVE  CommsInv'
<1> USE CommsConstants
<1>1. BookShape'
  BY DEF CommsInv, BookShape, Conclude, MessageStatuses, Replies, Answers
<1>2. OneRequestAtWork'
  BY DEF CommsInv, BookShape, DispatchInv, OneRequestAtWork, Conclude, Pending
<1>3. CarrierIsOwn' /\ NoDispatchYet'
  BY DEF CommsInv, BookShape, DispatchInv, CarrierIsOwn, NoDispatchYet, Conclude, TerminalStatuses
<1>4. BackoffIsWanted'
  BY DEF CommsInv, BookShape, DispatchInv, BackoffIsWanted, Aborted, Conclude
<1>5. LateFramesFindAnswers'
  BY DEF CommsInv, BookShape, AnswerInv, LateFramesFindAnswers, Conclude, Replies
<1>6. TerminalMeansAnswered' /\ ActiveMessagesAreAwaitable'
  BY DEF CommsInv, BookShape, AnswerInv, TerminalMeansAnswered, ActiveMessagesAreAwaitable, Conclude, Replies
<1>7. QED
  BY <1>1, <1>2, <1>3, <1>4, <1>5, <1>6 DEF CommsInv, DispatchInv, AnswerInv

(* transport.send rejects: the dispatch ends or waits for its next attempt. *)
LEMMA SendFailsKeeps ==
  ASSUME CommsInv, NEW c \in Messages, SendFails(c) PROVE CommsInv'
<1> DEFINE m == MessageOf[c]
<1> USE CommsConstants
<1>1. m \in Outgoing
  OBVIOUS
<1>2. /\ Pending(c) /\ sender' = [sender EXCEPT ![c] = "failed"]
      /\ toSender' = [toSender EXCEPT ![c] = <<>>]
      /\ UNCHANGED <<signalled, carrier, saved>>
  BY DEF SendFails, FailRequest, ConnectFails, PeerClosed, TimeoutFires, Pending, ends
<1>3. /\ sender' \in [Messages -> {"unused", "connecting", "open", "ok", "failed"}]
      /\ \A d \in Messages : Pending(d)' => Pending(d) /\ MessageOf[d] # m
      /\ \A d \in Messages : sender'[d] = "ok" /\ toSender'[d] # <<>>
                                => sender[d] = "ok" /\ toSender[d] # <<>>
  <2>1. sender' \in [Messages -> {"unused", "connecting", "open", "ok", "failed"}]
    BY <1>2 DEF CommsInv, BookShape
  <2>2. ASSUME NEW d \in Messages, Pending(d)' PROVE Pending(d) /\ MessageOf[d] # m
    BY <1>2, <2>2 DEF CommsInv, BookShape, DispatchInv, OneRequestAtWork, Pending
  <2>3. ASSUME NEW d \in Messages, sender'[d] = "ok", toSender'[d] # <<>>
        PROVE  sender[d] = "ok" /\ toSender[d] # <<>>
    BY <1>2, <2>3 DEF CommsInv, BookShape
  <2>4. QED
    BY <2>1, <2>2, <2>3
<1>4. ASSUME NEW st \in TerminalStatuses, NEW body \in Replies, Conclude(m, st, body) PROVE CommsInv'
  BY <1>1, <1>2, <1>3, <1>4, ConcludeKeeps
<1>5. ASSUME ~Aborted(m), phase' = [phase EXCEPT ![m] = "waiting"], UNCHANGED <<status, response>>
      PROVE  CommsInv'
  <2>0. phase[m] = "sending" /\ carrier[m] = c
    BY <1>2 DEF CommsInv, DispatchInv, OneRequestAtWork
  <2>1. BookShape'
    BY <1>2, <1>3, <1>5 DEF CommsInv, BookShape
  <2>2. OneRequestAtWork'
    BY <1>2, <1>3, <1>5 DEF CommsInv, BookShape, DispatchInv, OneRequestAtWork
  <2>3. CarrierIsOwn' /\ NoDispatchYet'
    BY <1>2, <1>5, <2>0 DEF CommsInv, BookShape, DispatchInv, CarrierIsOwn, NoDispatchYet
  <2>4. BackoffIsWanted'
    BY <1>2, <1>5 DEF CommsInv, BookShape, DispatchInv, BackoffIsWanted, Aborted
  <2>5. AnswerInv'
    BY <1>2, <1>3, <1>5 DEF CommsInv, BookShape, AnswerInv, LateFramesFindAnswers,
       TerminalMeansAnswered, ActiveMessagesAreAwaitable
  <2>6. QED
    BY <2>1, <2>2, <2>3, <2>4, <2>5 DEF CommsInv, DispatchInv
<1>6. Retry(m)
  BY DEF SendFails
<1>7. QED
  BY <1>4, <1>5, <1>6 DEF Retry, TerminalStatuses, Replies, Answers

(* transport.send resolves. *)
LEMMA RespondedKeeps ==
  ASSUME CommsInv, NEW c \in Messages, Responded(c) PROVE CommsInv'
<1> DEFINE m == MessageOf[c]
           reply == Head(toSender[c])
<1> USE CommsConstants
<1>1. m \in Outgoing /\ reply \in Replies /\ Pending(c)
  BY DEF Responded, ReadReply, Pending
<1>2. /\ sender' = [sender EXCEPT ![c] = "ok"]
      /\ \E rest : toSender' = [toSender EXCEPT ![c] = rest]
      /\ UNCHANGED <<signalled, carrier, saved>>
      /\ Conclude(m, IF reply = "CANCELLED" THEN "cancelled" ELSE "responded", reply)
  BY DEF Responded, ReadReply, ends
<1>3. sender' \in [Messages -> {"unused", "connecting", "open", "ok", "failed"}]
  BY <1>2 DEF CommsInv, BookShape
<1>4. ASSUME NEW d \in Messages, Pending(d)' PROVE Pending(d) /\ MessageOf[d] # m
  BY <1>1, <1>2, <1>4 DEF CommsInv, BookShape, DispatchInv, OneRequestAtWork, Pending
<1>5. ASSUME NEW d \in Messages, MessageOf[d] # m, sender'[d] = "ok", toSender'[d] # <<>>
      PROVE  sender[d] = "ok" /\ toSender[d] # <<>>
  BY <1>2, <1>5 DEF CommsInv, BookShape
<1>6. (IF reply = "CANCELLED" THEN "cancelled" ELSE "responded") \in TerminalStatuses
  BY DEF TerminalStatuses
<1>7. QED
  BY <1>1, <1>2, <1>3, <1>4, <1>5, <1>6, ConcludeKeeps

(* A frame that comes after the reply finds the response there.             *)
LEMMA RecordKeeps ==
  ASSUME CommsInv, NEW c \in Messages, RecordMessageEvent(c) PROVE CommsInv'
<1> DEFINE m == MessageOf[c]
<1> USE CommsConstants
<1>1. /\ m \in Outgoing
      /\ sender[c] \in {"open", "ok"} /\ toSender[c] # <<>>
      /\ \E frames : toSender' = [toSender EXCEPT ![c] = frames]
      /\ UNCHANGED <<sender, signalled, response, phase, carrier, saved>>
      /\ Head(toSender[c]) \in Controls
      /\ status' = [status EXCEPT ![m] = ApplyControlEventStatus(Head(toSender[c]))]
  BY DEF RecordMessageEvent, ReadControl, ends
<1>2. ApplyControlEventStatus(Head(toSender[c])) \in ActiveStatuses
  BY <1>1 DEF ApplyControlEventStatus, Controls, ActiveStatuses
<1>3. response[m] # "none" \/ phase[m] # "idle"
  BY <1>1 DEF CommsInv, DispatchInv, AnswerInv, OneRequestAtWork, LateFramesFindAnswers, Pending
<1>4. BookShape'
  BY <1>1, <1>2 DEF CommsInv, BookShape, MessageStatuses
<1>5. DispatchInv'
  BY <1>1, <1>2 DEF CommsInv, BookShape, DispatchInv, OneRequestAtWork, CarrierIsOwn, NoDispatchYet,
     BackoffIsWanted, Aborted, Pending, ActiveStatuses
<1>6. LateFramesFindAnswers'
  BY <1>1 DEF CommsInv, BookShape, AnswerInv, LateFramesFindAnswers
<1>7. TerminalMeansAnswered' /\ ActiveMessagesAreAwaitable'
  BY <1>1, <1>2, <1>3 DEF CommsInv, BookShape, AnswerInv, TerminalMeansAnswered,
     ActiveMessagesAreAwaitable, ActiveStatuses, TerminalStatuses
<1>8. QED
  BY <1>4, <1>5, <1>6, <1>7 DEF CommsInv, AnswerInv

(* A cancellation aborts the signal of its own dispatch only.               *)
LEMMA CancelKeeps ==
  ASSUME CommsInv, NEW m \in Outgoing, CancelMessage(m) PROVE CommsInv'
<1> USE CommsConstants
<1>1. /\ UNCHANGED <<sender, toSender, carrier, saved>>
      /\ signalled' \in {signalled, signalled \cup {carrier[m]}}
      /\ phase[m] = "idle" => signalled' = signalled
  BY DEF CancelMessage, AbortRequest, wire
<1>2. \A n \in Outgoing \ {m} : phase[n] = "waiting" /\ carrier[n] \in signalled' => carrier[n] \in signalled
  BY <1>1 DEF CommsInv, BookShape, DispatchInv, CarrierIsOwn
<1>3. CASE phase[m] = "sending"
  <2>1. status' = [status EXCEPT ![m] = "cancelling"] /\ UNCHANGED <<response, phase>>
    BY <1>3 DEF CancelMessage
  <2>2. BookShape'
    BY <1>1, <2>1 DEF CommsInv, BookShape, MessageStatuses, ActiveStatuses
  <2>3. DispatchInv'
    BY <1>1, <1>2, <1>3, <2>1 DEF CommsInv, BookShape, DispatchInv, OneRequestAtWork, CarrierIsOwn,
       NoDispatchYet, BackoffIsWanted, Aborted, Pending
  <2>4. AnswerInv'
    BY <1>1, <1>3, <2>1 DEF CommsInv, BookShape, AnswerInv, LateFramesFindAnswers,
       TerminalMeansAnswered, ActiveMessagesAreAwaitable, ActiveStatuses, TerminalStatuses
  <2>5. QED
    BY <2>2, <2>3, <2>4 DEF CommsInv
<1>4. CASE phase[m] # "sending"
  <2>1. Conclude(m, "cancelled", "CANCELLED")
    BY <1>4 DEF CancelMessage
  <2>2. \A c \in Messages : Pending(c)' => Pending(c) /\ MessageOf[c] # m
    BY <1>1, <1>4 DEF CommsInv, DispatchInv, OneRequestAtWork, Pending
  <2>3. sender' \in [Messages -> {"unused", "connecting", "open", "ok", "failed"}]
    BY <1>1 DEF CommsInv, BookShape
  <2>4. "cancelled" \in TerminalStatuses /\ "CANCELLED" \in Replies
    BY DEF TerminalStatuses, Replies, Answers
  <2>5. QED
    BY <1>1, <1>2, <2>1, <2>2, <2>3, <2>4, ConcludeKeeps
<1>5. QED
  BY <1>3, <1>4

LEMMA SaveKeeps ==
  ASSUME CommsInv, SaveLands PROVE CommsInv'
<1>1. /\ UNCHANGED <<sender, toSender, signalled, status, response, phase, carrier>>
      /\ saved' = [m \in Outgoing |-> NewerSnapshot(saved[m], Current(m))]
  BY DEF SaveLands, wire, book
<1>2. \A m \in Outgoing : saved'[m] \in {saved[m], Current(m)}
  BY <1>1 DEF NewerSnapshot
<1>3. BookShape'
  BY <1>1, <1>2 DEF CommsInv, BookShape, Current
<1>4. DispatchInv'
  BY <1>1 DEF CommsInv, DispatchInv, OneRequestAtWork, CarrierIsOwn, NoDispatchYet,
     BackoffIsWanted, Aborted, Pending
<1>5. AnswerInv'
  BY <1>1, <1>2 DEF CommsInv, BookShape, AnswerInv, LateFramesFindAnswers, TerminalMeansAnswered,
     ActiveMessagesAreAwaitable, Current
<1>6. QED
  BY <1>3, <1>4, <1>5 DEF CommsInv

LEMMA RestartKeeps ==
  ASSUME CommsInv, Restart PROVE CommsInv'
<1>1. /\ status' = [m \in Outgoing |-> Hydrate(m)]
      /\ response' = [m \in Outgoing |-> saved[m].response]
      /\ phase' = [m \in Outgoing |-> "idle"]
      /\ sender' = [c \in Messages |->
           IF sender[c] \in {"connecting", "open"} THEN "failed" ELSE sender[c]]
      /\ toSender' = [c \in Messages |-> <<>>]
      /\ UNCHANGED <<carrier, saved>>
  BY DEF Restart
<1>2. \A m \in Outgoing :
        /\ Hydrate(m) \in MessageStatuses \ ActiveStatuses
        /\ Hydrate(m) \in TerminalStatuses => saved[m].status \in TerminalStatuses
  BY DEF CommsInv, BookShape, Hydrate, MessageStatuses, ActiveStatuses, TerminalStatuses
<1>3. BookShape'
  BY <1>1, <1>2 DEF CommsInv, BookShape
<1>4. DispatchInv'
  BY <1>1 DEF DispatchInv, OneRequestAtWork, CarrierIsOwn, NoDispatchYet, BackoffIsWanted, Pending
<1>5. AnswerInv'
  BY <1>1, <1>2 DEF CommsInv, AnswerInv, LateFramesFindAnswers, TerminalMeansAnswered,
     ActiveMessagesAreAwaitable
<1>6. QED
  BY <1>3, <1>4, <1>5 DEF CommsInv

LEMMA CommsInvStep ==
  ASSUME CommsInv, [CommsNext]_commsVars PROVE CommsInv'
<1>1. ASSUME NEW m \in Outgoing, SendMessage(m) \/ ResumeMessage(m) PROVE CommsInv'
  <2>1. Attempt(m) /\ status' = [status EXCEPT ![m] = "running"] /\ UNCHANGED <<response, saved>>
    BY <1>1 DEF SendMessage, ResumeMessage, Dispatch
  <2>2. phase[m] = "idle"
    BY <1>1 DEF SendMessage, ResumeMessage, CommsInv, DispatchInv, NoDispatchYet
  <2>3. status'[m] = "running"
    BY <2>1 DEF CommsInv, BookShape
  <2>4. QED
    BY <2>1, <2>2, <2>3, AttemptKeeps
<1>2. ASSUME NEW m \in Outgoing, BackoffEnds(m) PROVE CommsInv'
  <2>1. Attempt(m) /\ phase[m] = "waiting" /\ UNCHANGED <<status, response, saved>>
    BY <1>2 DEF BackoffEnds
  <2>2. status[m] \notin {"new", "disconnected"}
    BY <2>1 DEF CommsInv, DispatchInv, NoDispatchYet
  <2>3. QED
    BY <2>1, <2>2, AttemptKeeps
<1>3. ASSUME NEW m \in Outgoing, CancelMessage(m) PROVE CommsInv'
  BY <1>3, CancelKeeps
<1>4. ASSUME NEW c \in Messages, RecordMessageEvent(c) \/ Responded(c) \/ SendFails(c) PROVE CommsInv'
  BY <1>4, RecordKeeps, RespondedKeeps, SendFailsKeeps
<1>5. ASSUME NEW c \in Messages, Connect(c), UNCHANGED <<book, saved>> PROVE CommsInv'
  <2>1. /\ sender[c] = "connecting" /\ sender' = [sender EXCEPT ![c] = "open"]
        /\ UNCHANGED <<signalled, toSender>>
    BY <1>5 DEF Connect, ends
  <2>2. QED
    BY <1>5, <2>1, BesideKeeps DEF book, CommsInv, BookShape, Pending
<1>6. CASE Beside(Serve)
  <2>1. UNCHANGED <<status, response, phase, carrier, saved, signalled, sender>>
    BY <1>6, EndpointStep DEF Beside, book
  <2>2. \A c \in Messages :
          sender'[c] = "ok" /\ toSender'[c] # <<>> => sender[c] = "ok" /\ toSender[c] # <<>>
    BY <1>6, <2>1, EndpointStep DEF Beside
  <2>3. sender' \in [Messages -> {"unused", "connecting", "open", "ok", "failed"}]
    BY <2>1 DEF CommsInv, BookShape
  <2>4. QED
    BY <2>1, <2>2, <2>3, BesideKeeps DEF Pending
<1>7. CASE SaveLands
  BY <1>7, SaveKeeps
<1>8. CASE Restart
  BY <1>8, RestartKeeps
<1>9. CASE UNCHANGED commsVars
  BY <1>9, BesideKeeps DEF commsVars, book, wire, CommsInv, BookShape, Pending
<1>10. QED
  BY <1>1, <1>2, <1>3, <1>4, <1>5, <1>6, <1>7, <1>8, <1>9 DEF CommsNext, Beside

LEMMA CommsInvHolds == CommsSpec => []CommsInv
<1>1. QED
  BY InitiallyFine, CommsInvStep, PTL DEF CommsSpec

-----------------------------------------------------------------------------
(* A message shown as active has a response or a dispatch that will bring   *)
(* one, whatever frames come late (awaitMessage).                           *)
THEOREM ActiveMessagesHold == CommsSpec => []ActiveMessagesAreAwaitable
<1>1. CommsInv => ActiveMessagesAreAwaitable
  BY DEF CommsInv, AnswerInv
<1>2. QED
  BY <1>1, CommsInvHolds, PTL

(* A cancelled dispatch starts no other attempt (#dispatch,                 *)
(* sleepDuringRetryBackoff).                                                *)
THEOREM NoRetryAfterCancelHolds == CommsSpec => NoRetryAfterCancel
<1>1. ASSUME CommsInv, [CommsNext]_commsVars,
             NEW m \in Outgoing, phase[m] # "idle", Aborted(m)
      PROVE  carrier'[m] = carrier[m]
  <2>1. ASSUME NEW n \in Outgoing, SendMessage(n) \/ ResumeMessage(n) \/ BackoffEnds(n)
        PROVE  carrier'[m] = carrier[m]
    <3>1. n # m
      BY <1>1, <2>1 DEF CommsInv, DispatchInv, NoDispatchYet, BackoffIsWanted, SendMessage,
         ResumeMessage, BackoffEnds
    <3>2. \E c : carrier' = [carrier EXCEPT ![n] = c]
      BY <2>1 DEF SendMessage, ResumeMessage, BackoffEnds, Dispatch, Attempt
    <3>3. QED
      BY <1>1, <3>1, <3>2 DEF CommsInv, BookShape
  <2>2. ASSUME NEW n \in Outgoing, CancelMessage(n) PROVE carrier' = carrier
    BY <2>2 DEF CancelMessage
  <2>3. ASSUME NEW c \in Messages, RecordMessageEvent(c) \/ Responded(c) \/ SendFails(c)
        PROVE  carrier' = carrier
    BY <2>3 DEF RecordMessageEvent, Responded, SendFails
  <2>4. Beside(\E c \in Messages : Connect(c)) \/ Beside(Serve) \/ SaveLands \/ Restart
          \/ UNCHANGED commsVars => carrier' = carrier
    BY DEF Beside, SaveLands, Restart, book, commsVars
  <2>5. QED
    BY <1>1, <2>1, <2>2, <2>3, <2>4 DEF CommsNext
<1>2. CommsInv /\ [CommsNext]_commsVars =>
        [\A m \in Outgoing : phase[m] # "idle" /\ Aborted(m) => carrier'[m] = carrier[m]]_commsVars
  BY <1>1
<1>3. QED
  BY <1>2, CommsInvHolds, PTL DEF CommsSpec, NoRetryAfterCancel

(* What a restart would recover of an answer that was saved stays an answer *)
(* (newerSnapshot of message-store.mjs).                                    *)
THEOREM SavedAnswersHold == CommsSpec => SavedAnswersStay
<1>1. ASSUME CommsInv, [CommsNext]_commsVars,
             NEW m \in Outgoing, saved[m].status \in TerminalStatuses
      PROVE  saved'[m].status \in TerminalStatuses /\ saved'[m].response # "none"
  <2>1. CommsInv'
    BY <1>1, CommsInvStep
  <2>2. CASE SaveLands
    BY <1>1, <2>2 DEF SaveLands, NewerSnapshot, CommsInv, AnswerInv, TerminalMeansAnswered, Current
  <2>3. CASE ~SaveLands
    <3>1. ASSUME NEW n \in Outgoing,
                 SendMessage(n) \/ ResumeMessage(n) \/ BackoffEnds(n) \/ CancelMessage(n)
          PROVE  saved' = saved
      BY <3>1 DEF SendMessage, ResumeMessage, BackoffEnds, CancelMessage, Dispatch
    <3>2. ASSUME NEW c \in Messages, RecordMessageEvent(c) \/ Responded(c) \/ SendFails(c)
          PROVE  saved' = saved
      BY <3>2 DEF RecordMessageEvent, Responded, SendFails
    <3>3. Beside(\E c \in Messages : Connect(c)) \/ Beside(Serve) \/ Restart
            \/ UNCHANGED commsVars => saved' = saved
      BY DEF Beside, Restart, commsVars
    <3>4. saved' = saved
      BY <1>1, <2>3, <3>1, <3>2, <3>3 DEF CommsNext
    <3>5. QED
      BY <1>1, <3>4 DEF CommsInv, AnswerInv, TerminalMeansAnswered
  <2>4. QED
    BY <2>2, <2>3
<1>2. CommsInv /\ [CommsNext]_commsVars =>
        [\A m \in Outgoing :
           saved[m].status \in TerminalStatuses =>
             saved'[m].status \in TerminalStatuses /\ saved'[m].response # "none"]_commsVars
  BY <1>1
<1>3. QED
  BY <1>2, CommsInvHolds, PTL DEF CommsSpec, SavedAnswersStay

-----------------------------------------------------------------------------
(* What is on the wire.                                                     *)

Frames == Controls \cup Replies \cup {"message.send", "request.cancel"}

HasReply(c) == \E f \in Replies : f \in Elements(toSender[c])

LEMMA JoinedFrames ==
  ASSUME NEW S, NEW p \in Seq(S), NEW q \in Seq(S)
  PROVE  p \o q \in Seq(S) /\ Elements(p \o q) = Elements(p) \cup Elements(q)
<1>1. PICK x \in Nat, y \in Nat : x = Len(p) /\ y = Len(q) /\ DOMAIN p = 1 .. x /\ DOMAIN q = 1 .. y
  BY LenProperties
<1>2. PICK r : r = p \o q
  OBVIOUS
<1>3. r \in Seq(S) /\ Len(r) = x + y /\ \A i \in 1 .. x + y : r[i] = IF i <= x THEN p[i] ELSE q[i - x]
  BY <1>1, <1>2, ConcatProperties
<1>4. DOMAIN r = 1 .. x + y
  BY <1>3, LenProperties
<1>5. ASSUME NEW i \in 1 .. x + y PROVE r[i] \in Elements(p) \cup Elements(q)
  <2>1. CASE i <= x
    BY <1>1, <1>3, <2>1 DEF Elements
  <2>2. CASE i > x
    <3>1. i - x \in 1 .. y /\ r[i] = q[i - x]
      BY <1>3, <2>2
    <3>2. QED
      BY <1>1, <3>1 DEF Elements
  <2>3. QED
    BY <2>1, <2>2
<1>6. ASSUME NEW i \in 1 .. x PROVE i \in 1 .. x + y /\ r[i] = p[i]
  BY <1>3
<1>7. ASSUME NEW i \in 1 .. y PROVE i + x \in 1 .. x + y /\ r[i + x] = q[i]
  <2>1. i + x \in 1 .. x + y /\ ~(i + x <= x) /\ (i + x) - x = i
    OBVIOUS
  <2>2. QED
    BY <1>3, <2>1
<1>8. Elements(r) \subseteq Elements(p) \cup Elements(q)
  <2>1. ASSUME NEW z \in Elements(r) PROVE z \in Elements(p) \cup Elements(q)
    <3>1. PICK i \in 1 .. x + y : z = r[i]
      BY <1>4 DEF Elements
    <3>2. QED
      BY <1>5, <3>1
  <2>2. QED
    BY <2>1
<1>9. \A i \in 1 .. x + y : r[i] \in Elements(r)
  BY <1>4 DEF Elements
<1>10. Elements(p) \subseteq Elements(r)
  <2>1. ASSUME NEW z \in Elements(p) PROVE z \in Elements(r)
    <3>1. PICK i \in 1 .. x : z = p[i]
      BY <1>1 DEF Elements
    <3>2. QED
      BY <1>6, <1>9, <3>1
  <2>2. QED
    BY <2>1
<1>11. Elements(q) \subseteq Elements(r)
  <2>1. ASSUME NEW z \in Elements(q) PROVE z \in Elements(r)
    <3>1. PICK i \in 1 .. y : z = q[i]
      BY <1>1 DEF Elements
    <3>2. QED
      BY <1>7, <1>9, <3>1
  <2>2. QED
    BY <2>1
<1>12. QED
  BY <1>2, <1>3, <1>8, <1>10, <1>11

LEMMA RestOfFrames ==
  ASSUME NEW S, NEW q \in Seq(S), q # <<>>
  PROVE  /\ Tail(q) \in Seq(S) /\ Head(q) \in Elements(q)
         /\ Elements(q) = {Head(q)} \cup Elements(Tail(q))
<1>1. PICK n \in Nat : n = Len(q) /\ DOMAIN q = 1 .. n /\ n # 0
  BY LenProperties, EmptySeq
<1>2. PICK t : t = Tail(q)
  OBVIOUS
<1>3. t \in Seq(S) /\ Len(t) = n - 1 /\ (\A i \in 1 .. n - 1 : t[i] = q[i + 1]) /\ Head(q) = q[1]
  BY <1>1, <1>2, HeadTailProperties
<1>4. DOMAIN t = 1 .. n - 1
  BY <1>3, LenProperties
<1>5. \A i \in 1 .. n : i = 1 \/ (i - 1 \in 1 .. n - 1 /\ (i - 1) + 1 = i)
  BY <1>1
<1>6. \A i \in 1 .. n - 1 : i + 1 \in 1 .. n
  BY <1>1
<1>7. 1 \in 1 .. n
  BY <1>1
<1>8. ASSUME NEW z \in Elements(q) PROVE z \in {Head(q)} \cup Elements(t)
  <2>1. PICK i \in 1 .. n : z = q[i]
    BY <1>1 DEF Elements
  <2>2. i # 1 => z = t[i - 1] /\ i - 1 \in DOMAIN t
    BY <1>3, <1>4, <1>5, <2>1
  <2>3. QED
    BY <1>3, <2>1, <2>2 DEF Elements
<1>9. Head(q) \in Elements(q)
  BY <1>1, <1>3, <1>7 DEF Elements
<1>10. ASSUME NEW z \in Elements(t) PROVE z \in Elements(q)
  <2>1. PICK i \in 1 .. n - 1 : z = t[i]
    BY <1>4 DEF Elements
  <2>2. z = q[i + 1] /\ i + 1 \in DOMAIN q
    BY <1>1, <1>3, <1>6, <2>1
  <2>3. QED
    BY <2>2 DEF Elements
<1>11. QED
  BY <1>2, <1>3, <1>8, <1>9, <1>10

LEMMA FramesBeforeReply ==
  ASSUME NEW S, NEW q \in Seq(S)
  PROVE  BeforeReply(q) \in Seq(S) /\ Elements(BeforeReply(q)) \subseteq Elements(q)
<1> DEFINE I == {k \in 1 .. Len(q) : q[k] \in Replies}
           i == SelectInSeq(q, LAMBDA f : f \in Replies)
<1>1. i = IF I # {} THEN Min(I) ELSE 0
  BY DEF SelectInSeq
<1>2. BeforeReply(q) = IF i = 0 THEN q ELSE SubSeq(q, 1, i - 1)
  BY DEF BeforeReply
<1>3. PICK n \in Nat : n = Len(q) /\ DOMAIN q = 1 .. n
  BY LenProperties
<1>4. CASE I = {}
  BY <1>1, <1>2, <1>4
<1>5. CASE I # {}
  <2>1. i \in 1 .. n
    <3>1. I \in SUBSET Nat /\ \A k \in I : k \in 1 .. n
      BY <1>3
    <3>2. Min(I) \in I
      BY <1>5, <3>1, LeastPosition
    <3>3. QED
      BY <1>1, <1>5, <3>1, <3>2
  <2> HIDE DEF i, I
  <2>2. PICK t : t = SubSeq(q, 1, i - 1)
    OBVIOUS
  <2>3. i - 1 \in Nat /\ 1 <= (i - 1) + 1 /\ i - 1 <= n /\ (i - 1) - 1 + 1 = i - 1
    BY <2>1
  <2>4. /\ SubSeq(q, 1, i - 1) \in Seq(S) /\ Len(SubSeq(q, 1, i - 1)) = (i - 1) - 1 + 1
        /\ \A j \in 1 .. (i - 1) - 1 + 1 : SubSeq(q, 1, i - 1)[j] = q[1 + j - 1]
    BY <1>3, <2>3, Part
  <2>5. t \in Seq(S) /\ Len(t) = i - 1 /\ \A j \in 1 .. i - 1 : t[j] = q[1 + j - 1]
    BY <2>2, <2>3, <2>4
  <2>6. DOMAIN t = 1 .. i - 1
    BY <2>5, LenProperties
  <2>7. \A j \in 1 .. i - 1 : 1 + j - 1 = j /\ j \in 1 .. n
    BY <2>1
  <2>8. Elements(t) \subseteq Elements(q)
    BY <1>3, <2>5, <2>6, <2>7 DEF Elements
  <2>9. i # 0
    BY <2>1
  <2>10. QED
    BY <1>2, <2>2, <2>5, <2>8, <2>9
<1>6. QED
  BY <1>4, <1>5

(* What a step of the bridge makes the endpoint write: a reply exactly when *)
(* the request is answered by it.                                           *)
LEMMA WrittenFrames ==
  ASSUME NEW c \in Messages, answer' \in [Messages -> Answers]
  PROVE  /\ Written(c) \in Seq(Frames)
         /\ NewlySettled(c) => ReplyTo(c) \in Replies /\ ReplyTo(c) \in Elements(Written(c))
         /\ \A f \in Replies : f \in Elements(Written(c)) => NewlySettled(c) /\ f = ReplyTo(c)
<1> DEFINE q1 == IF ~Contains(arrivals, c) /\ c \in Waiting' THEN <<"request.queued">> ELSE <<>>
           q2 == IF Activated(c) THEN <<"request.active">> ELSE <<>>
           q3 == IF c \in cancelling' \ cancelling THEN <<"request.cancelled">> ELSE <<>>
           q4 == IF NewlySettled(c) THEN <<ReplyTo(c)>> ELSE <<>>
<1>1. Elements(<<>>) = {} /\ <<>> \in Seq(Frames)
  BY EmptySeq DEF Elements
<1>2. ASSUME NEW f \in Frames PROVE <<f>> \in Seq(Frames) /\ Elements(<<f>>) = {f}
  BY DEF Elements
<1>3. {"request.queued", "request.active", "request.cancelled"} \subseteq Frames \ Replies
  BY DEF Frames, Controls, Replies, Answers
<1>4. q1 \in Seq(Frames) /\ Elements(q1) \cap Replies = {}
  BY <1>1, <1>2, <1>3
<1>5. q2 \in Seq(Frames) /\ Elements(q2) \cap Replies = {}
  BY <1>1, <1>2, <1>3
<1>6. q3 \in Seq(Frames) /\ Elements(q3) \cap Replies = {}
  BY <1>1, <1>2, <1>3
<1>7. NewlySettled(c) => ReplyTo(c) \in Replies /\ ReplyTo(c) \in Frames
  BY DEF NewlySettled, ReplyTo, Replies, Answers, Frames
<1>8. q4 \in Seq(Frames) /\ Elements(q4) = IF NewlySettled(c) THEN {ReplyTo(c)} ELSE {}
  BY <1>1, <1>2, <1>7
<1>9. Written(c) = ((q1 \o q2) \o q3) \o q4
  BY DEF Written
<1> HIDE DEF q1, q2, q3, q4
<1>10. q1 \o q2 \in Seq(Frames) /\ Elements(q1 \o q2) \cap Replies = {}
  BY <1>4, <1>5, JoinedFrames
<1>11. PICK q5 : q5 = q1 \o q2
  OBVIOUS
<1>12. q5 \in Seq(Frames) /\ Elements(q5) \cap Replies = {}
  BY <1>10, <1>11
<1>13. q5 \o q3 \in Seq(Frames) /\ Elements(q5 \o q3) = Elements(q5) \cup Elements(q3)
  BY <1>6, <1>12, JoinedFrames
<1>14. PICK q6 : q6 = q5 \o q3
  OBVIOUS
<1>15. q6 \in Seq(Frames) /\ Elements(q6) \cap Replies = {}
  BY <1>6, <1>12, <1>13, <1>14
<1>16. q6 \o q4 \in Seq(Frames) /\ Elements(q6 \o q4) = Elements(q6) \cup Elements(q4)
  BY <1>8, <1>15, JoinedFrames
<1>17. Written(c) = q6 \o q4
  BY <1>9, <1>11, <1>14
<1>18. Written(c) \in Seq(Frames) /\ Elements(Written(c)) = Elements(q6) \cup Elements(q4)
  BY <1>16, <1>17
<1>19. QED
  BY <1>7, <1>8, <1>15, <1>18

-----------------------------------------------------------------------------
(* What a step of the bridge does to what the transport looks at.           *)

(* Answers stay, and only an entry that has none is cancelled.              *)
LEMMA BridgeTells ==
  ASSUME BridgeInv, [Next]_vars
  PROVE  /\ BridgeInv'
         /\ \A c \in Messages : answer[c] # "none" => answer'[c] = answer[c]
         /\ \A c \in Messages : answer'[c] = "OK" /\ answer[c] # "OK" => c \notin cancelling
         /\ cancelling' # cancelling =>
              \E m \in Messages : /\ cancelling' = cancelling \cup {m}
                                  /\ answer[m] = "none" /\ answer'[m] \in {"none", "CANCELLED"}
         /\ Elements(arrivals) \subseteq Elements(arrivals')
<1>1. BridgeInv' /\ (Earned \/ UNCHANGED vars)
  BY BridgeInvStep
<1>2. \A c \in Messages : answer[c] # "none" => answer'[c] = answer[c]
  BY <1>1 DEF Earned, vars
<1>3. \A c \in Messages : answer'[c] = "OK" /\ answer[c] # "OK" => c \notin cancelling
  BY <1>1 DEF Earned, vars
<1>4. ASSUME NEW m \in Messages, CancelEntry(m)
      PROVE  /\ cancelling' = cancelling \cup {m} /\ arrivals' = arrivals
             /\ answer[m] = "none" /\ answer'[m] \in {"none", "CANCELLED"}
  <2>1. answer[m] = "none"
    BY <1>4 DEF CancelEntry, BridgeInv, Places, Waiting, Elements
  <2>2. answer'[m] \in {"none", "CANCELLED"}
    BY <1>4, <2>1 DEF CancelEntry, SettleEntry
  <2>3. QED
    BY <1>4, <2>1, <2>2 DEF CancelEntry
<1>5. \A m \in Messages : HandleEnvelope(m) \/ ActiveTimeout(m) => cancelling' = cancelling
  BY DEF HandleEnvelope, ActiveTimeout
<1>6. (\E text \in BOOLEAN : HandleAgentEnd(text)) \/ Dispose \/ UNCHANGED vars => cancelling' = cancelling
  BY DEF HandleAgentEnd, Dispose, vars
<1>7. ASSUME NEW m \in Messages, HandleEnvelope(m) PROVE Elements(arrivals) \subseteq Elements(arrivals')
  BY <1>7, Appended DEF HandleEnvelope, BridgeInv, Shapes
<1>8. \A m \in Messages : ActiveTimeout(m) => arrivals' = arrivals
  BY DEF ActiveTimeout
<1>9. (\E text \in BOOLEAN : HandleAgentEnd(text)) \/ Dispose \/ UNCHANGED vars => arrivals' = arrivals
  BY DEF HandleAgentEnd, Dispose, vars
<1>10. QED
  BY <1>1, <1>2, <1>3, <1>4, <1>5, <1>6, <1>7, <1>8, <1>9 DEF Next

(* A step of the bridge other than its shutdown.                            *)
Works ==
  \/ \E m \in Messages : HandleEnvelope(m) \/ CancelEntry(m) \/ ActiveTimeout(m)
  \/ \E text \in BOOLEAN : HandleAgentEnd(text)

(* Apart from a shutdown, only who was cancelled is answered CANCELLED.     *)
LEMMA CancelledIsMarked ==
  ASSUME BridgeInv, NEW c \in Messages, answer[c] = "none", answer'[c] = "CANCELLED", Works
  PROVE  c \in cancelling'
<1>1. ASSUME NEW m \in Messages, HandleEnvelope(m) PROVE FALSE
  <2>1. m \notin Elements(queue)
    <3>1. m \notin Elements(arrivals)
      BY <1>1, ContainsIsElement DEF HandleEnvelope, BridgeInv, Shapes
    <3>2. QED
      BY <3>1 DEF BridgeInv, Places
  <2>2. EnqueueEntry(m) \in Seq(Messages) /\ Distinct(EnqueueEntry(m))
    BY <2>1, Enqueued DEF BridgeInv, Shapes, Places
  <2>3. ActivateNext(EnqueueEntry(m), answer, timers, asked)
    BY <1>1 DEF HandleEnvelope
  <2>4. answer'[c] \in {"ERROR", answer[c]}
    BY <2>2, <2>3, ActivationTakesFirst, BridgeConstants DEF BridgeInv, Shapes
  <2>5. QED
    BY <2>4
<1>2. ASSUME NEW m \in Messages, CancelEntry(m) PROVE c \in cancelling'
  BY <1>2 DEF CancelEntry, SettleEntry
<1>3. ASSUME NEW m \in Messages, ActiveTimeout(m) PROVE FALSE
  <2>1. m = active /\ active # NoMessage /\ active \notin Settled
    BY <1>3 DEF ActiveTimeout, BridgeInv, Places, Settled
  <2>2. /\ ActivateNext(queue, SettleEntry({active}, "ERROR"), timers \ {active}, asked)
        /\ arrivals' = arrivals
    BY <1>3, <2>1 DEF ActiveTimeout
  <2>3. "ERROR" \in Answers \ {"none"}
    BY DEF Answers
  <2>4. answer'[c] = "ERROR"
    BY <2>1, <2>2, <2>3, EndsActive
  <2>5. QED
    BY <2>4
<1>4. ASSUME NEW text \in BOOLEAN, HandleAgentEnd(text) PROVE c \in cancelling'
  <2>1. active # NoMessage
    BY <1>4 DEF HandleAgentEnd
  <2>2. PICK given \in Answers \ {"none"} :
          given = (IF active \in cancelling THEN "CANCELLED" ELSE IF text THEN "OK" ELSE "ERROR")
    BY DEF Answers
  <2>3. /\ ActivateNext(queue, SettleEntry({active}, given), timers \ {active}, {})
        /\ arrivals' = arrivals /\ cancelling' = cancelling
    BY <1>4, <2>1, <2>2 DEF HandleAgentEnd
  <2>4. c = active /\ given = "CANCELLED"
    BY <2>1, <2>3, EndsActive
  <2>5. QED
    BY <2>2, <2>3, <2>4
<1>5. QED
  BY <1>1, <1>2, <1>3, <1>4 DEF Works

-----------------------------------------------------------------------------
(* Requests and their contexts.  A context follows the entry of the bridge, *)
(* and an answer was written to every connection that was there for it.     *)

WireShape ==
  /\ context \in [Messages -> {"none", "open", "replying", "closed"}]
  /\ toPeer \in [Messages -> Seq(Frames)] /\ toSender \in [Messages -> Seq(Frames)]

Replied(c) == context[c] \in {"replying", "closed"}

ContextsFollow ==
  \A c \in Messages :
    /\ c \notin Elements(arrivals) => context[c] = "none"
    /\ c \in Elements(arrivals) /\ answer[c] = "none" => context[c] = "open"
    /\ answer[c] # "none" => Replied(c)

NotYetHeard ==
  \A c \in Messages :
    sender[c] \in {"unused", "connecting"} => toPeer[c] = <<>> /\ context[c] = "none"

RepliesWait ==
  Serving => \A c \in Messages \ idle : sender[c] = "open" /\ Replied(c) => HasReply(c)

DrainIsDone == endpoint \in {"draining", "stopped"} => \A c \in drain : Replied(c)

ContextInv ==
  /\ WireShape /\ ContextsFollow /\ NotYetHeard
  /\ RepliesWait /\ DrainIsDone /\ drain \subseteq Messages /\ ShutdownAnswers

(* Contexts and frames after a step of the bridge.                          *)
LEMMA FollowTells ==
  ASSUME BridgeInv, [Next]_vars, WireShape, ContextsFollow, Serving, Follow
  PROVE  /\ context' \in [Messages -> {"none", "open", "replying", "closed"}]
         /\ toSender' \in [Messages -> Seq(Frames)]
         /\ ContextsFollow'
         /\ \A c \in Messages : Replied(c) => Replied(c)'
         /\ \A c \in Messages, f \in Replies :
              /\ f \in Elements(toSender[c]) => f \in Elements(toSender'[c])
              /\ f \in Elements(toSender'[c]) =>
                   f \in Elements(toSender[c]) \/ (NewlySettled(c) /\ f = ReplyTo(c))
         /\ \A c \in Messages \ idle :
              sender[c] = "open" /\ ~Replied(c) /\ Replied(c)' => HasReply(c)'
         /\ UNCHANGED <<sender, armed, signalled, idle>>
<1>1. /\ BridgeInv' /\ answer' \in [Messages -> Answers]
      /\ \A c \in Messages : answer[c] # "none" => answer'[c] = answer[c]
      /\ Elements(arrivals) \subseteq Elements(arrivals')
  BY BridgeTells DEF BridgeInv, Shapes
<1>2. /\ \A c \in Messages : c \in Elements(arrivals') <=> Contains(arrivals', c)
      /\ \A c \in Messages : answer'[c] # "none" => c \in Elements(arrivals')
  <2>1. arrivals' \in Seq(Messages)
    BY <1>1 DEF BridgeInv, Shapes
  <2>2. Elements(arrivals)' = Elements(arrivals')
    BY DEF Elements
  <2>3. \A c \in Messages : answer'[c] # "none" => c \in Elements(arrivals)'
    BY <1>1 DEF BridgeInv, Places
  <2>4. QED
    BY <2>1, <2>2, <2>3, ContainsIsElement
<1>3. PICK slow \in SUBSET {c \in Messages : NewlySettled(c) /\ Writable(c)} :
        context' = [c \in Messages |->
         IF c \in slow THEN "replying"
         ELSE IF NewlySettled(c) THEN "closed"
         ELSE IF context[c] = "none" /\ Contains(arrivals', c) THEN "open"
         ELSE context[c]]
  BY DEF Follow
<1>4. context' \in [Messages -> {"none", "open", "replying", "closed"}]
  BY <1>3 DEF WireShape
<1>5. ASSUME NEW c \in Messages
      PROVE  /\ NewlySettled(c) => Replied(c)'
             /\ ~NewlySettled(c) =>
                  context'[c] = IF context[c] = "none" /\ c \in Elements(arrivals') THEN "open"
                                ELSE context[c]
  BY <1>2, <1>3 DEF Replied
<1>6. \A c \in Messages : Replied(c) => ~NewlySettled(c) /\ Replied(c)'
  <2>1. \A c \in Messages : Replied(c) => answer[c] # "none"
    BY DEF ContextsFollow, Replied
  <2>2. QED
    BY <1>5, <2>1 DEF NewlySettled, Replied
<1>7. ContextsFollow'
  <2>1. Elements(arrivals)' = Elements(arrivals')
    BY DEF Elements
  <2>2. ASSUME NEW c \in Messages
        PROVE  /\ c \notin Elements(arrivals') => context'[c] = "none"
               /\ c \in Elements(arrivals') /\ answer'[c] = "none" => context'[c] = "open"
               /\ answer'[c] # "none" => Replied(c)'
    BY <1>1, <1>2, <1>5, <1>6 DEF ContextsFollow, NewlySettled
  <2>3. QED
    BY <2>1, <2>2 DEF ContextsFollow
<1>8. ASSUME NEW c \in Messages
      PROVE  /\ toSender'[c] = IF Writable(c) THEN toSender[c] \o Written(c) ELSE toSender[c]
             /\ toSender'[c] \in Seq(Frames)
             /\ Writable(c) => Elements(toSender'[c]) = Elements(toSender[c]) \cup Elements(Written(c))
  <2>1. toSender'[c] = IF Writable(c) THEN toSender[c] \o Written(c) ELSE toSender[c]
    BY DEF Follow
  <2>2. toSender[c] \in Seq(Frames) /\ Written(c) \in Seq(Frames)
    BY <1>1, WrittenFrames DEF WireShape
  <2>3. /\ toSender[c] \o Written(c) \in Seq(Frames)
        /\ Elements(toSender[c] \o Written(c)) = Elements(toSender[c]) \cup Elements(Written(c))
    BY <2>2, JoinedFrames
  <2>4. QED
    BY <2>1, <2>2, <2>3
<1>9. toSender' \in [Messages -> Seq(Frames)]
  <2>1. toSender' = [c \in Messages |-> toSender'[c]]
    BY DEF Follow
  <2>2. QED
    BY <1>8, <2>1
<1>10. ASSUME NEW c \in Messages, NEW f \in Replies
       PROVE  /\ f \in Elements(toSender[c]) => f \in Elements(toSender'[c])
              /\ f \in Elements(toSender'[c]) =>
                   f \in Elements(toSender[c]) \/ (NewlySettled(c) /\ f = ReplyTo(c))
  <2>1. f \in Elements(Written(c)) => NewlySettled(c) /\ f = ReplyTo(c)
    BY <1>1, WrittenFrames
  <2>2. CASE Writable(c)
    BY <1>8, <2>1, <2>2
  <2>3. CASE ~Writable(c)
    BY <1>8, <2>3
  <2>4. QED
    BY <2>2, <2>3
<1>11. ASSUME NEW c \in Messages \ idle, sender[c] = "open", ~Replied(c), Replied(c)'
       PROVE  HasReply(c)'
  <2>1. NewlySettled(c)
    BY <1>5, <1>11 DEF Replied
  <2>2. Writable(c)
    BY <1>11 DEF Writable, HungUp, Replied
  <2>3. ReplyTo(c) \in Replies /\ ReplyTo(c) \in Elements(toSender'[c])
    BY <1>1, <1>8, <2>1, <2>2, WrittenFrames
  <2>4. Elements(toSender[c])' = Elements(toSender'[c]) /\ Replies' = Replies
    BY DEF Elements, Replies
  <2>5. QED
    BY <2>3, <2>4 DEF HasReply
<1>12. QED
  BY <1>4, <1>6, <1>7, <1>9, <1>10, <1>11 DEF Follow

(* What a step of the endpoint writes, reads and cancels.                   *)
EndpointSays ==
  /\ \A c \in Messages : \A f \in Replies :
       f \in Elements(toSender'[c]) =>
         \/ f \in Elements(toSender[c])
         \/ /\ f = "OK" => answer'[c] = "OK"
            /\ f = "CANCELLED" => c \in cancelling' \/ endpoint' # "up"
  /\ \A c \in Messages :
       c \in cancelling' => c \in cancelling \/ "request.cancel" \in Elements(toPeer[c])
  /\ \A c \in Messages : Elements(toPeer'[c]) \subseteq Elements(toPeer[c])
  /\ endpoint # "up" => endpoint' # "up"
  /\ UNCHANGED <<sender, signalled>>

(* The inflight operations of drain all have their answer.                  *)
LEMMA DisposeAnswersAll ==
  ASSUME BridgeInv, ContextsFollow, WireShape, Dispose, Follow, NEW c \in InFlight
  PROVE  Replied(c) \/ NewlySettled(c)
<1>1. c \in Messages /\ (context[c] = "open" \/ Replied(c))
  BY DEF InFlight, Replied
<1>2. CASE context[c] = "open"
  <2>1. c \in Elements(arrivals) /\ answer[c] = "none"
    BY <1>1, <1>2 DEF ContextsFollow, Replied
  <2>2. c \in Elements(queue) \/ c = active
    BY <1>1, <2>1 DEF BridgeInv, Places
  <2>3. answer'[c] = "CANCELLED"
    BY <1>1, <2>1, <2>2 DEF Dispose, SettleEntry, Waiting, Elements
  <2>4. QED
    BY <2>1, <2>3 DEF NewlySettled
<1>3. QED
  BY <1>1, <1>2

(* A step of the bridge that the transport follows.                         *)
LEMMA FollowingKeeps ==
  ASSUME BridgeInv, ContextInv, Serving, Follow,
         toPeer' \in [Messages -> Seq(Frames)],
         \A c \in Messages : Elements(toPeer'[c]) \subseteq Elements(toPeer[c]),
         \A c \in Messages : toPeer[c] = <<>> => toPeer'[c] = <<>> /\ c \notin Elements(arrivals') \ Elements(arrivals),
         \A c \in Messages :
           c \in cancelling' => c \in cancelling \/ "request.cancel" \in Elements(toPeer[c]),
         \/ Works /\ UNCHANGED <<endpoint, drain>>
         \/ Dispose /\ endpoint' = "draining" /\ drain' = InFlight
  PROVE  ContextInv' /\ EndpointSays
<1>0. [Next]_vars
  BY DEF Works, Next
<1>1. /\ context' \in [Messages -> {"none", "open", "replying", "closed"}]
      /\ toSender' \in [Messages -> Seq(Frames)]
      /\ ContextsFollow'
      /\ \A c \in Messages : Replied(c) => Replied(c)'
      /\ \A c \in Messages, f \in Replies :
           /\ f \in Elements(toSender[c]) => f \in Elements(toSender'[c])
           /\ f \in Elements(toSender'[c]) =>
                f \in Elements(toSender[c]) \/ (NewlySettled(c) /\ f = ReplyTo(c))
      /\ \A c \in Messages \ idle :
           sender[c] = "open" /\ ~Replied(c) /\ Replied(c)' => HasReply(c)'
      /\ UNCHANGED <<sender, armed, signalled, idle>>
  BY <1>0, FollowTells DEF ContextInv
<1>2. WireShape'
  BY <1>1 DEF WireShape
<1>3. NotYetHeard'
  <2>1. ASSUME NEW c \in Messages, sender'[c] \in {"unused", "connecting"}
        PROVE  toPeer'[c] = <<>> /\ context'[c] = "none"
    <3>1. toPeer[c] = <<>> /\ context[c] = "none"
      BY <1>1, <2>1 DEF ContextInv, NotYetHeard
    <3>2. toPeer'[c] = <<>> /\ c \notin Elements(arrivals') \ Elements(arrivals)
      BY <3>1
    <3>3. c \notin Elements(arrivals)
      BY <3>1 DEF ContextInv, ContextsFollow, BridgeInv, Places, Replied
    <3>4. Elements(arrivals)' = Elements(arrivals')
      BY DEF Elements
    <3>5. context'[c] = "none"
      BY <1>1, <3>2, <3>3, <3>4 DEF ContextsFollow
    <3>6. QED
      BY <3>2, <3>5
  <2>2. QED
    BY <2>1 DEF NotYetHeard
<1>4. \A c \in Messages : HasReply(c) => HasReply(c)'
  <2>1. \A c \in Messages : Elements(toSender[c])' = Elements(toSender'[c]) /\ Replies' = Replies
    BY DEF Elements, Replies
  <2>2. QED
    BY <1>1, <2>1 DEF HasReply
<1>5. \A c \in Messages \ idle : sender[c] = "open" /\ Replied(c)' => HasReply(c)'
  BY <1>1, <1>4 DEF ContextInv, RepliesWait
<1>6. RepliesWait'
  BY <1>1, <1>5 DEF RepliesWait
<1>7. endpoint' \in {"up", "draining"}
  BY DEF Serving
<1>8. DrainIsDone' /\ drain' \subseteq Messages
  <2>1. CASE UNCHANGED <<endpoint, drain>>
    BY <1>1, <2>1 DEF ContextInv, DrainIsDone
  <2>2. CASE Dispose /\ drain' = InFlight
    <3>1. \A c \in InFlight : Replied(c)'
      <4>1. \A c \in InFlight : Replied(c) \/ NewlySettled(c)
        BY <2>2, DisposeAnswersAll DEF ContextInv
      <4>2. \A c \in Messages : NewlySettled(c) => Replied(c)'
        BY <1>1 DEF NewlySettled, ContextsFollow
      <4>3. QED
        BY <1>1, <4>1, <4>2 DEF InFlight
    <3>2. QED
      BY <2>2, <3>1 DEF DrainIsDone, InFlight
  <2>3. QED
    BY <2>1, <2>2
<1>9. ShutdownAnswers'
  BY <1>7 DEF ShutdownAnswers
<1>10. ContextInv'
  BY <1>1, <1>2, <1>3, <1>6, <1>8, <1>9 DEF ContextInv
<1>11. ASSUME NEW c \in Messages, NEW f \in Replies, f \in Elements(toSender'[c])
       PROVE  \/ f \in Elements(toSender[c])
              \/ /\ f = "OK" => answer'[c] = "OK"
                 /\ f = "CANCELLED" => c \in cancelling' \/ endpoint' # "up"
  <2>1. SUFFICES ASSUME NewlySettled(c), f = ReplyTo(c)
                 PROVE  /\ f = "OK" => answer'[c] = "OK"
                        /\ f = "CANCELLED" => c \in cancelling' \/ endpoint' # "up"
    BY <1>1, <1>11
  <2>2. f = "OK" => answer'[c] = "OK"
    BY <2>1 DEF ReplyTo
  <2>3. ASSUME f = "CANCELLED", c \notin cancelling', endpoint' = "up" PROVE FALSE
    <3>1. answer[c] = "none" /\ answer'[c] = "CANCELLED"
      BY <2>1, <2>3 DEF ReplyTo, NewlySettled
    <3>2. Works
      BY <2>3
    <3>3. QED
      BY <2>3, <3>1, <3>2, CancelledIsMarked
  <2>4. QED
    BY <2>2, <2>3
<1>12. endpoint # "up" => endpoint' # "up"
  OBVIOUS
<1>13. EndpointSays
  BY <1>1, <1>11, <1>12 DEF EndpointSays
<1>14. QED
  BY <1>10, <1>13
LEMMA ContextInitially == CommsInit => ContextInv
<1> SUFFICES ASSUME CommsInit PROVE ContextInv
  OBVIOUS
<1>1. Elements(arrivals) = {} /\ <<>> \in Seq(Frames)
  BY EmptySeq DEF CommsInit, TransportInit, Init, Elements
<1>2. \A c \in Messages : answer[c] = "none" /\ context[c] = "none" /\ toPeer[c] = <<>> /\ toSender[c] = <<>>
  BY DEF CommsInit, TransportInit, Init
<1>3. WireShape
  BY <1>1 DEF CommsInit, TransportInit, WireShape
<1>4. QED
  BY <1>1, <1>2, <1>3 DEF CommsInit, TransportInit, ContextInv, ContextsFollow, NotYetHeard,
     RepliesWait, Replied, DrainIsDone, ShutdownAnswers

(* The endpoint goes away: nothing that it cuts off was waited for.         *)
LEMMA BreakKeeps ==
  ASSUME ContextInv, NEW how, Break(how),
         \/ how = "stopped" /\ endpoint = "draining" /\ drain \cap InFlight = {}
         \/ how = "crashed"
  PROVE  ContextInv' /\ EndpointSays
<1>1. PICK cut \in SUBSET {c \in Messages : context[c] = "replying"} :
        toSender' = [c \in Messages |->
          IF c \in cut THEN BeforeReply(toSender[c]) ELSE toSender[c]]
  BY DEF Break
<1>2. /\ endpoint' = how /\ toPeer' = [c \in Messages |-> <<>>]
      /\ UNCHANGED <<queue, active, timers, cancelling, answer, asked, arrivals>>
      /\ UNCHANGED <<sender, armed, signalled, context, idle, drain>>
  BY DEF Break, vars
<1>3. \A c \in Messages :
        /\ toSender'[c] \in Seq(Frames) /\ Elements(toSender'[c]) \subseteq Elements(toSender[c])
        /\ c \notin cut => toSender'[c] = toSender[c]
  BY <1>1, FramesBeforeReply DEF ContextInv, WireShape
<1>4. <<>> \in Seq(Frames) /\ Elements(<<>>) = {}
  BY EmptySeq DEF Elements
<1>5. WireShape'
  BY <1>1, <1>2, <1>3, <1>4 DEF ContextInv, WireShape
<1>6. ContextsFollow' /\ NotYetHeard'
  BY <1>2 DEF ContextInv, ContextsFollow, NotYetHeard, Replied, Elements
<1>7. RepliesWait'
  BY <1>2 DEF RepliesWait, Serving
<1>8. DrainIsDone' /\ drain' \subseteq Messages
  BY <1>2 DEF ContextInv, DrainIsDone, Replied
<1>9. ShutdownAnswers'
  <2>1. ASSUME how = "stopped", NEW c \in drain \ idle, sender[c] = "open"
        PROVE  \E i \in DOMAIN toSender'[c] : toSender'[c][i] \in Replies
    <3>1. c \in Messages /\ Replied(c) /\ c \notin InFlight
      BY <1>2, <2>1 DEF ContextInv, DrainIsDone
    <3>2. c \notin cut
      BY <1>1, <3>1 DEF InFlight
    <3>3. HasReply(c)
      BY <1>2, <2>1, <3>1 DEF ContextInv, RepliesWait, Serving
    <3>4. QED
      BY <1>3, <3>1, <3>2, <3>3 DEF HasReply, Elements
  <2>2. how = "crashed" => ShutdownAnswers'
    BY <1>2 DEF ShutdownAnswers
  <2>3. Replies' = Replies
    BY DEF Replies
  <2>4. QED
    BY <1>2, <2>1, <2>2, <2>3 DEF ShutdownAnswers
<1>10. EndpointSays
  BY <1>2, <1>3, <1>4 DEF EndpointSays
<1>11. QED
  BY <1>5, <1>6, <1>7, <1>8, <1>9, <1>10 DEF ContextInv

(* Steps of the endpoint beside the bridge. *)
LEMMA AloneKeeps ==
  ASSUME ContextInv, UNCHANGED <<queue, active, timers, cancelling, answer, asked, arrivals>>,
         UNCHANGED <<sender, armed, signalled, endpoint, drain>>,
         context' \in [Messages -> {"none", "open", "replying", "closed"}],
         \A c \in Messages : context'[c] # context[c] => context[c] = "replying" /\ context'[c] = "closed",
         toPeer' \in [Messages -> Seq(Frames)],
         \A c \in Messages : Elements(toPeer'[c]) \subseteq Elements(toPeer[c]),
         \A c \in Messages : toPeer[c] = <<>> => toPeer'[c] = <<>>,
         toSender' \in [Messages -> Seq(Frames)],
         \A c \in Messages, f \in Replies : f \in Elements(toSender'[c]) <=> f \in Elements(toSender[c]),
         idle \subseteq idle', endpoint \in {"up", "draining"}
  PROVE  ContextInv' /\ EndpointSays
<1>1. WireShape'
  BY DEF WireShape
<1>2. \A c \in Messages : Replied(c)' <=> Replied(c)
  BY DEF Replied
<1>3. ContextsFollow'
  <2>1. Elements(arrivals)' = Elements(arrivals)
    BY DEF Elements
  <2>2. QED
    BY <1>2, <2>1 DEF ContextInv, ContextsFollow
<1>4. NotYetHeard'
  BY DEF ContextInv, NotYetHeard
<1>5. RepliesWait'
  <2>1. \A c \in Messages : Elements(toSender[c])' = Elements(toSender'[c]) /\ Replies' = Replies
    BY DEF Elements, Replies
  <2>2. \A c \in Messages : HasReply(c) => HasReply(c)'
    BY <2>1 DEF HasReply
  <2>3. QED
    BY <1>2, <2>2 DEF ContextInv, RepliesWait, Serving
<1>6. DrainIsDone' /\ drain' \subseteq Messages /\ ShutdownAnswers'
  BY <1>2 DEF ContextInv, DrainIsDone, ShutdownAnswers
<1>7. EndpointSays
  BY DEF EndpointSays
<1>8. QED
  BY <1>1, <1>3, <1>4, <1>5, <1>6, <1>7 DEF ContextInv

(* A frame is read from a connection. *)
LEMMA FrameIsRead ==
  ASSUME WireShape, NEW c \in Messages, NEW frame, ReadFrame(c, frame)
  PROVE  /\ frame \in Elements(toPeer[c]) /\ toPeer[c] # <<>> /\ Serving
         /\ toPeer' \in [Messages -> Seq(Frames)]
         /\ \A d \in Messages : Elements(toPeer'[d]) \subseteq Elements(toPeer[d])
         /\ \A d \in Messages : toPeer[d] = <<>> => toPeer'[d] = <<>>
<1>1. /\ Serving /\ toPeer[c] # <<>> /\ Head(toPeer[c]) = frame
      /\ toPeer' = [toPeer EXCEPT ![c] = Tail(@)]
  BY DEF ReadFrame
<1>2. toPeer[c] \in Seq(Frames)
  BY DEF WireShape
<1>3. /\ Tail(toPeer[c]) \in Seq(Frames) /\ Head(toPeer[c]) \in Elements(toPeer[c])
      /\ Elements(toPeer[c]) = {Head(toPeer[c])} \cup Elements(Tail(toPeer[c]))
  BY <1>1, <1>2, RestOfFrames
<1>4. \A d \in Messages : toPeer'[d] = IF d = c THEN Tail(toPeer[c]) ELSE toPeer[d]
  BY <1>1 DEF WireShape
<1>5. toPeer' \in [Messages -> Seq(Frames)]
  BY <1>1, <1>3 DEF WireShape
<1>6. QED
  BY <1>1, <1>3, <1>4, <1>5

LEMMA ReadRequestKeeps ==
  ASSUME BridgeInv, ContextInv, NEW c \in Messages, ReadRequest(c) PROVE ContextInv' /\ EndpointSays
<1>1. HandleEnvelope(c) /\ Follow /\ UNCHANGED <<endpoint, drain>> /\ ReadFrame(c, "message.send")
  BY DEF ReadRequest
<1>2. /\ toPeer[c] # <<>> /\ Serving /\ toPeer' \in [Messages -> Seq(Frames)]
      /\ \A d \in Messages : Elements(toPeer'[d]) \subseteq Elements(toPeer[d])
      /\ \A d \in Messages : toPeer[d] = <<>> => toPeer'[d] = <<>>
  BY <1>1, FrameIsRead DEF ContextInv
<1>3. Elements(arrivals') = Elements(arrivals) \cup {c}
  BY <1>1, Appended DEF HandleEnvelope, BridgeInv, Shapes
<1>4. cancelling' = cancelling
  BY <1>1 DEF HandleEnvelope
<1>5. Works
  BY <1>1 DEF Works
<1>6. \A d \in Messages :
        toPeer[d] = <<>> => toPeer'[d] = <<>> /\ d \notin Elements(arrivals') \ Elements(arrivals)
  BY <1>2, <1>3
<1>7. QED
  BY <1>1, <1>2, <1>4, <1>5, <1>6, FollowingKeeps

LEMMA ReadCancelKeeps ==
  ASSUME BridgeInv, ContextInv, NEW c \in Messages, ReadCancel(c) PROVE ContextInv' /\ EndpointSays
<1>1. /\ ReadFrame(c, "request.cancel") /\ UNCHANGED <<endpoint, drain>>
      /\ \/ context[c] = "open" /\ CancelEntry(c) /\ Follow
         \/ /\ context[c] = "replying"
            /\ toSender' = [toSender EXCEPT ![c] = IF Writable(c) THEN Append(@, "request.cancelled") ELSE @]
            /\ beating' = beating \ {c}
            /\ UNCHANGED <<vars, sender, armed, signalled, idle, context>>
         \/ /\ context[c] = "closed"
            /\ UNCHANGED <<vars, sender, armed, signalled, idle, context, toSender, beating>>
  BY DEF ReadCancel
<1>2. /\ "request.cancel" \in Elements(toPeer[c]) /\ Serving /\ toPeer' \in [Messages -> Seq(Frames)]
      /\ \A d \in Messages : Elements(toPeer'[d]) \subseteq Elements(toPeer[d])
      /\ \A d \in Messages : toPeer[d] = <<>> => toPeer'[d] = <<>>
  BY <1>1, FrameIsRead DEF ContextInv
<1>3. CASE CancelEntry(c) /\ Follow
  <2>1. cancelling' = cancelling \cup {c} /\ arrivals' = arrivals
    BY <1>3 DEF CancelEntry
  <2>2. Works
    BY <1>3 DEF Works
  <2>3. \A d \in Messages :
          toPeer[d] = <<>> => toPeer'[d] = <<>> /\ d \notin Elements(arrivals') \ Elements(arrivals)
    BY <1>2, <2>1
  <2>4. \A d \in Messages :
          d \in cancelling' => d \in cancelling \/ "request.cancel" \in Elements(toPeer[d])
    BY <1>2, <2>1
  <2>5. QED
    BY <1>1, <1>2, <1>3, <2>2, <2>3, <2>4, FollowingKeeps
<1>4. ASSUME UNCHANGED <<queue, active, timers, cancelling, answer, asked, arrivals>>,
             UNCHANGED <<sender, armed, signalled, idle, context>>,
             toSender' = [toSender EXCEPT ![c] = IF Writable(c) THEN Append(@, "request.cancelled") ELSE @]
      PROVE  ContextInv' /\ EndpointSays
  <2>1. "request.cancelled" \in Frames /\ "request.cancelled" \notin Replies
    BY DEF Frames, Controls, Replies, Answers
  <2>2. toSender[c] \in Seq(Frames)
    BY DEF ContextInv, WireShape
  <2>3. /\ Append(toSender[c], "request.cancelled") \in Seq(Frames)
        /\ Elements(Append(toSender[c], "request.cancelled"))
             = Elements(toSender[c]) \cup {"request.cancelled"}
    BY <2>1, <2>2, Appended
  <2>4. \A d \in Messages :
          toSender'[d] = IF d = c /\ Writable(c) THEN Append(toSender[c], "request.cancelled")
                         ELSE toSender[d]
    BY <1>4 DEF ContextInv, WireShape
  <2>5. toSender' \in [Messages -> Seq(Frames)]
    BY <1>4, <2>3 DEF ContextInv, WireShape
  <2>6. \A d \in Messages, f \in Replies : f \in Elements(toSender'[d]) <=> f \in Elements(toSender[d])
    BY <2>1, <2>3, <2>4
  <2>7. context' \in [Messages -> {"none", "open", "replying", "closed"}]
    BY <1>4 DEF ContextInv, WireShape
  <2>8. QED
    BY <1>1, <1>2, <1>4, <2>5, <2>6, <2>7, AloneKeeps DEF Serving
<1>5. ASSUME UNCHANGED <<queue, active, timers, cancelling, answer, asked, arrivals>>,
             UNCHANGED <<sender, armed, signalled, idle, context, toSender>>
      PROVE  ContextInv' /\ EndpointSays
  <2>1. /\ context' \in [Messages -> {"none", "open", "replying", "closed"}]
        /\ toSender' \in [Messages -> Seq(Frames)]
    BY <1>5 DEF ContextInv, WireShape
  <2>2. QED
    BY <1>1, <1>2, <1>5, <2>1, AloneKeeps DEF Serving
<1>6. QED
  BY <1>1, <1>3, <1>4, <1>5 DEF vars

LEMMA ServeKeeps ==
  ASSUME BridgeInv, ContextInv, Serve PROVE ContextInv' /\ EndpointSays
<1>1. /\ toPeer \in [Messages -> Seq(Frames)] /\ toSender \in [Messages -> Seq(Frames)]
      /\ context \in [Messages -> {"none", "open", "replying", "closed"}]
  BY DEF ContextInv, WireShape
<1>2. ASSUME NEW c \in Messages, TurnTimesOut(c) PROVE ContextInv' /\ EndpointSays
  <2>1. /\ Serving /\ ActiveTimeout(c) /\ Follow /\ UNCHANGED <<toPeer, endpoint, drain>>
        /\ UNCHANGED <<cancelling, arrivals>>
    BY <1>2 DEF TurnTimesOut, ActiveTimeout
  <2>2. Works
    BY <2>1 DEF Works
  <2>3. QED
    BY <1>1, <2>1, <2>2, FollowingKeeps
<1>3. ASSUME NEW text \in BOOLEAN, TurnEnds(text) PROVE ContextInv' /\ EndpointSays
  <2>1. /\ Serving /\ HandleAgentEnd(text) /\ Follow /\ UNCHANGED <<toPeer, endpoint, drain>>
        /\ UNCHANGED <<cancelling, arrivals>>
    BY <1>3 DEF TurnEnds, HandleAgentEnd
  <2>2. Works
    BY <2>1 DEF Works
  <2>3. QED
    BY <1>1, <2>1, <2>2, FollowingKeeps
<1>4. ASSUME BeginShutdown PROVE ContextInv' /\ EndpointSays
  <2>1. /\ Serving /\ Dispose /\ Follow /\ endpoint' = "draining" /\ drain' = InFlight
        /\ UNCHANGED <<toPeer, cancelling, arrivals>>
    BY <1>4 DEF BeginShutdown, Dispose, Serving
  <2>2. QED
    BY <1>1, <2>1, FollowingKeeps
<1>5. ASSUME NEW c \in Messages, Progress(c) PROVE ContextInv' /\ EndpointSays
  <2>1. /\ Serving /\ UNCHANGED <<queue, active, timers, cancelling, answer, asked, arrivals>>
        /\ UNCHANGED <<sender, armed, signalled, toPeer, toSender, context, idle, endpoint, drain>>
    BY <1>5 DEF Progress, vars, ends
  <2>2. QED
    BY <1>1, <2>1, AloneKeeps DEF Serving
<1>6. ASSUME NEW c \in Messages, Flush(c) PROVE ContextInv' /\ EndpointSays
  <2>1. /\ Serving /\ UNCHANGED <<queue, active, timers, cancelling, answer, asked, arrivals>>
        /\ UNCHANGED <<sender, armed, signalled, toPeer, toSender, idle, endpoint, drain>>
        /\ context[c] = "replying" /\ context' = [context EXCEPT ![c] = "closed"]
    BY <1>6 DEF Flush, vars, ends
  <2>2. /\ context' \in [Messages -> {"none", "open", "replying", "closed"}]
        /\ \A d \in Messages : context'[d] # context[d] => context[d] = "replying" /\ context'[d] = "closed"
    BY <1>1, <2>1
  <2>3. QED
    BY <1>1, <2>1, <2>2, AloneKeeps DEF Serving
<1>7. ASSUME NEW c \in Messages, IdleClose(c) PROVE ContextInv' /\ EndpointSays
  <2>1. /\ Serving /\ UNCHANGED <<queue, active, timers, cancelling, answer, asked, arrivals>>
        /\ UNCHANGED <<sender, armed, signalled, toSender, context, endpoint, drain>>
        /\ idle \subseteq idle' /\ toPeer' = [toPeer EXCEPT ![c] = <<>>]
    BY <1>7 DEF IdleClose, vars
  <2>2. <<>> \in Seq(Frames) /\ Elements(<<>>) = {}
    BY EmptySeq DEF Elements
  <2>3. /\ toPeer' \in [Messages -> Seq(Frames)]
        /\ \A d \in Messages : toPeer'[d] = IF d = c THEN <<>> ELSE toPeer[d]
    BY <1>1, <2>1, <2>2
  <2>4. \A d \in Messages : Elements(toPeer'[d]) \subseteq Elements(toPeer[d])
    BY <2>2, <2>3
  <2>5. QED
    BY <1>1, <2>1, <2>3, <2>4, AloneKeeps DEF Serving
<1>8. Stop \/ Crash => ContextInv' /\ EndpointSays
  BY BreakKeeps DEF Stop, Crash
<1>9. QED
  BY <1>2, <1>3, <1>4, <1>5, <1>6, <1>7, <1>8, ReadRequestKeeps, ReadCancelKeeps DEF Serve

(* Steps of the sending side. *)
SenderOnly ==
  /\ UNCHANGED vars /\ UNCHANGED <<context, idle, endpoint, drain>>
  /\ toPeer' \in [Messages -> Seq(Frames)] /\ toSender' \in [Messages -> Seq(Frames)]
  /\ \A c \in Messages : sender'[c] \in {"unused", "connecting"} =>
       sender[c] \in {"unused", "connecting"} /\ toPeer'[c] = toPeer[c]
  /\ \A c \in Messages : sender'[c] = "open" =>
       \/ sender[c] = "connecting"
       \/ /\ sender[c] = "open"
          /\ \A f \in Replies : f \in Elements(toSender[c]) => f \in Elements(toSender'[c])

LEMMA SenderKeeps ==
  ASSUME ContextInv, SenderOnly
  PROVE  ContextInv'
<1> USE DEF SenderOnly
<1>1. WireShape'
  BY DEF ContextInv, WireShape
<1>2. \A c \in Messages : Replied(c)' <=> Replied(c)
  BY DEF Replied
<1>3. ContextsFollow'
  <2>1. Elements(arrivals)' = Elements(arrivals)
    BY DEF Elements, vars
  <2>2. QED
    BY <1>2, <2>1 DEF ContextInv, ContextsFollow, vars
<1>4. NotYetHeard'
  BY DEF ContextInv, NotYetHeard
<1>5. \A c \in Messages :
        sender'[c] = "open" /\ Replied(c) => sender[c] = "open" /\ (HasReply(c) => HasReply(c)')
  <2>1. \A c \in Messages : Elements(toSender[c])' = Elements(toSender'[c]) /\ Replies' = Replies
    BY DEF Elements, Replies
  <2>2. \A c \in Messages : sender[c] = "connecting" => ~Replied(c)
    BY DEF ContextInv, NotYetHeard, Replied
  <2>3. QED
    BY <2>1, <2>2 DEF HasReply
<1>6. RepliesWait'
  BY <1>2, <1>5 DEF ContextInv, RepliesWait, Serving
<1>7. DrainIsDone' /\ drain' \subseteq Messages
  BY <1>2 DEF ContextInv, DrainIsDone
<1>8. ShutdownAnswers'
  <2>1. ASSUME endpoint = "stopped", NEW c \in drain \ idle, sender'[c] = "open"
        PROVE  \E i \in DOMAIN toSender'[c] : toSender'[c][i] \in Replies
    <3>1. c \in Messages /\ Replied(c)
      BY <2>1 DEF ContextInv, DrainIsDone
    <3>2. sender[c] = "open" /\ \A f \in Replies : f \in Elements(toSender[c]) => f \in Elements(toSender'[c])
      BY <2>1, <3>1 DEF ContextInv, NotYetHeard, Replied
    <3>3. \E f \in Replies : f \in Elements(toSender[c])
      BY <2>1, <3>2 DEF ContextInv, ShutdownAnswers, Elements
    <3>4. QED
      BY <3>2, <3>3 DEF Elements
  <2>2. Replies' = Replies
    BY DEF Replies
  <2>3. QED
    BY <2>1, <2>2 DEF ShutdownAnswers
<1>9. QED
  BY <1>1, <1>3, <1>4, <1>6, <1>7, <1>8 DEF ContextInv

-----------------------------------------------------------------------------
(* What the sender is told. *)

Truth(m, body) ==
  /\ body = "OK" => \E c \in Messages : MessageOf[c] = m /\ answer[c] = "OK"
  /\ body = "CANCELLED" => m \in cancelAsked \/ endpoint # "up"

NobodyAnswersTheCancelled == \A c \in Messages : answer[c] = "OK" => c \notin cancelling

CancelsAreAsked ==
  \A c \in Messages :
    c \in cancelling \/ c \in signalled \/ "request.cancel" \in Elements(toPeer[c]) =>
      MessageOf[c] \in cancelAsked

RepliesAreTrue ==
  \A c \in Messages : \A f \in Replies : f \in Elements(toSender[c]) => Truth(MessageOf[c], f)

ResponsesAreTrue ==
  \A m \in Outgoing : Truth(m, response[m]) /\ Truth(m, saved[m].response)

TruthInv ==
  NobodyAnswersTheCancelled /\ CancelsAreAsked /\ RepliesAreTrue /\ ResponsesAreTrue

LEMMA TruthInitially == CommsInit => TruthInv
<1> SUFFICES ASSUME CommsInit PROVE TruthInv
  OBVIOUS
<1>1. Elements(<<>>) = {}
  BY DEF Elements
<1>2. QED
  BY <1>1 DEF CommsInit, TransportInit, Init, TruthInv, NobodyAnswersTheCancelled, CancelsAreAsked,
     RepliesAreTrue, ResponsesAreTrue, Truth

(* What was true stays true. *)
LEMMA TruthStays ==
  ASSUME BridgeInv, [Next]_vars, cancelAsked \subseteq cancelAsked', endpoint # "up" => endpoint' # "up"
  PROVE  \A m, body : Truth(m, body) => Truth(m, body)'
<1>1. \A c \in Messages : answer[c] = "OK" => answer'[c] = "OK"
  BY BridgeTells
<1>2. QED
  BY <1>1 DEF Truth

(* Replies and cancellations that a step adds have their reason, and so has *)
(* what becomes of the responses.                                           *)
LEMMA TruthKept ==
  ASSUME BridgeInv, [Next]_vars, TruthInv,
         cancelAsked \subseteq cancelAsked', endpoint # "up" => endpoint' # "up",
         \A c \in Messages :
           c \in cancelling' \/ c \in signalled' \/ "request.cancel" \in Elements(toPeer'[c]) =>
             \/ c \in cancelling \/ c \in signalled \/ "request.cancel" \in Elements(toPeer[c])
             \/ MessageOf[c] \in cancelAsked',
         \A c \in Messages, f \in Replies :
           f \in Elements(toSender'[c]) =>
             \/ f \in Elements(toSender[c])
             \/ /\ f = "OK" => answer'[c] = "OK"
                /\ f = "CANCELLED" => c \in cancelling' \/ endpoint' # "up",
         \A m \in Outgoing : \E b : response'[m] = b /\ (Truth(m, b) \/ Truth(m, b)'),
         \A m \in Outgoing : saved'[m].response \in {saved[m].response, response[m]}
  PROVE  TruthInv'
<1>1. \A m, b : Truth(m, b) => Truth(m, b)'
  BY TruthStays
<1>2. NobodyAnswersTheCancelled'
  <2>1. ASSUME NEW c \in Messages, answer'[c] = "OK" PROVE c \notin cancelling'
    <3>1. c \notin cancelling
      BY <2>1, BridgeTells DEF TruthInv, NobodyAnswersTheCancelled
    <3>2. CASE cancelling' # cancelling
      BY <2>1, <3>1, <3>2, BridgeTells
    <3>3. QED
      BY <3>1, <3>2
  <2>2. QED
    BY <2>1 DEF NobodyAnswersTheCancelled
<1>3. \A c \in Messages : Elements(toPeer[c])' = Elements(toPeer'[c]) /\ Elements(toSender[c])' = Elements(toSender'[c])
  BY DEF Elements
<1>4. CancelsAreAsked'
  BY <1>3 DEF TruthInv, CancelsAreAsked
<1>5. RepliesAreTrue'
  <2>1. ASSUME NEW c \in Messages, NEW f \in Replies, f \in Elements(toSender'[c])
        PROVE  Truth(MessageOf[c], f)'
    <3>1. CASE f \in Elements(toSender[c])
      BY <1>1, <3>1 DEF TruthInv, RepliesAreTrue
    <3>2. CASE /\ f = "OK" => answer'[c] = "OK"
               /\ f = "CANCELLED" => c \in cancelling' \/ endpoint' # "up"
      BY <1>4, <3>2 DEF Truth, CancelsAreAsked
    <3>3. QED
      BY <2>1, <3>1, <3>2
  <2>2. QED
    BY <1>3, <2>1 DEF RepliesAreTrue, Replies, Answers
<1>6. ResponsesAreTrue'
  <2>1. ASSUME NEW m \in Outgoing PROVE (Truth(m, response[m]) /\ Truth(m, saved[m].response))'
    <3>1. PICK b : response'[m] = b /\ Truth(m, b)'
      BY <1>1
    <3>2. PICK s : saved'[m].response = s /\ Truth(m, s)'
      BY <1>1 DEF TruthInv, ResponsesAreTrue
    <3>3. QED
      BY <3>1, <3>2 DEF Truth
  <2>2. QED
    BY <2>1 DEF ResponsesAreTrue
<1>7. QED
  BY <1>2, <1>4, <1>5, <1>6 DEF TruthInv

(* A step of the sending side, ... *)
LEMMA SenderTells ==
  ASSUME BridgeInv, ContextInv, TruthInv, SenderOnly, cancelAsked \subseteq cancelAsked',
         \A c \in Messages :
           c \in signalled' \/ "request.cancel" \in Elements(toPeer'[c]) =>
             \/ c \in signalled \/ "request.cancel" \in Elements(toPeer[c])
             \/ MessageOf[c] \in cancelAsked',
         \A c \in Messages, f \in Replies : f \in Elements(toSender'[c]) => f \in Elements(toSender[c]),
         \A m \in Outgoing : \E b : response'[m] = b /\ (Truth(m, b) \/ Truth(m, b)'),
         \A m \in Outgoing : saved'[m].response \in {saved[m].response, response[m]}
  PROVE  ContextInv' /\ TruthInv'
<1>1. /\ [Next]_vars /\ cancelling' = cancelling /\ endpoint' = endpoint
  BY DEF SenderOnly, vars
<1>2. TruthInv'
  BY <1>1, TruthKept
<1>3. QED
  BY <1>2, SenderKeeps

(* ... and one of the endpoint. *)
LEMMA EndpointTells ==
  ASSUME BridgeInv, ContextInv, TruthInv, Serve, UNCHANGED <<response, cancelAsked, saved>>
  PROVE  ContextInv' /\ TruthInv'
<1>1. ContextInv' /\ EndpointSays /\ [Next]_vars
  BY ServeKeeps, EndpointStep
<1>2. \A m \in Outgoing : \E b : response'[m] = b /\ Truth(m, b)
  BY DEF TruthInv, ResponsesAreTrue
<1>3. /\ \A c \in Messages :
           c \in cancelling' \/ c \in signalled' \/ "request.cancel" \in Elements(toPeer'[c]) =>
             c \in cancelling \/ c \in signalled \/ "request.cancel" \in Elements(toPeer[c])
      /\ endpoint # "up" => endpoint' # "up"
  BY <1>1 DEF EndpointSays
<1>4. \A c \in Messages, f \in Replies :
        f \in Elements(toSender'[c]) =>
          \/ f \in Elements(toSender[c])
          \/ /\ f = "OK" => answer'[c] = "OK"
             /\ f = "CANCELLED" => c \in cancelling' \/ endpoint' # "up"
  BY <1>1 DEF EndpointSays
<1>5. TruthInv'
  BY <1>1, <1>2, <1>3, <1>4, TruthKept
<1>6. QED
  BY <1>1, <1>5

-----------------------------------------------------------------------------
(* Invariance of both, a lemma for each kind of step. *)

CommsTruth == BridgeInv /\ CommsInv /\ ContextInv /\ TruthInv

LEMMA OldResponses ==
  ASSUME TruthInv
  PROVE  \A m \in Outgoing : Truth(m, response[m]) /\ Truth(m, saved[m].response)
  BY DEF TruthInv, ResponsesAreTrue

LEMMA AttemptTells ==
  ASSUME CommsTruth, NEW m \in Outgoing, Attempt(m), UNCHANGED <<response, saved, cancelAsked>>
  PROVE  ContextInv' /\ TruthInv'
<1>1. PICK c \in Messages :
        /\ sender[c] = "unused" /\ sender' = [sender EXCEPT ![c] = "connecting"]
        /\ UNCHANGED <<signalled, idle, endpoint, drain, toPeer, toSender, context>>
        /\ UNCHANGED vars
  BY DEF Attempt, Unused, OpenRequest, ends
<1>2. SenderOnly
  BY <1>1 DEF CommsTruth, CommsInv, BookShape, ContextInv, WireShape, SenderOnly
<1>3. \A n \in Outgoing : \E b : response'[n] = b /\ Truth(n, b)
  BY OldResponses DEF CommsTruth
<1>4. QED
  BY <1>1, <1>2, <1>3, SenderTells DEF CommsTruth

LEMMA ConnectTells ==
  ASSUME CommsTruth, NEW c \in Messages, Connect(c), UNCHANGED <<response, saved, cancelAsked>>
  PROVE  ContextInv' /\ TruthInv'
<1>1. /\ sender[c] = "connecting" /\ sender' = [sender EXCEPT ![c] = "open"]
      /\ toPeer' = [toPeer EXCEPT ![c] =
           IF c \in signalled THEN <<"message.send", "request.cancel">> ELSE <<"message.send">>]
      /\ UNCHANGED <<signalled, idle, endpoint, drain, toSender, context>>
      /\ UNCHANGED vars
  BY DEF Connect, ends
<1>2. PICK fs : fs = IF c \in signalled THEN <<"message.send", "request.cancel">> ELSE <<"message.send">>
  OBVIOUS
<1>3. fs \in Seq(Frames) /\ ("request.cancel" \in Elements(fs) => c \in signalled)
  <2>1. "message.send" \in Frames /\ "request.cancel" \in Frames
    BY DEF Frames
  <2>2. <<"message.send", "request.cancel">> \in Seq(Frames) /\ <<"message.send">> \in Seq(Frames)
    BY <2>1
  <2>3. "request.cancel" \notin Elements(<<"message.send">>)
    BY DEF Elements
  <2>4. QED
    BY <1>2, <2>2, <2>3
<1>4. \A d \in Messages : toPeer'[d] = IF d = c THEN fs ELSE toPeer[d]
  BY <1>1, <1>2 DEF CommsTruth, ContextInv, WireShape
<1>5. toPeer' \in [Messages -> Seq(Frames)]
  BY <1>1, <1>2, <1>3 DEF CommsTruth, ContextInv, WireShape
<1>6. SenderOnly
  BY <1>1, <1>4, <1>5 DEF CommsTruth, CommsInv, BookShape, ContextInv, WireShape, SenderOnly
<1>7. \A n \in Outgoing : \E b : response'[n] = b /\ Truth(n, b)
  BY OldResponses DEF CommsTruth
<1>8. \A d \in Messages :
        d \in signalled' \/ "request.cancel" \in Elements(toPeer'[d]) =>
          d \in signalled \/ "request.cancel" \in Elements(toPeer[d])
  BY <1>1, <1>3, <1>4
<1>9. QED
  BY <1>1, <1>6, <1>7, <1>8, SenderTells DEF CommsTruth

(* The user cancels: that is the reason for what follows.                   *)
LEMMA CancelTells ==
  ASSUME CommsTruth, NEW m \in Outgoing, CancelMessage(m) PROVE ContextInv' /\ TruthInv'
<1>1. /\ cancelAsked' = cancelAsked \cup {m} /\ UNCHANGED vars /\ UNCHANGED saved
      /\ response' = response \/ response' = [response EXCEPT ![m] = "CANCELLED"]
      /\ UNCHANGED wire \/ (phase[m] # "idle" /\ AbortRequest(carrier[m]))
  BY DEF CancelMessage, Conclude
<1>2. /\ toPeer \in [Messages -> Seq(Frames)] /\ toSender \in [Messages -> Seq(Frames)]
  BY DEF CommsTruth, ContextInv, WireShape
<1>3. \A n \in Outgoing : \E b : response'[n] = b /\ (Truth(n, b) \/ Truth(n, b)')
  <2>1. ASSUME NEW n \in Outgoing PROVE Truth(n, response[n])
    BY OldResponses DEF CommsTruth
  <2>2. Truth(m, "CANCELLED")'
    BY <1>1 DEF Truth
  <2>3. CASE response' = response
    BY <2>1, <2>3
  <2>4. CASE response' = [response EXCEPT ![m] = "CANCELLED"]
    BY <2>1, <2>2, <2>4 DEF CommsTruth, CommsInv, BookShape
  <2>5. QED
    BY <1>1, <2>3, <2>4
<1>4. CASE UNCHANGED wire
  <2>1. SenderOnly
    BY <1>1, <1>2, <1>4 DEF wire, SenderOnly
  <2>2. QED
    BY <1>1, <1>3, <1>4, <2>1, SenderTells DEF wire, CommsTruth
<1>5. ASSUME phase[m] # "idle", AbortRequest(carrier[m]) PROVE ContextInv' /\ TruthInv'
  <2>1. PICK c \in Messages : c = carrier[m] /\ MessageOf[c] = m
    BY <1>5 DEF CommsTruth, CommsInv, DispatchInv, CarrierIsOwn
  <2>2. /\ signalled' = signalled \cup {c}
        /\ UNCHANGED <<sender, toSender, context, idle, endpoint, drain>>
        /\ toPeer' = toPeer
           \/ (toPeer' = [toPeer EXCEPT ![c] = Append(@, "request.cancel")] /\ sender[c] = "open")
    <3>1. toPeer[c] = toPeer[c] /\ [toPeer EXCEPT ![c] = toPeer[c]] = toPeer
      BY <1>2
    <3>2. QED
      BY <1>5, <2>1, <3>1 DEF AbortRequest
  <2>3. toPeer' \in [Messages -> Seq(Frames)]
    <3>1. "request.cancel" \in Frames /\ toPeer[c] \in Seq(Frames)
      BY <1>2 DEF Frames
    <3>2. Append(toPeer[c], "request.cancel") \in Seq(Frames)
      BY <3>1, Appended
    <3>3. QED
      BY <1>2, <2>2, <3>2
  <2>4. \A d \in Messages : d # c \/ sender[c] # "open" => toPeer'[d] = toPeer[d]
    BY <1>2, <2>2
  <2>5. SenderOnly
    BY <1>1, <1>2, <2>2, <2>3, <2>4 DEF SenderOnly
  <2>6. \A d \in Messages :
          d \in signalled' \/ "request.cancel" \in Elements(toPeer'[d]) =>
            \/ d \in signalled \/ "request.cancel" \in Elements(toPeer[d])
            \/ MessageOf[d] \in cancelAsked'
    BY <1>1, <2>1, <2>2, <2>4
  <2>7. QED
    BY <1>1, <1>3, <2>2, <2>5, <2>6, SenderTells DEF CommsTruth
<1>6. QED
  BY <1>1, <1>4, <1>5

(* A frame is taken off the wire by the sender. *)
LEMMA ReadTells ==
  ASSUME CommsTruth, NEW c \in Messages,
         UNCHANGED vars, UNCHANGED <<signalled, idle, endpoint, drain, toPeer, context, cancelAsked, saved>>,
         NEW frames \in Seq(Frames), toSender' = [toSender EXCEPT ![c] = frames],
         Elements(frames) \subseteq Elements(toSender[c]),
         \/ sender' = sender /\ \A f \in Replies : f \in Elements(toSender[c]) => f \in Elements(frames)
         \/ \E s \in {"ok", "failed"} : sender' = [sender EXCEPT ![c] = s],
         \A m \in Outgoing : \E b : response'[m] = b /\ Truth(m, b)
  PROVE  ContextInv' /\ TruthInv'
<1>1. toPeer \in [Messages -> Seq(Frames)] /\ toSender \in [Messages -> Seq(Frames)]
  BY DEF CommsTruth, ContextInv, WireShape
<1>2. toSender' \in [Messages -> Seq(Frames)]
  BY <1>1
<1>3. \A d \in Messages : toSender'[d] = IF d = c THEN frames ELSE toSender[d]
  BY <1>1
<1>4. \A d \in Messages : d # c => sender'[d] = sender[d]
  BY DEF CommsTruth, CommsInv, BookShape
<1>5. \/ sender' = sender /\ \A f \in Replies : f \in Elements(toSender[c]) => f \in Elements(frames)
      \/ sender'[c] \in {"ok", "failed"}
  BY DEF CommsTruth, CommsInv, BookShape
<1>6. SenderOnly
  BY <1>1, <1>2, <1>3, <1>4, <1>5 DEF SenderOnly
<1>7. QED
  BY <1>3, <1>6, SenderTells DEF CommsTruth

LEMMA RecordTells ==
  ASSUME CommsTruth, NEW c \in Messages, RecordMessageEvent(c) PROVE ContextInv' /\ TruthInv'
<1>1. /\ toSender[c] # <<>> /\ Head(toSender[c]) \in Controls
      /\ toSender' = [toSender EXCEPT ![c] = Tail(@)]
      /\ UNCHANGED vars
      /\ UNCHANGED <<signalled, idle, endpoint, drain, sender, toPeer, context, response, cancelAsked, saved>>
  BY DEF RecordMessageEvent, ReadControl, ends
<1>2. toSender[c] \in Seq(Frames)
  BY DEF CommsTruth, ContextInv, WireShape
<1>3. /\ Tail(toSender[c]) \in Seq(Frames)
      /\ Elements(toSender[c]) = {Head(toSender[c])} \cup Elements(Tail(toSender[c]))
  BY <1>1, <1>2, RestOfFrames
<1>4. Head(toSender[c]) \notin Replies
  BY <1>1 DEF Controls, Replies, Answers
<1>5. \A n \in Outgoing : \E b : response'[n] = b /\ Truth(n, b)
  BY <1>1, OldResponses DEF CommsTruth
<1>6. QED
  BY <1>1, <1>3, <1>4, <1>5, ReadTells

LEMMA RespondedTells ==
  ASSUME CommsTruth, NEW c \in Messages, Responded(c) PROVE ContextInv' /\ TruthInv'
<1> DEFINE m == MessageOf[c]
           reply == Head(toSender[c])
<1>1. /\ toSender[c] # <<>> /\ reply \in Replies
      /\ sender' = [sender EXCEPT ![c] = "ok"]
      /\ UNCHANGED vars
      /\ UNCHANGED <<signalled, idle, endpoint, drain, toPeer, context, cancelAsked, saved>>
      /\ response' = [response EXCEPT ![m] = reply]
  BY DEF Responded, ReadReply, Conclude, ends
<1>2. toSender[c] \in Seq(Frames) /\ m \in Outgoing
  BY CommsConstants DEF CommsTruth, ContextInv, WireShape
<1>3. /\ Tail(toSender[c]) \in Seq(Frames) /\ reply \in Elements(toSender[c])
      /\ Elements(toSender[c]) = {Head(toSender[c])} \cup Elements(Tail(toSender[c]))
  BY <1>1, <1>2, RestOfFrames
<1>4. PICK rest \in {Tail(toSender[c]), <<>>} : toSender' = [toSender EXCEPT ![c] = rest]
  BY DEF Responded, ReadReply
<1>5. rest \in Seq(Frames) /\ Elements(rest) \subseteq Elements(toSender[c])
  <2>1. <<>> \in Seq(Frames) /\ Elements(<<>>) = {}
    BY EmptySeq DEF Elements
  <2>2. QED
    BY <1>3, <1>4, <2>1
<1>6. Truth(m, reply)
  BY <1>1, <1>3 DEF CommsTruth, TruthInv, RepliesAreTrue
<1>7. \A n \in Outgoing : \E b : response'[n] = b /\ Truth(n, b)
  <2>1. \A n \in Outgoing : Truth(n, response[n])
    BY OldResponses DEF CommsTruth
  <2>2. QED
    BY <1>1, <1>2, <1>6, <2>1 DEF CommsTruth, CommsInv, BookShape
<1>8. QED
  BY <1>1, <1>4, <1>5, <1>7, ReadTells

(* A dispatch that fails is called cancelled only if its signal was aborted. *)
LEMMA SendFailsTells ==
  ASSUME CommsTruth, NEW c \in Messages, SendFails(c) PROVE ContextInv' /\ TruthInv'
<1> DEFINE m == MessageOf[c]
<1>1. /\ Pending(c) /\ sender' = [sender EXCEPT ![c] = "failed"]
      /\ toSender' = [toSender EXCEPT ![c] = <<>>]
      /\ UNCHANGED vars
      /\ UNCHANGED <<signalled, idle, endpoint, drain, toPeer, context, cancelAsked, saved>>
      /\ Retry(m)
  BY DEF SendFails, FailRequest, ConnectFails, PeerClosed, TimeoutFires, Pending, ends
<1>2. <<>> \in Seq(Frames) /\ Elements(<<>>) = {}
  BY EmptySeq DEF Elements
<1>3. \/ response' = response
      \/ response' = [response EXCEPT ![m] = "ERROR"]
      \/ Aborted(m) /\ response' = [response EXCEPT ![m] = "CANCELLED"]
  BY <1>1 DEF Retry, Conclude
<1>4. Aborted(m) => m \in cancelAsked
  <2>1. carrier[m] = c
    BY <1>1 DEF CommsTruth, CommsInv, DispatchInv, OneRequestAtWork
  <2>2. QED
    BY <2>1 DEF Aborted, CommsTruth, TruthInv, CancelsAreAsked
<1>5. \A n \in Outgoing : \E b : response'[n] = b /\ Truth(n, b)
  <2>1. \A n \in Outgoing : Truth(n, response[n])
    BY OldResponses DEF CommsTruth
  <2>2. Truth(m, "ERROR") /\ (Aborted(m) => Truth(m, "CANCELLED"))
    BY <1>4 DEF Truth
  <2>3. QED
    BY <1>3, <2>1, <2>2 DEF CommsTruth, CommsInv, BookShape
<1>6. QED
  BY <1>1, <1>2, <1>5, ReadTells

LEMMA SaveTells ==
  ASSUME CommsTruth, SaveLands PROVE ContextInv' /\ TruthInv'
<1>1. /\ saved' = [m \in Outgoing |-> NewerSnapshot(saved[m], Current(m))]
      /\ UNCHANGED vars /\ UNCHANGED wire /\ UNCHANGED <<response, cancelAsked>>
  BY DEF SaveLands, book
<1>2. \A m \in Outgoing : saved'[m].response \in {saved[m].response, response[m]}
  BY <1>1 DEF NewerSnapshot, Current
<1>3. SenderOnly
  BY <1>1 DEF SenderOnly, wire, CommsTruth, ContextInv, WireShape
<1>4. \A n \in Outgoing : \E b : response'[n] = b /\ Truth(n, b)
  BY <1>1, OldResponses DEF CommsTruth
<1>5. QED
  BY <1>1, <1>2, <1>3, <1>4, SenderTells DEF wire, CommsTruth

(* A restart recovers what was saved, and that was true.                    *)
LEMMA RestartTells ==
  ASSUME CommsTruth, Restart PROVE ContextInv' /\ TruthInv'
<1>1. /\ response' = [m \in Outgoing |-> saved[m].response]
      /\ sender' = [c \in Messages |->
           IF sender[c] \in {"connecting", "open"} THEN "failed" ELSE sender[c]]
      /\ toSender' = [c \in Messages |-> <<>>]
      /\ UNCHANGED vars
      /\ UNCHANGED <<signalled, idle, endpoint, drain, toPeer, context, cancelAsked, saved>>
  BY DEF Restart, ends
<1>2. <<>> \in Seq(Frames) /\ Elements(<<>>) = {}
  BY EmptySeq DEF Elements
<1>3. SenderOnly
  BY <1>1, <1>2 DEF SenderOnly, CommsTruth, ContextInv, WireShape
<1>4. \A n \in Outgoing : \E b : response'[n] = b /\ Truth(n, b)
  BY <1>1, OldResponses DEF CommsTruth
<1>5. QED
  BY <1>1, <1>2, <1>3, <1>4, SenderTells DEF CommsTruth

LEMMA CommsTruthStep == CommsTruth /\ [CommsNext]_commsVars => CommsTruth'
<1> SUFFICES ASSUME CommsTruth, [CommsNext]_commsVars PROVE CommsTruth'
  OBVIOUS
<1>1. BridgeInv' /\ CommsInv'
  BY BridgeStep, BridgeInvStep, CommsInvStep DEF CommsTruth
<1>2. ASSUME NEW m \in Outgoing, SendMessage(m) \/ ResumeMessage(m) \/ BackoffEnds(m)
      PROVE  ContextInv' /\ TruthInv'
  <2>1. Attempt(m) /\ UNCHANGED <<response, saved, cancelAsked>>
    BY <1>2 DEF SendMessage, ResumeMessage, BackoffEnds, Dispatch
  <2>2. QED
    BY <2>1, AttemptTells
<1>3. ASSUME NEW m \in Outgoing, CancelMessage(m) PROVE ContextInv' /\ TruthInv'
  BY <1>3, CancelTells
<1>4. ASSUME NEW c \in Messages, RecordMessageEvent(c) \/ Responded(c) \/ SendFails(c)
      PROVE  ContextInv' /\ TruthInv'
  BY <1>4, RecordTells, RespondedTells, SendFailsTells
<1>5. ASSUME Beside(\E c \in Messages : Connect(c)) PROVE ContextInv' /\ TruthInv'
  BY <1>5, ConnectTells DEF Beside, book
<1>6. ASSUME Beside(Serve) PROVE ContextInv' /\ TruthInv'
  BY <1>6, EndpointTells DEF Beside, book, CommsTruth
<1>7. ASSUME SaveLands \/ Restart PROVE ContextInv' /\ TruthInv'
  BY <1>7, SaveTells, RestartTells
<1>8. ASSUME UNCHANGED commsVars PROVE ContextInv' /\ TruthInv'
  <2>1. SenderOnly
    BY <1>8 DEF SenderOnly, commsVars, wire, CommsTruth, ContextInv, WireShape
  <2>2. \A n \in Outgoing : \E b : response'[n] = b /\ Truth(n, b)
    BY <1>8, OldResponses DEF CommsTruth, commsVars, book
  <2>3. QED
    BY <1>8, <2>1, <2>2, SenderTells DEF commsVars, wire, book, CommsTruth
<1>9. QED
  BY <1>1, <1>2, <1>3, <1>4, <1>5, <1>6, <1>7, <1>8 DEF CommsNext, CommsTruth

LEMMA CommsTruthHolds == CommsSpec => []CommsTruth
<1>1. CommsInit => CommsTruth
  BY InitInv, InitiallyFine, ContextInitially, TruthInitially DEF CommsInit, TransportInit, CommsTruth
<1>2. QED
  BY <1>1, CommsTruthStep, PTL DEF CommsSpec

-----------------------------------------------------------------------------
(* An orderly shutdown answers everyone it held: dispose, then drain, then  *)
(* stop, whatever was being written, cancelled or retried meanwhile.        *)
THEOREM ShutdownAnswersHolds == CommsSpec => []ShutdownAnswers
<1>1. CommsTruth => ShutdownAnswers
  BY DEF CommsTruth, ContextInv
<1>2. QED
  BY <1>1, CommsTruthHolds, PTL

(* What the user is told of a message is what happened to it at the peer,   *)
(* also when it is read from the store after a restart.                     *)
THEOREM AnswersAreTrue == CommsSpec => []AnswersTellTheTruth
<1>1. CommsTruth => AnswersTellTheTruth
  <2> SUFFICES ASSUME CommsTruth, NEW m \in Outgoing
               PROVE  /\ response[m] = "OK" =>
                           \E c \in Messages : MessageOf[c] = m /\ answer[c] = "OK" /\ c \notin cancelling
                      /\ response[m] = "CANCELLED" => m \in cancelAsked \/ endpoint # "up"
    BY DEF AnswersTellTheTruth
  <2>1. Truth(m, response[m])
    BY OldResponses DEF CommsTruth
  <2>2. QED
    BY <2>1 DEF Truth, CommsTruth, TruthInv, NobodyAnswersTheCancelled
<1>2. QED
  BY <1>1, CommsTruthHolds, PTL
=============================================================================
