---------------------------- MODULE LocalTransport ----------------------------
(***************************************************************************)
(* Requests over local sockets (src/src/peers/local-transport.mjs): the    *)
(* sending side, one connection for each request (sendEnvelopeToEndpoint), *)
(* and the endpoint of the session that serves them (handleSocket and      *)
(* createLocalRequestContext), which hands each request to its inbound     *)
(* bridge.  Control frames tell the sender that its request is queued,     *)
(* active or being cancelled, and its timer follows them.                  *)
(*                                                                         *)
(* A request is a member of Messages, as in InboundBridge.  Each direction *)
(* of a connection is a sequence of frames.  The challenge and response of *)
(* an authenticated connection only delay the request and are left out, as *)
(* are malformed and oversized lines.  Heartbeats are not frames here: an  *)
(* endpoint that beats keeps the timer of the sender from firing.  A       *)
(* cancel frame never precedes its request on a connection, so the code's  *)
(* pendingCancelFrame is never used.                                       *)
(***************************************************************************)
EXTENDS InboundBridge

CONSTANTS
  Sluggish,   \* may the endpoint leave bytes unread for longer than the timeouts?
  MayCrash    \* may the session of the endpoint be killed?

VARIABLES
  sender,     \* the sending side of each request
  armed,      \* requests whose timer runs at the sender
  signalled,  \* requests whose cancelSignal is aborted
  toPeer, toSender,   \* frames under way
  context,    \* the request context at the endpoint
  beating,    \* contexts whose heartbeat timer runs
  idle,       \* connections the endpoint destroyed because nothing moved on them
  endpoint,   \* up, draining, stopped or crashed
  drain       \* the operations drain() waits for

wire == <<sender, armed, signalled, toPeer, toSender, context, beating, idle, endpoint, drain>>
ends == <<signalled, idle, endpoint, drain>>

ASSUME TransportConstants == Sluggish \in BOOLEAN /\ MayCrash \in BOOLEAN

Controls == {"request.queued", "request.active", "request.cancelled"}
Replies  == Answers \ {"none"}
Serving  == endpoint \in {"up", "draining"}
InFlight == {c \in Messages : context[c] \in {"open", "replying"}}

(* Has the endpoint closed its side of the connection? *)
HungUp(c) == context[c] = "closed" \/ c \in idle \/ ~Serving

(* Writing to a socket that either side has closed does nothing. *)
Writable(c) == sender[c] = "open" /\ ~HungUp(c)

TransportInit ==
  /\ Init
  /\ sender = [c \in Messages |-> "unused"]
  /\ toPeer = [c \in Messages |-> <<>>] /\ toSender = [c \in Messages |-> <<>>]
  /\ context = [c \in Messages |-> "none"]
  /\ armed = {} /\ signalled = {} /\ beating = {} /\ idle = {}
  /\ endpoint = "up" /\ drain = {}

-----------------------------------------------------------------------------
(* The sender. *)

OpenRequest(c) ==
  /\ sender[c] = "unused"
  /\ sender' = [sender EXCEPT ![c] = "connecting"]
  /\ armed' = armed \cup {c}
  /\ UNCHANGED <<ends, toPeer, toSender, context, beating>>

(* The connection is there: the request is written, and the cancellation   *)
(* too if its signal was aborted meanwhile.                                *)
Connect(c) ==
  /\ sender[c] = "connecting" /\ Serving
  /\ sender' = [sender EXCEPT ![c] = "open"]
  /\ toPeer' = [toPeer EXCEPT ![c] =
       IF c \in signalled THEN <<"message.send", "request.cancel">> ELSE <<"message.send">>]
  /\ UNCHANGED <<vars, ends, armed, toSender, context, beating>>

(* The abort of a request's signal. *)
AbortRequest(c) ==
  /\ c \notin signalled
  /\ signalled' = signalled \cup {c}
  /\ IF sender[c] = "open"
     THEN /\ toPeer' = [toPeer EXCEPT ![c] = IF HungUp(c) THEN @ ELSE Append(@, "request.cancel")]
          /\ armed' = armed \cup {c}
     ELSE UNCHANGED <<toPeer, armed>>
  /\ UNCHANGED <<sender, toSender, context, beating, idle, endpoint, drain>>

(* armTimeout and clearTimeout of handleLocalControlFrame. *)
Arm(c, frame) ==
  IF sender[c] # "open" THEN armed
  ELSE IF frame = "request.queued" THEN armed \ {c} ELSE armed \cup {c}

(* A control frame is read, also after the reply: the socket is only half closed then. *)
ReadControl(c) ==
  /\ sender[c] \in {"open", "ok"}
  /\ toSender[c] # <<>> /\ Head(toSender[c]) \in Controls
  /\ toSender' = [toSender EXCEPT ![c] = Tail(@)]
  /\ armed' = Arm(c, Head(toSender[c]))
  /\ UNCHANGED <<vars, ends, sender, toPeer, context, beating>>

(* succeed: what follows in the same chunk is read before anyone sees the reply. *)
ReadReply(c) ==
  /\ sender[c] = "open"
  /\ toSender[c] # <<>> /\ Head(toSender[c]) \in Replies
  /\ sender' = [sender EXCEPT ![c] = "ok"]
  /\ armed' = armed \ {c}
  /\ \E rest \in {Tail(toSender[c]), <<>>} : toSender' = [toSender EXCEPT ![c] = rest]
  /\ UNCHANGED <<vars, ends, toPeer, context, beating>>

(* Why a request fails: nobody listens, the connection ended, time is up.  *)
ConnectFails(c) == sender[c] = "connecting" /\ ~Serving

PeerClosedUnnoticed(c) == FALSE      \* as if the end of a connection did not matter

PeerClosed(c) == sender[c] = "open" /\ HungUp(c) /\ toSender[c] = <<>>

TimeoutFires(c) ==
  /\ sender[c] \in {"connecting", "open"} /\ c \in armed
  /\ c \notin beating \/ HungUp(c)
  /\ toSender[c] = <<>>
  /\ Sluggish \/ (sender[c] = "open" /\ toPeer[c] = <<>>)

(* fail: the socket is destroyed; what was written may still be read.      *)
FailRequest(c) ==
  /\ ConnectFails(c) \/ PeerClosed(c) \/ TimeoutFires(c)
  /\ sender' = [sender EXCEPT ![c] = "failed"]
  /\ armed' = armed \ {c}
  /\ toSender' = [toSender EXCEPT ![c] = <<>>]
  /\ UNCHANGED <<vars, ends, toPeer, context, beating>>

-----------------------------------------------------------------------------
(* The endpoint. *)

NewlySettled(c) == answer[c] = "none" /\ answer'[c] # "none"

(* markActive: also of an entry that Pi then refused. *)
Activated(c) ==
  /\ active # c
  /\ active' = c \/ (NewlySettled(c) /\ answer'[c] = "ERROR")

(* The reply to a request that the bridge has answered. *)
ReplyTo(c) == IF c \in cancelling' THEN "CANCELLED" ELSE answer'[c]

(* What a step of the bridge writes to the sender of a request, in order.  *)
Written(c) ==
  (IF ~Contains(arrivals, c) /\ c \in Waiting' THEN <<"request.queued">> ELSE <<>>)
  \o (IF Activated(c) THEN <<"request.active">> ELSE <<>>)
  \o (IF c \in cancelling' \ cancelling THEN <<"request.cancelled">> ELSE <<>>)
  \o (IF NewlySettled(c) THEN <<ReplyTo(c)>> ELSE <<>>)

(***************************************************************************)
(* Contexts, heartbeats and sockets follow a step of the bridge.  A reply  *)
(* that does not fit into the socket at once leaves its context open until *)
(* it is flushed.                                                          *)
(***************************************************************************)
Follow ==
  /\ \E slow \in SUBSET {c \in Messages : NewlySettled(c) /\ Writable(c)} :
       context' = [c \in Messages |->
         IF c \in slow THEN "replying"
         ELSE IF NewlySettled(c) THEN "closed"
         ELSE IF context[c] = "none" /\ Contains(arrivals', c) THEN "open"
         ELSE context[c]]
  /\ toSender' = [c \in Messages |->
       IF Writable(c) THEN toSender[c] \o Written(c) ELSE toSender[c]]
  /\ beating' = {c \in beating \cup {c \in Messages : Activated(c)} :
       context'[c] # "closed" /\ c \notin cancelling' \ cancelling}
  /\ UNCHANGED <<sender, armed, signalled, idle>>

ReadFrame(c, frame) ==
  /\ Serving /\ toPeer[c] # <<>> /\ Head(toPeer[c]) = frame
  /\ toPeer' = [toPeer EXCEPT ![c] = Tail(@)]

ReadRequest(c) ==
  /\ ReadFrame(c, "message.send")
  /\ HandleEnvelope(c) /\ Follow
  /\ UNCHANGED <<endpoint, drain>>

(* A cancellation reaches the context of its request, or finds it gone.    *)
ReadCancel(c) ==
  /\ ReadFrame(c, "request.cancel")
  /\ \/ context[c] = "open" /\ CancelEntry(c) /\ Follow
     \/ /\ context[c] = "replying"
        /\ toSender' = [toSender EXCEPT ![c] = IF Writable(c) THEN Append(@, "request.cancelled") ELSE @]
        /\ beating' = beating \ {c}
        /\ UNCHANGED <<vars, sender, armed, signalled, idle, context>>
     \/ /\ context[c] = "closed"
        /\ UNCHANGED <<vars, sender, armed, signalled, idle, context, toSender, beating>>
  /\ UNCHANGED <<endpoint, drain>>

TurnEnds(text) ==
  /\ Serving /\ HandleAgentEnd(text) /\ Follow
  /\ UNCHANGED <<toPeer, endpoint, drain>>

TurnTimesOut(c) ==
  /\ Serving /\ ActiveTimeout(c) /\ Follow
  /\ UNCHANGED <<toPeer, endpoint, drain>>

(* progress: the active entry reports, and its heartbeat starts again.     *)
Progress(c) ==
  /\ Serving /\ active = c /\ c \notin beating
  /\ beating' = beating \cup {c}
  /\ UNCHANGED <<vars, ends, sender, armed, toPeer, toSender, context>>

(* The reply is out: socket.end(), and the context is closed. *)
Flush(c) ==
  /\ Serving /\ context[c] = "replying"
  /\ context' = [context EXCEPT ![c] = "closed"]
  /\ beating' = beating \ {c}
  /\ UNCHANGED <<vars, ends, sender, armed, toPeer, toSender>>

IdleCloseDrops(c) ==      \* as if the entry of a closed connection just left the queue
  /\ Serving /\ context[c] = "open" /\ c \notin idle \cup beating
  /\ idle' = idle \cup {c}
  /\ toPeer' = [toPeer EXCEPT ![c] = <<>>]
  /\ queue' = Remove(queue, c)
  /\ UNCHANGED <<active, timers, cancelling, answer, asked, arrivals>>
  /\ UNCHANGED <<sender, armed, signalled, toSender, context, beating, endpoint, drain>>

(* socket.setTimeout: nothing moved for connectionIdleTimeoutMs.           *)
IdleClose(c) ==
  /\ Serving /\ context[c] = "open" /\ c \notin idle \cup beating
  /\ idle' = idle \cup {c}
  /\ toPeer' = [toPeer EXCEPT ![c] = <<>>]
  /\ UNCHANGED <<vars, sender, armed, signalled, toSender, context, beating, endpoint, drain>>

(* shutdown of the runtime: bridge.dispose, then endpoint.drain.           *)
BeginShutdown ==
  /\ endpoint = "up"
  /\ Dispose /\ Follow
  /\ endpoint' = "draining" /\ drain' = InFlight
  /\ UNCHANGED toPeer

BeforeReply(frames) ==
  LET i == SelectInSeq(frames, LAMBDA f : f \in Replies) IN
  IF i = 0 THEN frames ELSE SubSeq(frames, 1, i - 1)

(* All sockets are destroyed; a reply that is not flushed may be cut off.  *)
Break(how) ==
  /\ endpoint' = how
  /\ toPeer' = [c \in Messages |-> <<>>]
  /\ beating' = {}
  /\ \E cut \in SUBSET {c \in Messages : context[c] = "replying"} :
       toSender' = [c \in Messages |->
         IF c \in cut THEN BeforeReply(toSender[c]) ELSE toSender[c]]
  /\ UNCHANGED <<vars, sender, armed, signalled, context, idle, drain>>

StopUndrained == endpoint = "draining" /\ Break("stopped")      \* as if stop did not wait

(* endpoint.stop, once the operations of drain have ended.                 *)
Stop == endpoint = "draining" /\ drain \cap InFlight = {} /\ Break("stopped")

Crash == MayCrash /\ Serving /\ Break("crashed")

(* What happens at the endpoint. *)
Serve ==
  \/ \E c \in Messages :
       ReadRequest(c) \/ ReadCancel(c) \/ TurnTimesOut(c) \/ Progress(c) \/ Flush(c) \/ IdleClose(c)
  \/ \E text \in BOOLEAN : TurnEnds(text)
  \/ BeginShutdown \/ Stop \/ Crash

-----------------------------------------------------------------------------
(* Properties. *)

(* An orderly shutdown answers everyone: a request the endpoint held when   *)
(* it began to shut down, and whose sender still waits, finds a reply on    *)
(* its connection and not just its end, unless the connection had been      *)
(* closed for idleness before.  (dispose, then drain, then stop.)           *)
ShutdownAnswers ==
  endpoint = "stopped" =>
    \A c \in drain \ idle :
      sender[c] = "open" => \E i \in DOMAIN toSender[c] : toSender[c][i] \in Replies
=============================================================================
