------------------------------ MODULE WebSocket ------------------------------
(***************************************************************************)
(* A client connection of websocketpp as the socket.io client uses it:     *)
(* plain TCP, no proxy, version 13, timeouts of five seconds, and every    *)
(* handler on the one thread that runs the io_service.  A pending          *)
(* operation of asio is a member of "ops"; its completion is an action     *)
(* that takes it out and does what the handler does.                       *)
(*                                                                         *)
(* A timer is "running", then "due": its handler is queued and can no      *)
(* longer be cancelled.  "stale" holds the timers that the connection has  *)
(* lost its pointer to and whose handlers still run.                       *)
(***************************************************************************)
EXTENDS Naturals, Sequences, SequencesExt

CONSTANTS
    Answers,    \* what the server may answer to the handshake
    MaxSends,   \* bound on the messages the client sends
    MaxFrames,  \* bound on the frames the server sends
    MaxQueue    \* bound on the frames waiting to be written

ASSUME WebSocketAssumption ==
    /\ Answers \subseteq {"accept", "refuse", "mangle"}
    /\ MaxSends \in Nat
    /\ MaxFrames \in Nat
    /\ MaxQueue \in Nat

VARIABLES
    mState,     \* m_state of the connection
    stage,      \* m_internal_state, whose USER_INIT is split in three
    told,       \* the open, fail and close handlers called so far
    localCode,  \* m_local_close_code
    wasClean,   \* m_was_clean
    asked,      \* history: one side has asked for a normal close
    seen,       \* history: the code the close handler found
    ops,        \* pending operations of asio
    timer,      \* the resolve, connect or handshake timer
    stale,      \* timers no pointer leads to
    sendQueue,  \* m_send_queue
    current,    \* m_current_msgs
    writeFlag,  \* m_write_flag
    posted,     \* calls of write_frame in the queue of the io_service
    sent,       \* history: messages that send() has accepted
    wire,       \* history: frames written to the socket
    incoming,   \* frames received and not yet read
    arrived,    \* frames the server has sent
    link        \* "up", or the server has ended ("eof") or "reset" it

closeVars == <<told, localCode, wasClean, asked, seen>>
lifeVars == <<mState, stage, closeVars>>
timerVars == <<timer, stale>>
outVars == <<sendQueue, current, writeFlag, posted, sent, wire>>
peerVars == <<incoming, arrived, link>>
vars == <<lifeVars, ops, timerVars, outVars, peerVars>>

\* Frames that are written, and frames and close codes that arrive.  A
\* "bad" frame is one that consume() refuses.  A pong is read like a text.
Text(n) == [op |-> "text", id |-> n, terminal |-> FALSE]
Pong == [op |-> "pong", id |-> 0, terminal |-> FALSE]
Close(last) == [op |-> "close", id |-> 0, terminal |-> last]

ServerCodes == {"normal", "noStatus", "goingAway", "invalid"}
ServerFrames == {[op |-> o, code |-> "none"] : o \in {"text", "ping", "bad"}}
                  \cup {[op |-> "close", code |-> c] : c \in ServerCodes}

TimerStates == {"off", "running", "due"}
OpNames == {"resolve", "connect", "writeRequest", "readResponse", "read", "write"}

Init ==
    /\ mState = "connecting" /\ stage = "init" /\ told = <<>>
    /\ localCode = "abnormal" /\ wasClean = FALSE
    /\ asked = FALSE /\ seen = "none"
    /\ ops = {} /\ timer = "off" /\ stale = {}
    /\ sendQueue = <<>> /\ current = <<>> /\ writeFlag = FALSE /\ posted = 0
    /\ sent = 0 /\ wire = <<>>
    /\ incoming = <<>> /\ arrived = 0 /\ link = "up"

----------------------------------------------------------------------------
(* Steps the handlers share. *)

\* Cancelling a timer that is due comes too late.
Lost == IF timer = "due" THEN stale \cup {"due"} ELSE stale

\* Faulty variant: a connection that is over is ended again.
TerminateAgain(failing) ==
    /\ localCode' = IF failing THEN "abnormal" ELSE localCode
    /\ mState' = "closed"
    /\ told' = IF mState = "connecting" THEN <<"fail">> ELSE Append(told, "close")
    /\ seen' = IF mState # "connecting" THEN localCode' ELSE seen
    /\ UNCHANGED <<stage, wasClean, asked>>

\* terminate(), with its handle_terminate(): a plain socket is shut down at
\* once.  "failing" is an error code that is set.
Terminate(failing) ==
    /\ localCode' = IF failing THEN "abnormal" ELSE localCode
    /\ mState' = "closed"
    /\ told' = CASE mState = "connecting" -> <<"fail">>
                 [] mState = "closed" -> told
                 [] OTHER -> Append(told, "close")
    /\ seen' = IF mState \in {"open", "closing"} THEN localCode' ELSE seen
    /\ UNCHANGED <<stage, wasClean, asked>>

CancelTimer == timer' = "off" /\ stale' = Lost

End(failing) == Terminate(failing) /\ CancelTimer

\* write_push, and write_frame is posted unless a write is under way.
Push(frame) ==
    /\ sendQueue' = Append(sendQueue, frame)
    /\ posted' = IF writeFlag THEN posted ELSE posted + 1
    /\ UNCHANGED <<current, writeFlag, wire>>

\* send_close_frame with a code that may be sent.
SendCloseFrame(code, ack, last) ==
    /\ localCode' = code
    /\ mState' = "closing"
    /\ wasClean' = (wasClean \/ ack)
    /\ stale' = IF timer = "off" THEN stale ELSE stale \cup {timer}
    /\ timer' = "running"
    /\ Push(Close(last))
    /\ UNCHANGED <<stage, told, seen, sent>>

----------------------------------------------------------------------------
(* Opening: endpoint::async_connect, then the connection. *)

Start(op) == ops' = (ops \ {"resolve", "connect"}) \cup {op} /\ timer' = "running"

Connect ==
    /\ stage = "init"
    /\ stage' = "resolve"
    /\ Start("resolve")
    /\ UNCHANGED <<mState, closeVars, stale, outVars, peerVars>>

\* handle_resolve and handle_connect do nothing once the timer has expired,
\* which also stands for an operation that the timeout has aborted.
Outdated(op) ==
    /\ timer # "running" \/ mState = "closed"
    /\ ops' = ops \ {op}
    /\ UNCHANGED <<lifeVars, timerVars, outVars, peerVars>>

FailToConnect(op) ==
    /\ timer = "running" /\ mState = "connecting"
    /\ ops' = ops \ {op}
    /\ End(TRUE)
    /\ UNCHANGED <<outVars, peerVars>>

HandleResolve ==
    /\ "resolve" \in ops
    /\ \/ Outdated("resolve")
       \/ FailToConnect("resolve")
       \/ /\ timer = "running" /\ mState = "connecting"
          /\ stage' = "connect"
          /\ Start("connect")
          /\ UNCHANGED <<mState, closeVars, stale, outVars, peerVars>>

\* On success start(), handle_transport_init and send_http_request follow
\* in the same call.
HandleConnect ==
    /\ "connect" \in ops
    /\ \/ Outdated("connect")
       \/ FailToConnect("connect")
       \/ /\ timer = "running" /\ mState = "connecting"
          /\ stage' = "writeRequest"
          /\ Start("writeRequest")
          /\ UNCHANGED <<mState, closeVars, stale, outVars, peerVars>>

TimerExpires ==
    /\ \/ timer = "running" /\ timer' = "due" /\ UNCHANGED stale
       \/ "running" \in stale /\ stale' = (stale \ {"running"}) \cup {"due"} /\ UNCHANGED timer
    /\ UNCHANGED <<lifeVars, ops, outVars, peerVars>>

\* handle_resolve_timeout and handle_connect_timeout; what was pending ends
\* as aborted.
HandleConnectTimeout ==
    /\ timer = "due" /\ stage \in {"resolve", "connect"}
    /\ timer' = "off"
    /\ Terminate(TRUE)
    /\ UNCHANGED <<ops, stale, outVars, peerVars>>

\* handle_open_handshake_timeout and handle_close_handshake_timeout, of the
\* connection's timer or of one it no longer points to.
HandleHandshakeTimeout ==
    /\ \/ /\ timer = "due" /\ stage \notin {"resolve", "connect"}
          /\ timer' = "off" /\ UNCHANGED stale
       \/ "due" \in stale /\ timer' = "off" /\ stale' = Lost \ {"due"}
    /\ Terminate(TRUE)
    /\ UNCHANGED <<ops, outVars, peerVars>>

\* terminate() has shut the socket down; whether an operation on it can
\* then, or because of the server, end with an error.
IsShut == mState = "closed" \/ Contains(told, "fail")
MayBreak == link = "reset" \/ IsShut

HandleSendHttpRequest ==
    /\ "writeRequest" \in ops
    /\ \/ /\ MayBreak
          /\ ops' = ops \ {"writeRequest"} /\ End(TRUE)
       \/ /\ mState = "closed"
          /\ ops' = ops \ {"writeRequest"} /\ UNCHANGED <<lifeVars, timerVars>>
       \/ /\ mState = "connecting" /\ link # "reset"
          /\ stage' = "readResponse"
          /\ ops' = (ops \ {"writeRequest"}) \cup {"readResponse"}
          /\ UNCHANGED <<mState, closeVars, timerVars>>
    /\ UNCHANGED <<outVars, peerVars>>

\* A response in pieces only reads on.  What was read beyond the response
\* waits in "incoming".  A header of extensions that cannot be parsed
\* ("mangle") ends the connection, and the code goes on to open it.
Answered(answer) ==
    /\ mState = "connecting" /\ link # "reset"
    /\ \/ /\ answer = "refuse"
          /\ ops' = ops \ {"readResponse"}
          /\ End(TRUE)
       \/ /\ answer \in {"accept", "mangle"}
          /\ CancelTimer
          /\ stage' = "frames" /\ mState' = "open"
          /\ told' = IF answer = "mangle" THEN <<"fail", "open">> ELSE <<"open">>
          /\ ops' = (ops \ {"readResponse"}) \cup {"read"}
          /\ UNCHANGED <<localCode, wasClean, asked, seen>>

HandleReadHttpResponse ==
    /\ "readResponse" \in ops
    /\ \/ \E answer \in Answers : Answered(answer)
       \/ /\ MayBreak \/ link = "eof"
          /\ ops' = ops \ {"readResponse"}
          /\ End(TRUE)
       \/ /\ mState = "closed"
          /\ ops' = ops \ {"readResponse"}
          /\ UNCHANGED <<lifeVars, timerVars>>
    /\ UNCHANGED <<outVars, peerVars>>

----------------------------------------------------------------------------
(* Writing. *)

\* A code below 1000 or reserved, such as that of "abnormal", is refused
\* when it has already become the local one.
AppCodes == {"normal", "policy", "abnormal"}
MayBeSent(code) == code # "abnormal"
IsTerminal(code) == code \in {"policy", "protocol"}

\* Faulty variant: the state is not looked at.
SendAlways ==
    /\ sent < MaxSends /\ Len(sendQueue) < MaxQueue
    /\ sent' = sent + 1
    /\ Push(Text(sent + 1))
    /\ UNCHANGED <<lifeVars, ops, timerVars, peerVars>>

Send ==
    /\ mState = "open"
    /\ sent < MaxSends /\ Len(sendQueue) < MaxQueue
    /\ sent' = sent + 1
    /\ Push(Text(sent + 1))
    /\ UNCHANGED <<lifeVars, ops, timerVars, peerVars>>

CloseConnection(code) ==
    /\ mState = "open" /\ Len(sendQueue) < MaxQueue
    /\ \/ /\ MayBeSent(code)
          /\ SendCloseFrame(code, FALSE, IsTerminal(code))
          /\ asked' = (code = "normal")
       \/ /\ ~MayBeSent(code)
          /\ localCode' = code
          /\ UNCHANGED <<mState, stage, told, wasClean, asked, seen, timerVars, outVars>>
    /\ UNCHANGED <<ops, peerVars>>

\* write_frame takes all that waits, up to a terminal frame.
IsBatch(n) ==
    /\ \A i \in 1..n - 1 : ~sendQueue[i].terminal
    /\ n = Len(sendQueue) \/ sendQueue[n].terminal

TakeBatch ==
    \E n \in 1..Len(sendQueue) :
        /\ IsBatch(n)
        /\ current' = SubSeq(sendQueue, 1, n)
        /\ sendQueue' = SubSeq(sendQueue, n + 1, Len(sendQueue))

\* Faulty variant: a write under way is not looked at.
WriteFrameAgain ==
    /\ posted > 0
    /\ posted' = posted - 1
    /\ TakeBatch
    /\ writeFlag' = TRUE
    /\ ops' = ops \cup {"write"}
    /\ UNCHANGED <<lifeVars, timerVars, sent, wire, peerVars>>

WriteFrame ==
    /\ posted > 0
    /\ posted' = posted - 1
    /\ \/ /\ ~writeFlag /\ TakeBatch
          /\ writeFlag' = TRUE
          /\ ops' = ops \cup {"write"}
       \/ /\ writeFlag \/ sendQueue = <<>>
          /\ UNCHANGED <<current, sendQueue, writeFlag, ops>>
    /\ UNCHANGED <<lifeVars, timerVars, sent, wire, peerVars>>

\* Faulty variant: what was queued during the write is not posted.
HandleWriteFrameForgets ==
    /\ "write" \in ops /\ link # "reset"
    /\ ops' = ops \ {"write"}
    /\ current' = <<>>
    /\ wire' = wire \o current
    /\ writeFlag' = FALSE
    /\ UNCHANGED <<lifeVars, timerVars, sendQueue, posted, sent, peerVars>>

\* After an error or a terminal frame the write flag stays set.
HandleWriteFrame ==
    /\ "write" \in ops
    /\ ops' = ops \ {"write"}
    /\ current' = <<>>
    /\ \/ /\ MayBreak
          /\ End(TRUE)
          /\ UNCHANGED <<wire, writeFlag, posted>>
       \/ /\ link # "reset"
          /\ wire' = wire \o current
          /\ IF Last(current).terminal
               THEN End(FALSE) /\ UNCHANGED <<writeFlag, posted>>
               ELSE /\ writeFlag' = FALSE
                    /\ posted' = IF sendQueue = <<>> THEN posted ELSE posted + 1
                    /\ UNCHANGED <<lifeVars, timerVars>>
    /\ UNCHANGED <<sendQueue, sent, peerVars>>

----------------------------------------------------------------------------
(* Reading.  One frame is read at a time: the loop of handle_read_frame over *)
(* what one read has brought does the same without a pause.                 *)

frameVars == <<mState, timer, stale, localCode, wasClean, told, seen, asked, outVars>>

\* Faulty variant: a close frame without a code is answered as it is.
AckCodeAsReceived(code) == code

\* The code the acknowledgement of a close frame carries.
AckCode(code) == IF code = "noStatus" THEN "normal" ELSE code

\* process_control_frame.
ProcessClose(code) ==
    \/ mState = "closed" /\ UNCHANGED frameVars
    \/ /\ mState \in {"open", "closing"} /\ code = "invalid"
       /\ SendCloseFrame("protocol", TRUE, FALSE)
       /\ UNCHANGED asked
    \/ /\ mState = "open" /\ code # "invalid"
       /\ SendCloseFrame(AckCode(code), TRUE, FALSE)
       /\ asked' = (AckCode(code) = "normal")
    \/ /\ mState = "closing" /\ code # "invalid"
       /\ wasClean' = TRUE
       /\ UNCHANGED <<mState, timer, stale, localCode, told, seen, asked, outVars>>

ProcessPing ==
    \/ mState # "open" /\ UNCHANGED frameVars
    \/ /\ mState = "open"
       /\ Push(Pong)
       /\ UNCHANGED <<mState, timer, stale, localCode, wasClean, told, seen, asked, sent>>

Answer(frame) ==
    \/ frame.op = "text" /\ UNCHANGED frameVars
    \/ frame.op = "ping" /\ ProcessPing
    \/ frame.op = "close" /\ ProcessClose(frame.code)

\* consume() has refused a frame: nothing is read any more.
Refuse ==
    \/ /\ mState = "open"
       /\ SendCloseFrame("protocol", FALSE, TRUE)
       /\ UNCHANGED asked
    \/ /\ mState # "open"
       /\ End(TRUE)
       /\ UNCHANGED outVars

HandleReadFrame ==
    /\ "read" \in ops /\ incoming # <<>> /\ link # "reset"
    /\ Len(sendQueue) < MaxQueue
    /\ incoming' = Tail(incoming)
    /\ \/ Head(incoming).op # "bad" /\ Answer(Head(incoming)) /\ UNCHANGED <<stage, ops>>
       \/ Head(incoming).op = "bad" /\ Refuse /\ ops' = ops \ {"read"} /\ UNCHANGED stage
    /\ UNCHANGED <<arrived, link>>

\* The end of the stream is what a client that is closing waits for.
HandleReadEnd ==
    /\ "read" \in ops
    /\ ops' = ops \ {"read"}
    /\ \/ /\ mState = "closed"
          /\ UNCHANGED <<lifeVars, timerVars>>
       \/ /\ mState # "closed" /\ incoming = <<>> /\ (link = "eof" \/ IsShut)
          /\ End(mState # "closing")
       \/ /\ link = "reset"
          /\ End(TRUE)
    /\ UNCHANGED <<outVars, peerVars>>

----------------------------------------------------------------------------
(* The server. *)

ServerSends ==
    /\ stage = "frames" /\ link = "up" /\ arrived < MaxFrames
    /\ \E frame \in ServerFrames : incoming' = Append(incoming, frame)
    /\ arrived' = arrived + 1
    /\ UNCHANGED <<lifeVars, ops, timerVars, outVars, link>>

ServerLeaves ==
    /\ stage \in {"writeRequest", "readResponse", "frames"} /\ link = "up"
    /\ link' \in {"eof", "reset"}
    /\ UNCHANGED <<lifeVars, ops, timerVars, outVars, incoming, arrived>>

----------------------------------------------------------------------------
Handler ==
    \/ HandleResolve \/ HandleConnect
    \/ HandleConnectTimeout \/ HandleHandshakeTimeout
    \/ HandleSendHttpRequest \/ HandleReadHttpResponse
    \/ WriteFrame \/ HandleWriteFrame
    \/ HandleReadFrame \/ HandleReadEnd

Next ==
    \/ Connect
    \/ Send
    \/ \E code \in AppCodes : CloseConnection(code)
    \/ TimerExpires
    \/ Handler
    \/ ServerSends
    \/ ServerLeaves

Spec == Init /\ [][Next]_vars

\* Timers expire and their handlers run; so do a write that is posted and
\* what the end of the stream completes.  Nothing is expected of the server
\* or of the network.
FairSpec ==
    /\ Spec
    /\ WF_vars(TimerExpires)
    /\ WF_vars(HandleConnectTimeout)
    /\ WF_vars(HandleHandshakeTimeout)
    /\ WF_vars(WriteFrame)

----------------------------------------------------------------------------
(* Properties. *)

Frames == {Text(n) : n \in 1..MaxSends} \cup {Pong, Close(TRUE), Close(FALSE)}

\* Type invariant of connection<config> and of what surrounds it.
WebSocketTypeOK ==
    /\ mState \in {"connecting", "open", "closing", "closed"}
    /\ stage \in {"init", "resolve", "connect", "writeRequest", "readResponse", "frames"}
    /\ told \in Seq({"open", "fail", "close"})
    /\ localCode \in {"normal", "goingAway", "protocol", "policy", "abnormal"}
    /\ seen \in {"none", "normal", "goingAway", "protocol", "policy", "abnormal"}
    /\ wasClean \in BOOLEAN /\ asked \in BOOLEAN
    /\ ops \subseteq OpNames
    /\ timer \in TimerStates /\ stale \subseteq {"running", "due"}
    /\ sendQueue \in Seq(Frames) /\ current \in Seq(Frames) /\ wire \in Seq(Frames)
    /\ writeFlag \in BOOLEAN /\ posted \in Nat
    /\ sent \in 0..MaxSends
    /\ incoming \in Seq(ServerFrames) /\ arrived \in Nat
    /\ link \in {"up", "eof", "reset"}

\* Once a close frame is on its way the client writes no message and no pong
\* behind it (send, pong and close look at m_state; send_close_frame sets it).
NothingAfterClose ==
    LET out == wire \o current \o sendQueue
    IN  \A i, j \in 1..Len(out) : i < j /\ out[i].op = "close" => out[j].op = "close"

\* What reaches the server is a prefix of the messages send() accepted, each
\* one once and in their order: a message comes after all that are older and
\* the one before it is there (write_frame, handle_write_frame, m_write_flag).
SentInOrder ==
    \A i \in 1..Len(wire) : wire[i].op = "text" =>
        /\ \A j \in 1..i - 1 : wire[j].op = "text" => wire[j].id < wire[i].id
        /\ wire[i].id > 1 => \E j \in 1..i - 1 : wire[j] = Text(wire[i].id - 1)

\* A frame that waits to be written is not forgotten: the queue empties, the
\* connection ends, or a write never comes back (write_frame is posted by
\* send and again by handle_write_frame).
QueueDrains == []<>(sendQueue = <<>> \/ mState = "closed") \/ <>[]("write" \in ops)

\* connection_impl.hpp: "kill all connections that fail extension negotiation".
KilledWhenRefused == Contains(told, "fail") => mState = "closed"

\* The session as its user sees it.
phase ==
    IF told = <<>> THEN IF stage = "init" THEN "idle" ELSE "connecting"
    ELSE CASE Last(told) = "fail" -> "failed"
           [] Last(told) = "close" -> "closed"
           [] OTHER -> mState

Session == INSTANCE WsSession

\* The connection implements the session: handlers at most once and in order,
\* no attempt and no closing for ever, "normal" only when asked for.
ImplementsSession == Session!Spec

=============================================================================
