---------------------------- MODULE SioConnection ----------------------------
(***************************************************************************)
(* How the socket.io client (sio_client_impl.cpp) opens, loses, retries    *)
(* and closes its connection.  Two threads run: the user's, in connect(),  *)
(* close() and sync_close(), and the network thread, which runs the        *)
(* io_service.  They share m_con_state and m_abort_retries without a lock, *)
(* so each access is a step of its own.  A connection of websocketpp is    *)
(* used as WsSession describes it.                                         *)
(***************************************************************************)
EXTENDS Naturals, Sequences

CONSTANTS
    MaxSessions,    \* bound on the connections made
    MaxCalls,       \* bound on the calls of the user
    Attempts,       \* m_reconn_attempts
    PromptUser      \* TRUE: no call of close() lasts as long as the delay of a retry

ASSUME SioConnectionAssumption ==
    /\ MaxSessions \in Nat
    /\ MaxCalls \in Nat
    /\ Attempts \in Nat
    /\ PromptUser \in BOOLEAN

VARIABLES
    conState,   \* m_con_state
    abort,      \* m_abort_retries
    con,        \* the session m_con leads to, 0 when expired
    made,       \* m_reconn_made
    reconn,     \* m_reconn_timer
    stray,      \* a handler of a cancelled m_reconn_timer is still queued
    ping,       \* m_ping_timeout_timer
    strayPing,  \* the same of m_ping_timeout_timer
    thread,     \* m_network_thread: "none", "running" or "done"
    ioQueue,    \* functions dispatched to the io_service
    net,        \* where the network thread is in a handler
    user,       \* where the user's thread is in a call
    calls,      \* calls of the user so far
    begun,      \* sessions made
    phase, asked, seen,     \* of each session, as in WsSession
    closed,     \* history: close_impl has run for the user's last call
    early,      \* history: close() was called when the client was not opened
    missed,     \* history: a late ping timeout has cancelled a retry
    crashed     \* an exception has left the network thread

stateVars == <<conState, abort, con, made>>
timerVars == <<reconn, stray, ping, strayPing>>
loopVars == <<thread, ioQueue>>
userVars == <<user, calls>>
wsVars == <<begun, phase, asked, seen>>
endVars == <<closed, early, missed, crashed>>
vars == <<stateVars, timerVars, loopVars, net, userVars, wsVars, endVars>>

Sessions == 1..MaxSessions
TimerStates == {"off", "running", "due"}
Live == {"connecting", "open", "closing"}

\* Where the network thread is, and in a handler for which session.
NetAt == {"idle", "onFail", "failing", "onOpen", "opening", "onClose", "closing",
          "closingNormally", "arming", "retrying"}
Idle == [at |-> "idle", s |-> 0]
At(step) == net' = [net EXCEPT !.at = step]

UserAt == {"idle", "connecting", "joinClosed", "joinClosing", "starting",
           "closing", "posting", "syncClosing", "syncPosting", "syncJoin"}

Init ==
    /\ conState = "closed" /\ abort = FALSE /\ con = 0 /\ made = 0
    /\ reconn = "off" /\ stray = FALSE /\ ping = "off" /\ strayPing = FALSE
    /\ thread = "none" /\ ioQueue = <<>>
    /\ net = Idle /\ user = "idle" /\ calls = 0
    /\ begun = 0
    /\ phase = [s \in Sessions |-> "idle"]
    /\ asked = [s \in Sessions |-> FALSE]
    /\ seen = [s \in Sessions |-> "none"]
    /\ closed = FALSE /\ early = FALSE /\ missed = FALSE /\ crashed = FALSE

----------------------------------------------------------------------------
(* Steps shared by several functions. *)

\* A handler that is already queued is not cancelled.
CancelReconn ==
    /\ reconn' = "off"
    /\ stray' = (stray \/ reconn = "due")

Open == {s \in Sessions : phase[s] = "open"}

\* close_impl: the session is closed if m_con leads to one that is open.  A
\* code that may not be sent does nothing (WebSocket!CloseConnection).
CloseSession(code) ==
    \/ /\ con \in Open /\ code # "abnormal"
       /\ phase' = [phase EXCEPT ![con] = "closing"]
       /\ asked' = [asked EXCEPT ![con] = (code = "normal")]
    \/ /\ con \notin Open \/ code = "abnormal"
       /\ UNCHANGED <<phase, asked>>

\* Faulty variant: a retry that is waiting is left.
CloseImplKeepsTimer(code) ==
    /\ CloseSession(code)
    /\ UNCHANGED <<reconn, stray, begun, seen>>

CloseImpl(code) ==
    /\ CancelReconn
    /\ CloseSession(code)
    /\ UNCHANGED <<begun, seen>>

\* connect_impl, for an address that is valid.
ConnectImpl ==
    /\ begun' = begun + 1
    /\ phase' = [phase EXCEPT ![begun + 1] = "connecting"]
    /\ UNCHANGED <<asked, seen>>

----------------------------------------------------------------------------
(* The user's thread. *)

MayCall == user = "idle" /\ calls < MaxCalls /\ ~crashed

\* connect() first cancels a retry that is waiting.
CallConnect ==
    /\ MayCall
    /\ calls' = calls + 1
    /\ CancelReconn
    /\ user' = "connecting"
    /\ UNCHANGED <<stateVars, ping, strayPing, loopVars, net, wsVars, endVars>>

\* Faulty variant: the thread of the last connection is not waited for.
ConnectWithoutJoin ==
    /\ user = "connecting"
    /\ user' = IF thread = "none" \/ conState \in {"closing", "closed"} THEN "starting" ELSE "idle"
    /\ UNCHANGED <<stateVars, timerVars, loopVars, net, calls, wsVars, endVars>>

ConnectLooks ==
    /\ user = "connecting"
    /\ user' = CASE thread = "none" -> "starting"
                 [] conState = "closing" -> "joinClosing"
                 [] conState = "closed" -> "joinClosed"
                 [] OTHER -> "idle"
    /\ UNCHANGED <<stateVars, timerVars, loopVars, net, calls, wsVars, endVars>>

Joined ==
    /\ user \in {"joinClosed", "joinClosing", "syncJoin"}
    /\ thread \in {"none", "done"}
    /\ thread' = "none"
    /\ user' = IF user = "syncJoin" THEN "idle" ELSE "starting"
    /\ UNCHANGED <<stateVars, timerVars, ioQueue, net, calls, wsVars, endVars>>

\* The rest of connect(): no network thread runs.
ConnectStarts ==
    /\ user = "starting" /\ begun < MaxSessions
    /\ conState' = "opening"
    /\ made' = 0
    /\ abort' = FALSE
    /\ ioQueue' = Append(ioQueue, "connect")
    /\ thread' = "running"
    /\ user' = "idle"
    /\ closed' = FALSE
    /\ UNCHANGED <<con, timerVars, net, calls, wsVars, early, missed, crashed>>

\* close() and sync_close(), whose steps are the same up to the join.
CallClose(first) ==
    /\ MayCall
    /\ calls' = calls + 1
    /\ conState' = "closing"
    /\ early' = (early \/ conState # "opened")
    /\ user' = first
    /\ UNCHANGED <<abort, con, made, timerVars, loopVars, net, wsVars, closed, missed, crashed>>

CloseAborts ==
    /\ user \in {"closing", "syncClosing"}
    /\ abort' = TRUE
    /\ user' = IF user = "closing" THEN "posting" ELSE "syncPosting"
    /\ UNCHANGED <<conState, con, made, timerVars, loopVars, net, calls, wsVars, endVars>>

ClosePosts ==
    /\ user \in {"posting", "syncPosting"}
    /\ ioQueue' = Append(ioQueue, "close")
    /\ user' = IF user = "posting" THEN "idle" ELSE "syncJoin"
    /\ UNCHANGED <<stateVars, timerVars, thread, net, calls, wsVars, endVars>>

----------------------------------------------------------------------------
(* The network thread: the io_service and what it calls. *)

NetFree == thread = "running" /\ net = Idle /\ ~crashed

RunPosted ==
    /\ NetFree /\ ioQueue # <<>>
    /\ ioQueue' = Tail(ioQueue)
    /\ \/ /\ Head(ioQueue) = "connect"
          /\ ConnectImpl
          /\ UNCHANGED <<timerVars, closed>>
       \/ /\ Head(ioQueue) = "close"
          /\ CloseImpl("normal")
          /\ closed' = (Tail(ioQueue) = <<>>)
          /\ UNCHANGED <<ping, strayPing>>
    /\ UNCHANGED <<stateVars, thread, net, userVars, early, missed, crashed>>

\* run() returns when nothing is left to wait for.
RunLoopEnds ==
    /\ NetFree /\ ioQueue = <<>>
    /\ reconn = "off" /\ ping = "off" /\ ~stray /\ ~strayPing
    /\ \A s \in Sessions : phase[s] \notin Live
    /\ thread' = "done"
    /\ UNCHANGED <<stateVars, timerVars, ioQueue, net, userVars, wsVars, endVars>>

\* close() called by a handler: its close_impl runs at once.
CloseFromHandler ==
    /\ conState' = "closing"
    /\ abort' = TRUE
    /\ CloseImpl("normal")
    /\ net' = Idle
    /\ UNCHANGED <<con, made, ping, strayPing>>

(* on_fail *)

SessionFails ==
    /\ NetFree
    /\ \E s \in Sessions :
        /\ phase[s] = "connecting"
        /\ phase' = [phase EXCEPT ![s] = "failed"]
        /\ net' = [at |-> "onFail", s |-> s]
    /\ UNCHANGED <<stateVars, timerVars, loopVars, userVars, begun, asked, seen, endVars>>

OnFail ==
    /\ net.at = "onFail"
    /\ \/ conState = "closing" /\ CloseFromHandler
       \/ conState # "closing" /\ At("failing") /\ UNCHANGED <<stateVars, timerVars, wsVars>>
    /\ UNCHANGED <<loopVars, userVars, endVars>>

Failing ==
    /\ net.at = "failing"
    /\ con' = 0
    /\ conState' = "closed"
    /\ At("arming")
    /\ UNCHANGED <<abort, made, timerVars, loopVars, userVars, wsVars, endVars>>

\* The end of on_fail and of on_close.  At the bound no retry is armed.
MayRetry == made < Attempts /\ ~abort /\ begun < MaxSessions

\* Faulty variant: the attempt is counted here as well.
ArmingCounts ==
    /\ net.at = "arming"
    /\ net' = Idle
    /\ \/ MayRetry /\ reconn' = "running" /\ made' = made + 1
       \/ ~MayRetry /\ UNCHANGED <<reconn, made>>
    /\ UNCHANGED <<conState, abort, con, stray, ping, strayPing, loopVars, userVars, wsVars, endVars>>

\* Faulty variant: no timer is set.
ArmingNothing ==
    /\ net.at = "arming"
    /\ net' = Idle
    /\ UNCHANGED <<stateVars, timerVars, loopVars, userVars, wsVars, endVars>>

Arming ==
    /\ net.at = "arming"
    /\ net' = Idle
    /\ \/ MayRetry /\ reconn' = "running" /\ stray' = (stray \/ reconn = "due")
       \/ ~MayRetry /\ UNCHANGED <<reconn, stray>>
    /\ UNCHANGED <<stateVars, ping, strayPing, loopVars, userVars, wsVars, endVars>>

(* on_open *)

SessionOpens ==
    /\ NetFree
    /\ \E s \in Sessions :
        /\ phase[s] = "connecting"
        /\ phase' = [phase EXCEPT ![s] = "open"]
        /\ net' = [at |-> "onOpen", s |-> s]
    /\ UNCHANGED <<stateVars, timerVars, loopVars, userVars, begun, asked, seen, endVars>>

OnOpen ==
    /\ net.at = "onOpen"
    /\ \/ conState = "closing" /\ CloseFromHandler
       \/ conState # "closing" /\ At("opening") /\ UNCHANGED <<stateVars, timerVars, wsVars>>
    /\ UNCHANGED <<loopVars, userVars, endVars>>

\* Faulty variant: m_con is not set.
OpeningForgetsCon ==
    /\ net.at = "opening"
    /\ conState' = "opened"
    /\ made' = 0
    /\ net' = Idle
    /\ UNCHANGED <<con, abort, timerVars, loopVars, userVars, wsVars, endVars>>

Opening ==
    /\ net.at = "opening"
    /\ conState' = "opened"
    /\ con' = net.s
    /\ made' = 0
    /\ net' = Idle
    /\ UNCHANGED <<abort, timerVars, loopVars, userVars, wsVars, endVars>>

(* on_close *)

\* The server's close frame.
ServerCloses ==
    /\ NetFree
    /\ \E s \in Sessions :
        /\ phase[s] = "open"
        /\ phase' = [phase EXCEPT ![s] = "closing"]
        /\ \E normal \in BOOLEAN : asked' = [asked EXCEPT ![s] = normal]
    /\ UNCHANGED <<stateVars, timerVars, loopVars, net, userVars, begun, seen, endVars>>

\* The codes are told apart as far as on_close does.
SessionEnds ==
    /\ NetFree
    /\ \E s \in Sessions, code \in {"normal", "abnormal"} :
        /\ phase[s] \in {"open", "closing"}
        /\ code = "normal" => asked[s]
        /\ phase' = [phase EXCEPT ![s] = "closed"]
        /\ seen' = [seen EXCEPT ![s] = code]
        /\ net' = [at |-> "onClose", s |-> s]
    /\ UNCHANGED <<stateVars, timerVars, loopVars, userVars, begun, asked, endVars>>

\* Faulty variant: every end is taken for a drop.
OnCloseIgnoresCode ==
    /\ net.at = "onClose"
    /\ At(IF conState = "closing" THEN "closingNormally" ELSE "closing")
    /\ UNCHANGED <<stateVars, timerVars, loopVars, userVars, wsVars, endVars>>

OnClose ==
    /\ net.at = "onClose"
    /\ At(IF seen[net.s] = "normal" \/ conState = "closing" THEN "closingNormally" ELSE "closing")
    /\ UNCHANGED <<stateVars, timerVars, loopVars, userVars, wsVars, endVars>>

\* Faulty variant: m_con_state is left.
ClosingKeepsState ==
    /\ net.at \in {"closing", "closingNormally"}
    /\ con' = 0
    /\ ping' = "off" /\ strayPing' = (strayPing \/ ping = "due")
    /\ net' = IF net.at = "closing" THEN [net EXCEPT !.at = "arming"] ELSE Idle
    /\ UNCHANGED <<conState, abort, made, reconn, stray, loopVars, userVars, wsVars, endVars>>

Closing ==
    /\ net.at \in {"closing", "closingNormally"}
    /\ conState' = "closed"
    /\ con' = 0
    /\ ping' = "off" /\ strayPing' = (strayPing \/ ping = "due")
    /\ net' = IF net.at = "closing" THEN [net EXCEPT !.at = "arming"] ELSE Idle
    /\ UNCHANGED <<abort, made, reconn, stray, loopVars, userVars, wsVars, endVars>>

(* Timers *)

\* The delay of a retry, five seconds or more, against a call of close() and
\* what it has dispatched.
Prompt ==
    PromptUser =>
        /\ user \notin {"closing", "posting", "syncClosing", "syncPosting"}
        /\ ioQueue = <<>>

TimerExpires ==
    /\ thread = "running" /\ ~crashed
    /\ \/ reconn = "running" /\ Prompt
          /\ reconn' = "due" /\ UNCHANGED ping
       \/ ping = "running" /\ ping' = "due" /\ UNCHANGED reconn
    /\ UNCHANGED <<stateVars, stray, strayPing, loopVars, net, userVars, wsVars, endVars>>

\* Faulty variant: a second call of the handler is not noticed.
TimeoutReconnectAlways ==
    /\ NetFree
    /\ \/ reconn = "due" /\ reconn' = "off" /\ UNCHANGED stray
       \/ stray /\ stray' = FALSE /\ UNCHANGED reconn
    /\ At("retrying")
    /\ UNCHANGED <<stateVars, ping, strayPing, loopVars, userVars, wsVars, endVars>>

\* timeout_reconnect, called by the timer or in spite of its being cancelled.
TimeoutReconnect ==
    /\ NetFree
    /\ \/ reconn = "due" /\ reconn' = "off" /\ UNCHANGED stray
       \/ stray /\ stray' = FALSE /\ UNCHANGED reconn
    /\ \/ conState = "closed" /\ At("retrying")
       \/ conState # "closed" /\ UNCHANGED net
    /\ UNCHANGED <<stateVars, ping, strayPing, loopVars, userVars, wsVars, endVars>>

Retrying ==
    /\ net.at = "retrying"
    /\ begun < MaxSessions
    /\ conState' = "opening"
    /\ made' = made + 1
    /\ ConnectImpl
    /\ net' = Idle
    /\ UNCHANGED <<abort, con, timerVars, loopVars, userVars, endVars>>

\* timeout_ping, called by the timer or in spite of its being cancelled.  Its
\* close_impl cancels m_reconn_timer whatever that is for.
TimeoutPing ==
    /\ NetFree
    /\ \/ ping = "due" /\ ping' = "off" /\ UNCHANGED strayPing
       \/ strayPing /\ strayPing' = FALSE /\ UNCHANGED ping
    /\ missed' = (missed \/ reconn = "running")
    /\ CloseImpl("policy")
    /\ UNCHANGED <<stateVars, loopVars, net, userVars, closed, early, crashed>>

(* Packets of engine.io; only an open session delivers them. *)

\* Setting the timer again does not cancel a handler that is queued.
UpdatePingTimer ==
    /\ ping' = "running"
    /\ strayPing' = (strayPing \/ ping = "due")

OnHandshake ==
    /\ NetFree /\ Open # {}
    /\ \/ UpdatePingTimer /\ UNCHANGED <<reconn, stray, wsVars>>
       \/ CloseImpl("policy") /\ UNCHANGED <<ping, strayPing>>
    /\ UNCHANGED <<stateVars, loopVars, net, userVars, endVars>>

\* send() without an error code throws when m_con leads to nothing, and
\* nobody catches it on this thread.
OnPing ==
    /\ NetFree /\ Open # {}
    /\ \/ con # 0 /\ UpdatePingTimer /\ UNCHANGED crashed
       \/ con = 0 /\ crashed' = TRUE /\ UNCHANGED <<ping, strayPing>>
    /\ UNCHANGED <<stateVars, reconn, stray, loopVars, net, userVars, wsVars, closed, early, missed>>

\* The code 1006 of "End by server" may not be sent.
OnClosePacket ==
    /\ NetFree /\ Open # {}
    /\ CloseImpl("abnormal")
    /\ UNCHANGED <<stateVars, ping, strayPing, loopVars, net, userVars, endVars>>

----------------------------------------------------------------------------
User ==
    \/ ConnectLooks \/ Joined \/ ConnectStarts
    \/ CloseAborts \/ ClosePosts

Handler ==
    \/ OnFail \/ Failing \/ Arming
    \/ OnOpen \/ Opening
    \/ OnClose \/ Closing
    \/ Retrying

Loop == RunPosted \/ RunLoopEnds \/ TimeoutReconnect \/ TimeoutPing

Session == SessionOpens \/ SessionFails \/ ServerCloses \/ SessionEnds

Packet == OnHandshake \/ OnPing \/ OnClosePacket

Next ==
    \/ CallConnect
    \/ \E first \in {"closing", "syncClosing"} : CallClose(first)
    \/ User
    \/ Handler
    \/ Loop
    \/ TimerExpires
    \/ Session
    \/ Packet

Spec == Init /\ [][Next]_vars

\* Both threads go on, queued handlers run, timers expire, and sessions do
\* what WsSession promises; no call, no packet and no end of an open session
\* is expected.
FairSpec ==
    /\ Spec
    /\ WF_vars(User)
    /\ WF_vars(Handler)
    /\ WF_vars(RunPosted)
    /\ WF_vars(RunLoopEnds)
    /\ SF_vars(TimeoutReconnect)
    /\ SF_vars(TimeoutPing)
    /\ WF_vars(TimerExpires)
    /\ SF_vars(SessionOpens \/ SessionFails)
    /\ SF_vars((\E s \in Sessions : phase[s] = "closing") /\ SessionEnds)

----------------------------------------------------------------------------
(* Properties. *)

\* Type invariant of client_impl.
SioConnectionTypeOK ==
    /\ conState \in {"closed", "opening", "opened", "closing"}
    /\ abort \in BOOLEAN
    /\ closed \in BOOLEAN /\ early \in BOOLEAN /\ missed \in BOOLEAN /\ crashed \in BOOLEAN
    /\ con \in 0..MaxSessions
    /\ begun \in 0..MaxSessions
    /\ made \in 0..Attempts
    /\ reconn \in TimerStates /\ ping \in TimerStates
    /\ stray \in BOOLEAN /\ strayPing \in BOOLEAN
    /\ thread \in {"none", "running", "done"}
    /\ ioQueue \in Seq({"connect", "close"})
    /\ net \in [at : NetAt, s : 0..MaxSessions]
    /\ user \in UserAt
    /\ calls \in 0..MaxCalls
    /\ phase \in [Sessions -> Live \cup {"idle", "failed", "closed"}]
    /\ asked \in [Sessions -> BOOLEAN]
    /\ seen \in [Sessions -> {"none", "normal", "abnormal"}]

\* connect(), retries and close(), called and fired in any order, never have
\* two connections at a time (the join in connect(), timeout_reconnect).
OneSession ==
    \A s, t \in Sessions : phase[s] \in Live /\ phase[t] \in Live => s = t

\* A client that calls itself opened has a connection that is not over, or
\* its close handler is just being called (on_open, on_close).
OpenedHasSession ==
    conState = "opened" =>
        /\ con # 0
        /\ phase[con] \in {"open", "closing"} \/ net \in [at : {"onClose", "closing", "closingNormally"}, s : {con}]

\* The answer to a ping finds its connection, so no exception ends the
\* network thread, unless close() was called too early (on_ping sends through
\* m_con, which on_open sets).
PingFindsSession == crashed => early

\* When close() has done its work no connection is made until connect() is
\* called again: no retry slips through (close_impl, timeout_reconnect).
NoSessionAfterClose == [][closed /\ closed' => begun' = begun]_vars

\* When close_impl has run for the user's last call, the network thread, which
\* sync_close() joins, comes to its end, if the client was opened: a close()
\* that comes in any handler, in the end of the connection or before a retry
\* is not lost (close, close_impl, on_close).
ClosingEndsUnlessEarly == closed ~> (thread # "running" \/ ~closed \/ early)

\* A connection that fails or drops is retried as long as attempts are left
\* and nobody closes, unless the retry was cancelled by a ping timeout that
\* came late (on_fail, on_close, timeout_reconnect, timeout_ping).
DropIsRetried ==
    \A s \in Sessions :
        (phase[s] = "failed" \/ (phase[s] = "closed" /\ seen[s] # "normal"))
            ~> \/ begun > s
               \/ abort \/ user # "idle"
               \/ made >= Attempts \/ begun = MaxSessions
               \/ missed \/ crashed

\* A connection that ended normally, asked for by this side or by the server,
\* is followed by another only through connect(): nothing that is still armed,
\* queued or under way when its close handler runs, on either thread, makes
\* one (on_close, connect, timeout_reconnect, close_impl).
NormalEndIsFinal ==
    [][(begun' # begun /\ begun > 0 /\ seen[begun] = "normal") =>
          ioQueue # <<>> /\ Head(ioQueue) = "connect" /\ ioQueue' = Tail(ioQueue)]_vars

=============================================================================
