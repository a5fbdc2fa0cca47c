------------------------- MODULE SioConnectionProofs -------------------------
(* The socket.io client never has two connections, for any number of calls,  *)
(* connections and attempts and whatever the two threads interleave.         *)
EXTENDS SioConnection, TLAPS

\* There is at most one thing that is a connection or can become one: a call
\* of connect() that may start, a "connect" in the queue of the io_service, a
\* live session, a handler of a session that has just ended, a timer armed for
\* a retry (or its handler, queued before it was cancelled), or that handler.
Posted == \E i \in 1..Len(ioQueue) : ioQueue[i] = "connect"
NoneLive == \A s \in Sessions : phase[s] \notin Live
Quiet == reconn = "off" /\ ~stray
Ending == {"onFail", "failing", "onClose", "closing", "closingNormally", "arming"}

StartAlone == user = "starting" => thread = "none"
StoppedIsQuiet == thread # "running" => net = Idle /\ NoneLive /\ Quiet /\ ~Posted
PostedAlone ==
    /\ Posted => net = Idle /\ NoneLive /\ Quiet /\ begun < MaxSessions
    /\ \A i, j \in 1..Len(ioQueue) :
        ioQueue[i] = "connect" /\ ioQueue[j] = "connect" => i = j
EndingAlone == net.at \in Ending \cup {"retrying"} => NoneLive /\ Quiet
RetryAlone ==
    /\ ~Quiet => NoneLive
    /\ reconn # "off" => ~stray
    /\ ~Quiet \/ net.at = "retrying" => made < Attempts

IInv ==
    /\ SioConnectionTypeOK
    /\ StartAlone
    /\ StoppedIsQuiet
    /\ PostedAlone
    /\ EndingAlone
    /\ RetryAlone
    /\ OneSession

LEMMA InitInv == Init => IInv
<1> SUFFICES ASSUME Init PROVE IInv
  OBVIOUS
<1> USE SioConnectionAssumption DEF Init
<1>1. SioConnectionTypeOK
  <2>1. ioQueue \in Seq({"connect", "close"})
    OBVIOUS
  <2>2. net \in [at : NetAt, s : 0..MaxSessions] /\ user \in UserAt
    BY DEF NetAt, UserAt, Idle
  <2>3. /\ phase \in [Sessions -> Live \cup {"idle", "failed", "closed"}]
        /\ asked \in [Sessions -> BOOLEAN]
        /\ seen \in [Sessions -> {"none", "normal", "abnormal"}]
    OBVIOUS
  <2>4. con \in 0..MaxSessions /\ begun \in 0..MaxSessions /\ made \in 0..Attempts
        /\ calls \in 0..MaxCalls
    OBVIOUS
  <2> QED
    BY <2>1, <2>2, <2>3, <2>4 DEF SioConnectionTypeOK, TimerStates
<1>2. ~Posted /\ NoneLive /\ Quiet /\ net = Idle
  BY DEF Posted, NoneLive, Quiet, Live
<1>3. net.at = "idle"
  BY DEF Idle
<1>4. PostedAlone
  BY <1>2 DEF PostedAlone
<1>5. OneSession
  BY <1>2 DEF OneSession, NoneLive
<1> QED
  BY <1>1, <1>2, <1>3, <1>4, <1>5
     DEF IInv, StartAlone, StoppedIsQuiet, EndingAlone, RetryAlone, Ending

\* What the user's thread does with the flags alone.
LEMMA UserInv ==
    ASSUME IInv, CallConnect \/ ConnectLooks \/ Joined \/ CloseAborts
                 \/ \E first \in {"closing", "syncClosing"} : CallClose(first)
    PROVE  IInv'
<1> USE SioConnectionAssumption
        DEF IInv, stateVars, timerVars, loopVars, userVars, wsVars, endVars
<1> USE DEF SioConnectionTypeOK, TimerStates, UserAt
<1> USE DEF StartAlone, StoppedIsQuiet, PostedAlone, EndingAlone, RetryAlone, OneSession,
            Posted, NoneLive, Quiet
<1>1. CASE CallConnect
  BY <1>1 DEF CallConnect, CancelReconn, MayCall
<1>2. CASE ConnectLooks
  BY <1>2 DEF ConnectLooks
<1>3. CASE Joined
  BY <1>3 DEF Joined
<1>4. CASE CloseAborts
  BY <1>4 DEF CloseAborts
<1>5. ASSUME NEW first \in {"closing", "syncClosing"}, CallClose(first) PROVE IInv'
  BY <1>5 DEF CallClose, MayCall
<1> QED
  BY <1>1, <1>2, <1>3, <1>4, <1>5

\* What is appended to the queue of the io_service, and what is taken from it.
LEMMA Appended ==
    ASSUME NEW q \in Seq({"connect", "close"}), NEW e \in {"connect", "close"}
    PROVE  /\ Append(q, e) \in Seq({"connect", "close"})
           /\ Len(Append(q, e)) = Len(q) + 1
           /\ Append(q, e)[Len(q) + 1] = e
           /\ \A i \in 1..Len(q) : Append(q, e)[i] = q[i]
OBVIOUS

LEMMA Taken ==
    ASSUME NEW q \in Seq({"connect", "close"}), q # <<>>
    PROVE  /\ Tail(q) \in Seq({"connect", "close"})
           /\ Len(q) \in Nat \ {0}
           /\ Len(Tail(q)) = Len(q) - 1
           /\ \A i \in 1..Len(q) - 1 : Tail(q)[i] = q[i + 1]
           /\ Head(q) = q[1]
OBVIOUS

\* The user's thread hands "connect" or "close" to the io_service.
LEMMA PostInv ==
    ASSUME IInv, ConnectStarts \/ ClosePosts
    PROVE  IInv'
<1> USE SioConnectionAssumption
        DEF IInv, stateVars, timerVars, loopVars, userVars, wsVars, endVars
<1> USE DEF SioConnectionTypeOK, TimerStates, UserAt
<1> USE DEF StartAlone, StoppedIsQuiet, PostedAlone, EndingAlone, RetryAlone, OneSession,
            Posted, NoneLive, Quiet
<1>1. CASE ConnectStarts
  <2>1. ~Posted /\ NoneLive /\ Quiet /\ net = Idle
    BY <1>1 DEF ConnectStarts
  <2>2. SioConnectionTypeOK'
    <3>1. ioQueue' \in Seq({"connect", "close"})
      BY <1>1, Appended DEF ConnectStarts
    <3>2. /\ conState' = "opening" /\ abort' = FALSE /\ closed' = FALSE
          /\ made' = 0 /\ thread' = "running" /\ user' = "idle"
      BY <1>1 DEF ConnectStarts
    <3>3. UNCHANGED <<con, timerVars, net, calls, wsVars, early, missed, crashed>>
      BY <1>1 DEF ConnectStarts
    <3>4. made' \in 0..Attempts
      BY <3>2
    <3> QED
      BY <3>1, <3>2, <3>3, <3>4
  <2>3. PostedAlone'
    BY <1>1, <2>1, Appended DEF ConnectStarts
  <2>4. (StartAlone /\ StoppedIsQuiet /\ EndingAlone /\ RetryAlone /\ OneSession)'
    BY <1>1, <2>1 DEF ConnectStarts, Ending
  <2> QED
    BY <2>2, <2>3, <2>4
<1>2. CASE ClosePosts
  <2>1. Posted' <=> Posted
    BY <1>2, Appended DEF ClosePosts
  <2>2. SioConnectionTypeOK'
    BY <1>2, Appended DEF ClosePosts
  <2>3. PostedAlone'
    <3>1. /\ ioQueue \in Seq({"connect", "close"}) /\ ioQueue' = Append(ioQueue, "close")
          /\ net' = net /\ phase' = phase /\ reconn' = reconn /\ stray' = stray /\ begun' = begun
      BY <1>2 DEF ClosePosts
    <3>2. \A i \in 1..Len(ioQueue') :
            ioQueue'[i] = "connect" => i \in 1..Len(ioQueue) /\ ioQueue[i] = "connect"
      <4>1. /\ Len(ioQueue) \in Nat /\ Len(ioQueue') = Len(ioQueue) + 1
            /\ ioQueue'[Len(ioQueue) + 1] = "close"
            /\ \A i \in 1..Len(ioQueue) : ioQueue'[i] = ioQueue[i]
        BY <3>1, Appended
      <4> QED
        BY <4>1
    <3>3. Posted' => net' = Idle /\ NoneLive' /\ Quiet' /\ begun' < MaxSessions
      BY <2>1, <3>1
    <3>4. \A i, j \in 1..Len(ioQueue') :
            ioQueue'[i] = "connect" /\ ioQueue'[j] = "connect" => i = j
      BY <3>2
    <3> QED
      BY <3>3, <3>4
  <2>4. (StartAlone /\ StoppedIsQuiet /\ EndingAlone /\ RetryAlone /\ OneSession)'
    BY <1>2, <2>1 DEF ClosePosts
  <2> QED
    BY <2>2, <2>3, <2>4
<1> QED
  BY <1>1, <1>2

\* close_impl drops a retry that is waiting and makes no session live.
LEMMA ClosingImpl ==
    ASSUME IInv, NEW code, CloseImpl(code)
    PROVE  /\ reconn' = "off" /\ stray' \in BOOLEAN
           /\ stray' => ~Quiet
           /\ phase' \in [Sessions -> Live \cup {"idle", "failed", "closed"}]
           /\ \A s \in Sessions : phase'[s] \in Live <=> phase[s] \in Live
           /\ asked' \in [Sessions -> BOOLEAN]
           /\ begun' = begun /\ seen' = seen
<1> USE DEF IInv, SioConnectionTypeOK, CloseImpl, CancelReconn, CloseSession, Open, Live, Quiet, Sessions
<1>1. reconn' = "off" /\ stray' \in BOOLEAN /\ (stray' => ~Quiet) /\ begun' = begun /\ seen' = seen
  BY DEF TimerStates
<1>2. phase' \in [Sessions -> Live \cup {"idle", "failed", "closed"}] /\ asked' \in [Sessions -> BOOLEAN]
  OBVIOUS
<1>3. \A s \in Sessions : phase'[s] \in Live <=> phase[s] \in Live
  OBVIOUS
<1> QED
  BY <1>1, <1>2, <1>3

\* A new session is the only one.
LEMMA ConnectingImpl ==
    ASSUME IInv, ConnectImpl, begun < MaxSessions, NoneLive
    PROVE  /\ begun' \in 0..MaxSessions
           /\ phase' \in [Sessions -> Live \cup {"idle", "failed", "closed"}]
           /\ OneSession'
<1> USE SioConnectionAssumption DEF IInv, SioConnectionTypeOK, ConnectImpl, NoneLive, Live, Sessions
<1>1. begun + 1 \in Sessions
  OBVIOUS
<1> QED
  BY <1>1 DEF OneSession

\* The network thread runs what was handed to it, or comes to its end.
LEMMA LoopInv ==
    ASSUME IInv, RunPosted \/ RunLoopEnds
    PROVE  IInv'
<1> USE SioConnectionAssumption
        DEF IInv, stateVars, timerVars, loopVars, userVars, wsVars, endVars
<1> USE DEF SioConnectionTypeOK, TimerStates, UserAt
<1> USE DEF StartAlone, StoppedIsQuiet, PostedAlone, EndingAlone, RetryAlone, OneSession,
            Posted, NoneLive, Quiet
<1>1. CASE RunPosted
  <2>1. ioQueue # <<>> /\ ioQueue' = Tail(ioQueue) /\ net = Idle /\ thread = "running"
    BY <1>1 DEF RunPosted, NetFree
  <2>2. net.at = "idle"
    BY <2>1 DEF Idle
  <2>3. ioQueue' \in Seq({"connect", "close"})
    BY <2>1, Taken
  <2>4. Posted' => Posted
    BY <2>1, Taken
  <2>5. \A i, j \in 1..Len(ioQueue') : ioQueue'[i] = "connect" /\ ioQueue'[j] = "connect" => i = j
    BY <2>1, Taken
  <2>6. CASE Head(ioQueue) = "connect" /\ ConnectImpl
    <3>1. Posted /\ ~Posted'
      BY <2>1, <2>6, Taken
    <3>2. /\ begun' \in 0..MaxSessions
          /\ phase' \in [Sessions -> Live \cup {"idle", "failed", "closed"}]
          /\ OneSession'
      BY <2>6, <3>1, ConnectingImpl
    <3>3. UNCHANGED <<stateVars, timerVars, thread, net, userVars, early, missed, crashed, closed, asked, seen>>
      BY <1>1, <2>1, <2>6 DEF RunPosted, ConnectImpl
    <3>4. SioConnectionTypeOK'
      BY <2>3, <3>2, <3>3
    <3> QED
      BY <2>1, <2>2, <2>5, <3>1, <3>2, <3>3, <3>4 DEF Ending
  <2>7. CASE Head(ioQueue) = "close" /\ CloseImpl("normal")
    <3>1. UNCHANGED <<stateVars, ping, strayPing, thread, net, userVars, early, missed, crashed>>
          /\ closed' \in BOOLEAN
      BY <1>1, <2>1, <2>7 DEF RunPosted
    <3>2. /\ reconn' = "off" /\ stray' \in BOOLEAN
          /\ stray' => ~Quiet
          /\ phase' \in [Sessions -> Live \cup {"idle", "failed", "closed"}]
          /\ \A s \in Sessions : phase'[s] \in Live <=> phase[s] \in Live
          /\ asked' \in [Sessions -> BOOLEAN]
          /\ begun' = begun /\ seen' = seen
      BY <2>7, ClosingImpl
    <3>3. SioConnectionTypeOK'
      BY <2>3, <3>1, <3>2
    <3>4. (StartAlone /\ StoppedIsQuiet)'
      BY <2>1, <3>1, <3>2
    <3>5. PostedAlone'
      BY <2>1, <2>4, <2>5, <3>1, <3>2
    <3>6. (EndingAlone /\ RetryAlone /\ OneSession)'
      BY <2>2, <3>1, <3>2 DEF Ending
    <3> QED
      BY <3>3, <3>4, <3>5, <3>6
  <2> QED
    BY <1>1, <2>6, <2>7 DEF RunPosted
<1>2. CASE RunLoopEnds
  BY <1>2, Taken DEF RunLoopEnds, NetFree
<1> QED
  BY <1>1, <1>2

\* close() in a handler.
LEMMA CloseFromHandlerInv ==
    ASSUME IInv, CloseFromHandler, thread = "running", net.at \in {"onFail", "onOpen"},
           UNCHANGED <<loopVars, userVars, endVars>>
    PROVE  IInv'
<1> USE SioConnectionAssumption
        DEF IInv, stateVars, timerVars, loopVars, userVars, wsVars, endVars
<1> USE DEF SioConnectionTypeOK, TimerStates, UserAt, NetAt
<1> USE DEF StartAlone, StoppedIsQuiet, PostedAlone, EndingAlone, RetryAlone, OneSession,
            Posted, NoneLive, Quiet
<1>1. /\ reconn' = "off" /\ stray' \in BOOLEAN
      /\ stray' => ~Quiet
      /\ phase' \in [Sessions -> Live \cup {"idle", "failed", "closed"}]
      /\ \A s \in Sessions : phase'[s] \in Live <=> phase[s] \in Live
      /\ asked' \in [Sessions -> BOOLEAN]
      /\ begun' = begun /\ seen' = seen
  BY ClosingImpl DEF CloseFromHandler
<1>2. /\ conState' = "closing" /\ abort' = TRUE
      /\ UNCHANGED <<con, made, ping, strayPing>>
  BY DEF CloseFromHandler
<1>3. net' = Idle /\ net'.at = "idle" /\ net' \in [at : NetAt, s : 0..MaxSessions]
  BY DEF CloseFromHandler, Idle
<1>4. ~Posted
  BY DEF Idle
<1>5. SioConnectionTypeOK'
  BY <1>1, <1>2, <1>3
<1>6. (StartAlone /\ StoppedIsQuiet /\ PostedAlone)'
  BY <1>4
<1>7. (EndingAlone /\ RetryAlone /\ OneSession)'
  BY <1>1, <1>2, <1>3 DEF Ending
<1> QED
  BY <1>5, <1>6, <1>7

\* The handlers of the network thread.
LEMMA HandlerInv ==
    ASSUME IInv, Handler
    PROVE  IInv'
<1> USE SioConnectionAssumption
        DEF IInv, stateVars, timerVars, loopVars, userVars, wsVars, endVars
<1> USE DEF SioConnectionTypeOK, TimerStates, UserAt, NetAt
<1> USE DEF StartAlone, StoppedIsQuiet, PostedAlone, EndingAlone, RetryAlone, OneSession,
            Posted, NoneLive, Quiet
<1>1. net.at # "idle" /\ thread = "running" /\ ~Posted
  BY DEF Handler, OnFail, Failing, Arming, OnOpen, Opening, OnClose, Closing, Retrying, Idle
<1>2. ASSUME NEW step \in NetAt, At(step)
      PROVE  net' \in [at : NetAt, s : 0..MaxSessions] /\ net'.at = step
  BY <1>2 DEF At
<1>3. Idle \in [at : NetAt, s : 0..MaxSessions] /\ Idle.at = "idle"
  BY DEF Idle
<1>4. CASE OnFail
  <2>1. CASE CloseFromHandler
    BY <1>1, <1>4, <2>1, CloseFromHandlerInv DEF OnFail
  <2>2. CASE At("failing") /\ UNCHANGED <<stateVars, timerVars, wsVars>>
    BY <1>1, <1>2, <1>4, <2>2 DEF OnFail, Ending
  <2> QED
    BY <1>4, <2>1, <2>2 DEF OnFail
<1>5. CASE Failing
  BY <1>1, <1>2, <1>5 DEF Failing, Ending
<1>6. CASE Arming
  BY <1>1, <1>3, <1>6 DEF Arming, MayRetry, Ending
<1>7. CASE OnOpen
  <2>1. CASE CloseFromHandler
    BY <1>1, <1>7, <2>1, CloseFromHandlerInv DEF OnOpen
  <2>2. CASE At("opening") /\ UNCHANGED <<stateVars, timerVars, wsVars>>
    BY <1>1, <1>2, <1>7, <2>2 DEF OnOpen, Ending
  <2> QED
    BY <1>7, <2>1, <2>2 DEF OnOpen
<1>8. CASE Opening
  BY <1>1, <1>3, <1>8 DEF Opening, Ending
<1>9. CASE OnClose
  BY <1>1, <1>2, <1>9 DEF OnClose, Ending
<1>10. CASE Closing
  BY <1>1, <1>2, <1>3, <1>10 DEF Closing, At, Ending
<1>11. CASE Retrying
  BY <1>1, <1>3, <1>11, ConnectingImpl DEF Retrying, Ending, ConnectImpl
<1> QED
  BY <1>4, <1>5, <1>6, <1>7, <1>8, <1>9, <1>10, <1>11 DEF Handler

\* A session that opens, fails or ends is the only one.
LEMMA SessionStepInv ==
    ASSUME IInv, NetFree, NEW s \in Sessions, phase[s] \in Live,
           NEW step \in {"onOpen", "onFail", "onClose"},
           NEW next \in {"open", "failed", "closed"},
           step # "onOpen" => next \notin Live,
           net' = [at |-> step, s |-> s],
           phase' = [phase EXCEPT ![s] = next],
           seen' \in [Sessions -> {"none", "normal", "abnormal"}],
           UNCHANGED <<stateVars, timerVars, loopVars, userVars, begun, asked, endVars>>
    PROVE  IInv'
<1> USE SioConnectionAssumption DEF IInv, Live
<1>1. thread = "running" /\ ~Posted /\ Quiet
  BY DEF NetFree, PostedAlone, RetryAlone, NoneLive
<1>2. UNCHANGED <<conState, abort, con, made, reconn, stray, ping, strayPing, thread, ioQueue,
                  user, calls, begun, asked, closed, early, missed, crashed>>
  BY DEF stateVars, timerVars, loopVars, userVars, endVars
<1>3. net' \in [at : NetAt, s : 0..MaxSessions] /\ net'.at = step
  BY DEF NetAt, Sessions
<1>4. phase' \in [Sessions -> Live \cup {"idle", "failed", "closed"}]
  BY DEF SioConnectionTypeOK
<1>5. \A t \in Sessions : phase'[t] \in Live => t = s /\ next \in Live
  BY DEF SioConnectionTypeOK, OneSession
<1>6. SioConnectionTypeOK'
  BY <1>2, <1>3, <1>4 DEF SioConnectionTypeOK
<1>7. ~Posted' /\ Quiet'
  BY <1>1, <1>2 DEF Posted, Quiet
<1>8. (StartAlone /\ StoppedIsQuiet)'
  BY <1>1, <1>2 DEF StartAlone, StoppedIsQuiet
<1>9. PostedAlone'
  BY <1>2, <1>7 DEF PostedAlone
<1>10. EndingAlone'
  BY <1>3, <1>5, <1>7 DEF EndingAlone, Ending, NoneLive
<1>11. RetryAlone'
  BY <1>3, <1>7 DEF RetryAlone, Quiet
<1>12. OneSession'
  BY <1>5 DEF OneSession
<1> QED
  BY <1>6, <1>8, <1>9, <1>10, <1>11, <1>12

\* close_impl called by the network thread between two handlers.
LEMMA CloseBetweenInv ==
    ASSUME IInv, NetFree, NEW code, CloseImpl(code),
           ping' \in TimerStates, strayPing' \in BOOLEAN, missed' \in BOOLEAN,
           UNCHANGED <<stateVars, loopVars, net, userVars, closed, early, crashed>>
    PROVE  IInv'
<1> USE DEF IInv
<1>1. /\ reconn' = "off" /\ stray' \in BOOLEAN
      /\ stray' => ~Quiet
      /\ phase' \in [Sessions -> Live \cup {"idle", "failed", "closed"}]
      /\ \A s \in Sessions : phase'[s] \in Live <=> phase[s] \in Live
      /\ asked' \in [Sessions -> BOOLEAN]
      /\ begun' = begun /\ seen' = seen
  BY ClosingImpl
<1>2. UNCHANGED <<conState, abort, con, made, thread, ioQueue, net, user, calls, closed, early, crashed>>
  BY DEF stateVars, loopVars, userVars
<1>3. thread = "running" /\ net.at = "idle"
  BY DEF NetFree, Idle
<1>4. SioConnectionTypeOK'
  BY <1>1, <1>2 DEF SioConnectionTypeOK, TimerStates
<1>5. NoneLive' <=> NoneLive
  BY <1>1 DEF NoneLive
<1>6. Quiet => Quiet'
  BY <1>1 DEF Quiet
<1>7. (StartAlone /\ StoppedIsQuiet)'
  BY <1>2, <1>3 DEF StartAlone, StoppedIsQuiet
<1>8. PostedAlone'
  BY <1>1, <1>2, <1>5, <1>6 DEF PostedAlone, Posted
<1>9. EndingAlone'
  BY <1>2, <1>3 DEF EndingAlone, Ending
<1>10. RetryAlone'
  BY <1>1, <1>2, <1>3, <1>5, <1>6 DEF RetryAlone, Quiet
<1>11. OneSession'
  BY <1>1 DEF OneSession
<1> QED
  BY <1>4, <1>7, <1>8, <1>9, <1>10, <1>11

\* What websocketpp and the timers call.
LEMMA EventInv ==
    ASSUME IInv, Session \/ Packet \/ TimeoutReconnect \/ TimeoutPing \/ TimerExpires
    PROVE  IInv'
<1> USE SioConnectionAssumption DEF IInv
<1> USE DEF SioConnectionTypeOK, TimerStates
<1>1. CASE SessionFails
  BY <1>1, SessionStepInv DEF SessionFails, Live
<1>2. CASE SessionOpens
  BY <1>2, SessionStepInv DEF SessionOpens, Live
<1>3. CASE ServerCloses
  BY <1>3 DEF ServerCloses, NetFree, Live, Ending, stateVars, timerVars, loopVars, userVars, endVars,
     StartAlone, StoppedIsQuiet, PostedAlone, EndingAlone, RetryAlone, OneSession,
     Posted, NoneLive, Quiet
<1>4. CASE SessionEnds
  <2>1. PICK s \in Sessions, code \in {"normal", "abnormal"} :
          /\ phase[s] \in {"open", "closing"}
          /\ phase' = [phase EXCEPT ![s] = "closed"]
          /\ seen' = [seen EXCEPT ![s] = code]
          /\ net' = [at |-> "onClose", s |-> s]
    BY <1>4 DEF SessionEnds
  <2>2. seen' \in [Sessions -> {"none", "normal", "abnormal"}]
    BY <2>1
  <2> QED
    BY <1>4, <2>1, <2>2, SessionStepInv DEF SessionEnds, Live
<1>5. CASE TimeoutReconnect
  <2>1. ~Quiet /\ NoneLive /\ thread = "running" /\ net.at = "idle" /\ made < Attempts
    BY <1>5 DEF TimeoutReconnect, NetFree, RetryAlone, Quiet, Idle
  <2>2. UNCHANGED <<stateVars, ping, strayPing, loopVars, userVars, wsVars, endVars>>
    BY <1>5 DEF TimeoutReconnect
  <2>3. Quiet' /\ reconn' \in TimerStates /\ stray' \in BOOLEAN
    <3>1. CASE reconn = "due" /\ reconn' = "off" /\ stray' = stray
      BY <3>1 DEF RetryAlone, Quiet
    <3>2. CASE stray /\ stray' = FALSE /\ reconn' = reconn
      BY <3>2 DEF RetryAlone, Quiet
    <3> QED
      BY <1>5, <3>1, <3>2 DEF TimeoutReconnect
  <2>4. net' \in [at : NetAt, s : 0..MaxSessions] /\ net'.at \in {"idle", "retrying"}
    BY <1>5, <2>1 DEF TimeoutReconnect, At, NetAt
  <2>5. ~Posted /\ ~Posted'
    BY <2>1, <2>2 DEF PostedAlone, Posted, loopVars
  <2>6. NoneLive'
    BY <2>1, <2>2 DEF NoneLive, wsVars
  <2>7. SioConnectionTypeOK'
    BY <2>2, <2>3, <2>4 DEF stateVars, loopVars, userVars, wsVars, endVars
  <2>8. (StartAlone /\ StoppedIsQuiet /\ OneSession)'
    BY <2>1, <2>2, <2>6 DEF StartAlone, StoppedIsQuiet, OneSession, NoneLive, loopVars, userVars
  <2>9. PostedAlone'
    BY <2>2, <2>5 DEF PostedAlone, loopVars
  <2>10. (EndingAlone /\ RetryAlone)'
    BY <2>1, <2>2, <2>3, <2>6 DEF EndingAlone, RetryAlone, Quiet, stateVars
  <2> QED
    BY <2>7, <2>8, <2>9, <2>10
<1>6. CASE TimerExpires
  BY <1>6 DEF TimerExpires, stateVars, loopVars, userVars, wsVars, endVars,
     StartAlone, StoppedIsQuiet, PostedAlone, EndingAlone, RetryAlone, OneSession,
     Posted, NoneLive, Quiet
<1>7. CASE TimeoutPing
  <2>1. ping' \in TimerStates /\ strayPing' \in BOOLEAN /\ missed' \in BOOLEAN
    BY <1>7 DEF TimeoutPing
  <2> QED
    BY <1>7, <2>1, CloseBetweenInv DEF TimeoutPing
<1>8. CASE OnHandshake
  <2>1. CASE UpdatePingTimer /\ UNCHANGED <<reconn, stray, wsVars>>
    BY <1>8, <2>1 DEF OnHandshake, UpdatePingTimer, NetFree, stateVars, loopVars, userVars,
       wsVars, endVars, StartAlone, StoppedIsQuiet, PostedAlone, EndingAlone, RetryAlone,
       OneSession, Posted, NoneLive, Quiet
  <2>2. CASE CloseImpl("policy") /\ UNCHANGED <<ping, strayPing>>
    BY <1>8, <2>2, CloseBetweenInv DEF OnHandshake, endVars
  <2> QED
    BY <1>8, <2>1, <2>2 DEF OnHandshake
<1>9. CASE OnPing
  <2>1. /\ UNCHANGED <<stateVars, reconn, stray, loopVars, net, userVars, wsVars>>
        /\ UNCHANGED <<closed, early, missed>>
    BY <1>9 DEF OnPing
  <2>2. ping' \in TimerStates /\ strayPing' \in BOOLEAN /\ crashed' \in BOOLEAN
    BY <1>9 DEF OnPing, UpdatePingTimer
  <2>3. SioConnectionTypeOK'
    BY <2>1, <2>2 DEF stateVars, loopVars, userVars, wsVars
  <2> QED
    BY <2>1, <2>3 DEF stateVars, loopVars, userVars, wsVars, StartAlone, StoppedIsQuiet,
       PostedAlone, EndingAlone, RetryAlone, OneSession, Posted, NoneLive, Quiet
<1>10. CASE OnClosePacket
  BY <1>10, CloseBetweenInv DEF OnClosePacket, endVars
<1> QED
  BY <1>1, <1>2, <1>3, <1>4, <1>5, <1>6, <1>7, <1>8, <1>9, <1>10 DEF Session, Packet

LEMMA Inductive == Spec => []IInv
<1>1. IInv /\ [Next]_vars => IInv'
  <2> SUFFICES ASSUME IInv, [Next]_vars PROVE IInv'
    OBVIOUS
  <2>1. CASE UNCHANGED vars
    BY <2>1 DEF vars, stateVars, timerVars, loopVars, userVars, wsVars, endVars, IInv,
                SioConnectionTypeOK, StartAlone, StoppedIsQuiet, PostedAlone, EndingAlone,
                RetryAlone, OneSession, Posted, NoneLive, Quiet
  <2>2. CASE Next
    BY <2>2, UserInv, PostInv, LoopInv, HandlerInv, EventInv DEF Next, User, Loop
  <2> QED
    BY <2>1, <2>2
<1> QED
  BY <1>1, InitInv, PTL DEF Spec

\* The variables of client_impl keep their types; in particular attempts are
\* never counted beyond their limit.
THEOREM ConnectionTyped == Spec => []SioConnectionTypeOK
BY Inductive, PTL DEF IInv

\* connect(), close() and retries, in any order on two threads, never have two
\* connections at a time.
THEOREM OneSessionAtATime == Spec => []OneSession
BY Inductive, PTL DEF IInv

----------------------------------------------------------------------------
(* After close() nothing is connected, provided that no call of close()      *)
(* lasts as long as the delay of a retry.                                     *)

Pending == user \in {"closing", "posting", "syncClosing", "syncPosting"} \/ ioQueue # <<>>

ClosedIsOver ==
    closed => /\ abort /\ ~Posted
              /\ reconn = "off" /\ net.at # "retrying"
              /\ stray => conState # "closed"

\* A retry that is due when close() comes meets its "closing".
DueIsSeen == Pending /\ (stray \/ reconn = "due") => conState # "closed"

PostingAborts ==
    /\ user \in {"posting", "syncPosting"} => abort
    /\ ioQueue # <<>> /\ ioQueue[Len(ioQueue)] = "close" => abort

OpeningIsOpen ==
    net.at \in {"onOpen", "opening"} => net.s \in Sessions /\ phase[net.s] = "open"

CInv == ClosedIsOver /\ DueIsSeen /\ PostingAborts /\ OpeningIsOpen

\* A retry is due only between two handlers.
LEMMA DueMeansIdle ==
    ASSUME IInv, CInv, stray \/ reconn = "due"
    PROVE  net.at \in {"idle"} /\ NoneLive /\ thread = "running" /\ ~Posted
<1>1. ~Quiet /\ NoneLive
  BY DEF IInv, Quiet, RetryAlone
<1>2. net.at \notin {"onOpen", "opening"}
  BY <1>1 DEF CInv, OpeningIsOpen, NoneLive, Live
<1>3. net.at \in NetAt
  BY DEF IInv, SioConnectionTypeOK
<1> QED
  BY <1>1, <1>2, <1>3 DEF IInv, EndingAlone, Ending, NetAt, StoppedIsQuiet, PostedAlone

\* The user's thread.
LEMMA UserCInv ==
    ASSUME IInv, CInv, PromptUser,
           CallConnect \/ User \/ \E first \in {"closing", "syncClosing"} : CallClose(first)
    PROVE  CInv'
<1> USE DEF stateVars, timerVars, loopVars, userVars, wsVars, endVars
<1> USE DEF CInv, ClosedIsOver, DueIsSeen, PostingAborts, OpeningIsOpen, Pending, Posted
<1>1. CASE CallConnect
  BY <1>1 DEF CallConnect, CancelReconn, MayCall
<1>2. CASE ConnectLooks
  BY <1>2 DEF ConnectLooks
<1>3. CASE Joined
  BY <1>3 DEF Joined
<1>4. CASE ConnectStarts
  <2>1. Quiet /\ net = Idle
    BY <1>4 DEF ConnectStarts, IInv, StartAlone, StoppedIsQuiet
  <2>2. ioQueue' # <<>> /\ ioQueue'[Len(ioQueue')] = "connect"
    BY <1>4, Appended DEF ConnectStarts, IInv, SioConnectionTypeOK
  <2> QED
    BY <1>4, <2>1, <2>2 DEF ConnectStarts, Quiet, Idle
<1>5. ASSUME NEW first \in {"closing", "syncClosing"}, CallClose(first) PROVE CInv'
  BY <1>5 DEF CallClose, MayCall
<1>6. CASE CloseAborts
  BY <1>6 DEF CloseAborts
<1>7. CASE ClosePosts
  <2>1. Posted' <=> Posted
    BY <1>7, Appended DEF ClosePosts, IInv, SioConnectionTypeOK
  <2> QED
    BY <1>7, <2>1 DEF ClosePosts
<1> QED
  BY <1>1, <1>2, <1>3, <1>4, <1>5, <1>6, <1>7 DEF User

\* close_impl, wherever it is called from.
LEMMA CloseImplCInv ==
    ASSUME IInv, CInv, NEW code, CloseImpl(code), net'.at = "idle",
           ioQueue' = ioQueue, user' = user, closed' = closed,
           \/ conState' = conState /\ abort' = abort
           \/ conState' = "closing" /\ abort' = TRUE
    PROVE  CInv'
<1>1. reconn' = "off" /\ stray' = (stray \/ reconn = "due")
  BY DEF CloseImpl, CancelReconn
<1> QED
  BY <1>1 DEF CInv, ClosedIsOver, DueIsSeen, PostingAborts, OpeningIsOpen, Pending, Posted

\* The network thread: what is handed to it.
LEMMA LoopCInv ==
    ASSUME IInv, CInv, RunPosted
    PROVE  CInv'
<1> USE DEF stateVars, timerVars, loopVars, userVars
<1> DEFINE q == ioQueue
<1>1. /\ q \in Seq({"connect", "close"}) /\ q # <<>> /\ ioQueue' = Tail(q)
      /\ net.at = "idle" /\ net' = net
      /\ UNCHANGED <<conState, abort, user>>
  BY DEF RunPosted, NetFree, Idle, IInv, SioConnectionTypeOK
<1>2. Posted' => Posted
  BY <1>1, Taken DEF Posted
<1>3. Pending /\ (Pending' => Pending)
  BY <1>1 DEF Pending
<1>4. PostingAborts'
  <2>1. ioQueue' # <<>> => q[Len(q)] = ioQueue'[Len(ioQueue')]
    BY <1>1, Taken
  <2> QED
    BY <1>1, <2>1 DEF CInv, PostingAborts
<1>5. OpeningIsOpen'
  BY <1>1 DEF OpeningIsOpen
<1>6. CASE Head(q) = "connect" /\ UNCHANGED <<timerVars, closed>>
  <2>1. Posted
    BY <1>1, <1>6, Taken DEF Posted
  <2>2. ~closed /\ Quiet
    BY <2>1 DEF CInv, ClosedIsOver, IInv, PostedAlone
  <2> QED
    BY <1>4, <1>5, <1>6, <2>2 DEF CInv, ClosedIsOver, DueIsSeen, Quiet
<1>7. CASE Head(q) = "close" /\ CloseImpl("normal") /\ closed' = (Tail(q) = <<>>)
  <2>1. reconn' = "off" /\ stray' = (stray \/ reconn = "due")
    BY <1>7 DEF CloseImpl, CancelReconn
  <2>2. DueIsSeen'
    BY <1>1, <1>3, <2>1 DEF CInv, DueIsSeen
  <2>3. stray' => conState' # "closed"
    BY <1>1, <1>3, <2>1 DEF CInv, DueIsSeen
  <2>4. ASSUME closed' PROVE abort /\ ~Posted'
    <3>1. Tail(q) = <<>>
      BY <1>7, <2>4
    <3>2. Len(q) = 1 /\ q[Len(q)] = "close"
      <4>1. Head(q) = "close"
        BY <1>7
      <4>2. q \in Seq({"connect", "close"}) /\ q # <<>>
        BY <1>1
      <4>3. Len(Tail(q)) = 0
        BY <3>1, <4>2, Taken
      <4>4. Len(q) = 1 /\ Head(q) = q[1]
        BY <4>2, <4>3, Taken
      <4> QED
        BY <4>1, <4>4
    <3>3. abort
      BY <1>1, <3>2 DEF CInv, PostingAborts
    <3>4. ~Posted'
      <4>1. ioQueue' = <<>>
        BY <1>1, <3>1
      <4> QED
        BY <4>1 DEF Posted
    <3> QED
      BY <3>3, <3>4
  <2>5. ClosedIsOver'
    BY <1>1, <2>1, <2>3, <2>4 DEF ClosedIsOver
  <2> QED
    BY <1>4, <1>5, <2>2, <2>5 DEF CInv
<1> QED
  BY <1>1, <1>6, <1>7 DEF RunPosted

\* The handlers.
LEMMA HandlerCInv ==
    ASSUME IInv, CInv, Handler
    PROVE  CInv'
<1> USE DEF stateVars, timerVars, loopVars, userVars, wsVars, endVars
<1> USE DEF ClosedIsOver, DueIsSeen, PostingAborts, OpeningIsOpen, Pending, Posted
<1>1. net \in [at : NetAt, s : 0..MaxSessions]
  BY DEF IInv, SioConnectionTypeOK
<1>2. net.at # "idle"
  BY DEF Handler, OnFail, Failing, Arming, OnOpen, Opening, OnClose, Closing, Retrying
<1>3. ~stray /\ reconn # "due"
  BY <1>2, DueMeansIdle
<1>4. ASSUME NEW step, At(step) PROVE net'.at = step /\ net'.s = net.s
  BY <1>1, <1>4 DEF At
<1>5. Idle.at = "idle"
  BY DEF Idle
<1>6. ASSUME CloseFromHandler, UNCHANGED <<loopVars, userVars, endVars>> PROVE CInv'
  BY <1>5, <1>6, CloseImplCInv DEF CloseFromHandler
<1>7. CASE OnFail
  <2>1. CASE At("failing") /\ UNCHANGED <<stateVars, timerVars, wsVars>>
    BY <1>3, <1>4, <1>7, <2>1 DEF OnFail, CInv
  <2> QED
    BY <1>6, <1>7, <2>1 DEF OnFail
<1>8. CASE Failing
  BY <1>3, <1>4, <1>8 DEF Failing, CInv
<1>9. CASE Arming
  <2>1. closed => abort /\ reconn = "off" /\ ~Posted
    BY DEF CInv
  <2>2. /\ net'.at = "idle" /\ ~stray'
        /\ UNCHANGED <<conState, abort, ioQueue, user, closed>>
        /\ reconn' = reconn \/ (~abort /\ reconn' = "running")
    <3>1. MayRetry => ~abort
      BY DEF MayRetry
    <3>2. UNCHANGED <<conState, abort, ioQueue, user, closed>> /\ net'.at = "idle"
      BY <1>5, <1>9 DEF Arming
    <3>3. reconn' = reconn \/ (MayRetry /\ reconn' = "running")
      BY <1>9 DEF Arming
    <3>4. stray' = (stray \/ reconn = "due") \/ stray' = stray
      BY <1>9 DEF Arming
    <3>5. ~stray'
      BY <1>3, <3>4
    <3>6. reconn' = reconn \/ (~abort /\ reconn' = "running")
      BY <3>1, <3>3
    <3> QED
      BY <3>2, <3>5, <3>6
  <2> QED
    BY <1>3, <2>1, <2>2 DEF CInv
<1>10. CASE OnOpen
  <2>1. CASE At("opening") /\ UNCHANGED <<stateVars, timerVars, wsVars>>
    BY <1>3, <1>4, <1>10, <2>1 DEF OnOpen, CInv
  <2> QED
    BY <1>6, <1>10, <2>1 DEF OnOpen
<1>11. CASE Opening
  BY <1>3, <1>5, <1>11 DEF Opening, CInv
<1>12. CASE OnClose
  <2>1. net'.at \in {"closing", "closingNormally"}
    BY <1>4, <1>12 DEF OnClose
  <2> QED
    BY <1>3, <1>12, <2>1 DEF OnClose, CInv
<1>13. CASE Closing
  <2>1. net'.at \in {"arming", "idle"}
    BY <1>1, <1>5, <1>13 DEF Closing
  <2> QED
    BY <1>3, <1>13, <2>1 DEF Closing, CInv
<1>14. CASE Retrying
  BY <1>3, <1>5, <1>14 DEF Retrying, CInv
<1> QED
  BY <1>7, <1>8, <1>9, <1>10, <1>11, <1>12, <1>13, <1>14 DEF Handler

\* What websocketpp and the timers call.
LEMMA EventCInv ==
    ASSUME IInv, CInv, PromptUser,
           RunLoopEnds \/ Session \/ Packet \/ TimeoutReconnect \/ TimeoutPing \/ TimerExpires
    PROVE  CInv'
<1> USE DEF stateVars, timerVars, loopVars, userVars, wsVars, endVars
<1> USE DEF ClosedIsOver, DueIsSeen, PostingAborts, OpeningIsOpen, Pending, Posted
<1>1. NetFree => net.at = "idle"
  BY DEF NetFree, Idle
<1>2. CASE RunLoopEnds
  BY <1>2 DEF RunLoopEnds, CInv
<1>3. CASE SessionFails
  BY <1>3 DEF SessionFails, CInv
<1>4. CASE SessionOpens
  <2>1. PICK s \in Sessions : /\ phase' = [phase EXCEPT ![s] = "open"]
                              /\ net' = [at |-> "onOpen", s |-> s]
    BY <1>4 DEF SessionOpens
  <2>2. phase'[s] = "open"
    BY <2>1 DEF IInv, SioConnectionTypeOK
  <2> QED
    BY <1>4, <2>1, <2>2 DEF SessionOpens, CInv
<1>5. CASE ServerCloses
  BY <1>1, <1>5 DEF ServerCloses, CInv
<1>6. CASE SessionEnds
  BY <1>6 DEF SessionEnds, CInv
<1>7. CASE TimeoutReconnect
  <2>1. CASE conState = "closed" /\ At("retrying")
    <3>1. ~closed /\ ~Pending
      BY <1>7, <2>1 DEF TimeoutReconnect, CInv
    <3>2. net'.at = "retrying"
      BY <2>1 DEF At, IInv, SioConnectionTypeOK
    <3> QED
      BY <1>7, <3>1, <3>2 DEF TimeoutReconnect, CInv
  <2>2. CASE conState # "closed" /\ UNCHANGED net
    BY <1>1, <1>7, <2>2 DEF TimeoutReconnect, CInv
  <2> QED
    BY <1>7, <2>1, <2>2 DEF TimeoutReconnect
<1>8. CASE TimeoutPing
  <2>1. /\ CloseImpl("policy") /\ net'.at = "idle"
        /\ ioQueue' = ioQueue /\ user' = user /\ closed' = closed
        /\ conState' = conState /\ abort' = abort
    BY <1>1, <1>8 DEF TimeoutPing
  <2> QED
    BY <2>1, CloseImplCInv
<1>9. CASE TimerExpires
  BY <1>9 DEF TimerExpires, Prompt, CInv
<1>10. CASE OnHandshake
  <2>1. CASE CloseImpl("policy")
    <3>1. /\ net'.at = "idle"
          /\ ioQueue' = ioQueue /\ user' = user /\ closed' = closed
        /\ conState' = conState /\ abort' = abort
      BY <1>1, <1>10 DEF OnHandshake
    <3> QED
      BY <2>1, <3>1, CloseImplCInv
  <2> QED
    BY <1>1, <1>10, <2>1 DEF OnHandshake, UpdatePingTimer, CInv
<1>11. CASE OnPing
  BY <1>1, <1>11 DEF OnPing, CInv
<1>12. CASE OnClosePacket
  <2>1. /\ CloseImpl("abnormal") /\ net'.at = "idle"
        /\ ioQueue' = ioQueue /\ user' = user /\ closed' = closed
        /\ conState' = conState /\ abort' = abort
    BY <1>1, <1>12 DEF OnClosePacket
  <2> QED
    BY <2>1, CloseImplCInv
<1> QED
  BY <1>2, <1>3, <1>4, <1>5, <1>6, <1>7, <1>8, <1>9, <1>10, <1>11, <1>12 DEF Session, Packet

\* Between two states in which close() has done its work no session is made:
\* neither by a "connect" in the queue nor by a retry.
LEMMA NoneMade ==
    ASSUME IInv, CInv, closed, closed', [Next]_vars
    PROVE  begun' = begun
<1>1. ~Posted /\ net.at # "retrying"
  BY DEF CInv, ClosedIsOver
<1>2. ~(RunPosted /\ Head(ioQueue) = "connect")
  <2>1. SUFFICES ASSUME ioQueue # <<>>, Head(ioQueue) = "connect" PROVE Posted
    BY <1>1 DEF RunPosted
  <2>2. ioQueue \in Seq({"connect", "close"})
    BY DEF IInv, SioConnectionTypeOK
  <2>3. 1 \in 1..Len(ioQueue) /\ ioQueue[1] = "connect"
    BY <2>1, <2>2, Taken
  <2> QED
    BY <2>3 DEF Posted
<1>3. ~Retrying
  BY <1>1 DEF Retrying
<1> QED
  BY <1>2, <1>3
     DEF Next, User, Handler, Loop, Session, Packet, vars, wsVars,
         CallConnect, CallClose, ConnectLooks, Joined, ConnectStarts, CloseAborts, ClosePosts,
         OnFail, Failing, Arming, OnOpen, Opening, OnClose, Closing,
         RunPosted, RunLoopEnds, TimeoutReconnect, TimeoutPing, TimerExpires,
         SessionOpens, SessionFails, ServerCloses, SessionEnds,
         OnHandshake, OnPing, OnClosePacket, CloseFromHandler, CloseImpl

\* When close() has done its work, no connection is made until connect() is
\* called again, as long as no call of close() lasts as long as the delay of a
\* retry.
THEOREM ClosedForGood ==
    ASSUME PromptUser
    PROVE  Spec => NoSessionAfterClose
<1>1. Init => CInv
  BY DEF Init, Idle, CInv, ClosedIsOver, DueIsSeen, PostingAborts, OpeningIsOpen, Pending
<1>2. IInv /\ CInv /\ [Next]_vars => CInv'
  <2> SUFFICES ASSUME IInv, CInv, [Next]_vars PROVE CInv'
    OBVIOUS
  <2>1. CASE UNCHANGED vars
    BY <2>1 DEF vars, stateVars, timerVars, loopVars, userVars, wsVars, endVars,
                CInv, ClosedIsOver, DueIsSeen, PostingAborts, OpeningIsOpen, Pending, Posted
  <2>2. CASE Next
    BY <2>2, UserCInv, LoopCInv, HandlerCInv, EventCInv DEF Next, Loop
  <2> QED
    BY <2>1, <2>2
<1>3. IInv /\ CInv /\ [Next]_vars => [closed /\ closed' => begun' = begun]_vars
  BY NoneMade
<1> QED
  BY <1>1, <1>2, <1>3, Inductive, PTL DEF Spec, NoSessionAfterClose

----------------------------------------------------------------------------
(* The session the client holds.  A client that is opened, or is being       *)
(* closed after it was, holds in m_con a session that is not over, or is in  *)
(* the handler of its end; and a session that is open is the one in m_con,   *)
(* or is in the handler of its opening, unless close() came too early.       *)

Held ==
    /\ con \in Sessions
    /\ \/ phase[con] \in {"open", "closing"}
       \/ net.at \in {"onClose", "closing", "closingNormally"} /\ net.s = con

OpenedHolds == conState = "opened" \/ (conState = "closing" /\ ~early) => Held

OpenIsHeld ==
    \A s \in Sessions : phase[s] = "open" =>
        early \/ con = s \/ (net.at \in {"onOpen", "opening"} /\ net.s = s)

HInv == OpeningIsOpen /\ OpenedHolds /\ OpenIsHeld /\ PingFindsSession

\* Sessions may be closed, none opens and none ends.
Calm ==
    \A s \in Sessions :
        /\ phase'[s] = "open" => phase[s] = "open"
        /\ phase[s] \in {"open", "closing"} => phase'[s] \in {"open", "closing"}

LEMMA HeldInit == Init => HInv
BY SioConnectionAssumption
   DEF Init, Idle, HInv, OpeningIsOpen, OpenedHolds, OpenIsHeld, PingFindsSession

LEMMA ImplCalm ==
    ASSUME IInv, NEW code, CloseImpl(code)
    PROVE  Calm
<1> USE DEF IInv, SioConnectionTypeOK
<1>1. CASE con \in Open /\ phase' = [phase EXCEPT ![con] = "closing"]
  <2>1. con \in Sessions /\ phase[con] = "open" /\ phase'[con] = "closing"
    BY <1>1 DEF Open
  <2>2. \A s \in Sessions : s # con => phase'[s] = phase[s]
    BY <1>1
  <2> QED
    BY <2>1, <2>2 DEF Calm
<1>2. CASE phase' = phase
  BY <1>2 DEF Calm
<1> QED
  BY <1>1, <1>2 DEF CloseImpl, CloseSession

\* Between two handlers.
LEMMA CalmKeeps ==
    ASSUME HInv, Calm, net.at = "idle", net'.at \in {"idle", "retrying"},
           UNCHANGED <<conState, con, early>>, crashed' => crashed \/ early
    PROVE  HInv'
<1>1. OpeningIsOpen'
  BY DEF OpeningIsOpen
<1>2. OpenedHolds'
  BY DEF HInv, OpenedHolds, Held, Calm
<1>3. OpenIsHeld'
  BY DEF HInv, OpenIsHeld, Calm
<1>4. PingFindsSession'
  BY DEF HInv, PingFindsSession
<1> QED
  BY <1>1, <1>2, <1>3, <1>4 DEF HInv

\* The user's thread.
LEMMA UserHeld ==
    ASSUME IInv, HInv,
           CallConnect \/ User \/ \E first \in {"closing", "syncClosing"} : CallClose(first)
    PROVE  HInv'
<1> USE DEF stateVars, timerVars, loopVars, userVars, wsVars, endVars
<1>1. /\ UNCHANGED <<con, net, phase, crashed>>
      /\ \/ UNCHANGED <<conState, early>>
         \/ conState' = "opening" /\ early' = early
         \/ conState' = "closing" /\ early' = (early \/ conState # "opened")
  BY DEF User, CallConnect, ConnectLooks, Joined, ConnectStarts, CloseAborts, ClosePosts, CallClose
<1>2. early => early'
  BY <1>1
<1>3. OpenedHolds'
  <2>1. conState' = "opened" \/ (conState' = "closing" /\ ~early')
          => conState = "opened" \/ (conState = "closing" /\ ~early)
    BY <1>1
  <2> QED
    BY <1>1, <2>1 DEF HInv, OpenedHolds, Held
<1>4. (OpeningIsOpen /\ OpenIsHeld /\ PingFindsSession)'
  BY <1>1, <1>2 DEF HInv, OpeningIsOpen, OpenIsHeld, PingFindsSession
<1> QED
  BY <1>3, <1>4 DEF HInv

\* What the io_service calls.
LEMMA LoopHeld ==
    ASSUME IInv, HInv, Loop \/ TimerExpires
    PROVE  HInv'
<1> USE DEF stateVars, timerVars, loopVars, userVars, wsVars, endVars
<1>1. NetFree => net.at = "idle"
  BY DEF NetFree, Idle
<1>2. phase' = phase => Calm
  BY DEF Calm
<1>3. CASE RunPosted
  <2>1. /\ net.at = "idle" /\ net' = net
        /\ UNCHANGED <<conState, con, early, crashed>>
    BY <1>1, <1>3 DEF RunPosted
  <2>2. CASE CloseImpl("normal")
    BY <2>1, <2>2, ImplCalm, CalmKeeps
  <2>3. CASE Head(ioQueue) = "connect" /\ ConnectImpl
    <3>1. Posted
      BY <1>3, <2>3, Taken DEF RunPosted, Posted, IInv, SioConnectionTypeOK
    <3>2. NoneLive /\ begun + 1 \in Sessions /\ phase \in [Sessions -> Live \cup {"idle", "failed", "closed"}]
      BY <3>1, SioConnectionAssumption DEF IInv, PostedAlone, SioConnectionTypeOK, Sessions
    <3>3. \A t \in Sessions : phase'[t] = IF t = begun + 1 THEN "connecting" ELSE phase[t]
      BY <2>3, <3>2 DEF ConnectImpl
    <3>4. Calm
      BY <3>2, <3>3 DEF Calm, NoneLive, Live
    <3> QED
      BY <2>1, <3>4, CalmKeeps
  <2> QED
    BY <1>3, <2>2, <2>3 DEF RunPosted
<1>4. CASE RunLoopEnds
  BY <1>1, <1>2, <1>4, CalmKeeps DEF RunLoopEnds
<1>5. CASE TimeoutReconnect
  <2>1. net'.at \in {"idle", "retrying"}
    BY <1>1, <1>5 DEF TimeoutReconnect, At, IInv, SioConnectionTypeOK
  <2> QED
    BY <1>1, <1>2, <1>5, <2>1, CalmKeeps DEF TimeoutReconnect
<1>6. CASE TimeoutPing
  BY <1>1, <1>6, ImplCalm, CalmKeeps DEF TimeoutPing
<1>7. CASE TimerExpires
  BY <1>7 DEF TimerExpires, HInv, OpeningIsOpen, OpenedHolds, Held, OpenIsHeld, PingFindsSession
<1> QED
  BY <1>3, <1>4, <1>5, <1>6, <1>7 DEF Loop

\* The handlers.
LEMMA HandlerHeld ==
    ASSUME IInv, HInv, Handler
    PROVE  HInv'
<1> USE DEF stateVars, timerVars, loopVars, userVars, wsVars, endVars
<1>1. net \in [at : NetAt, s : 0..MaxSessions] /\ Idle.at = "idle"
  BY DEF IInv, SioConnectionTypeOK, Idle
<1>2. ASSUME NEW step, At(step) PROVE net'.at = step /\ net'.s = net.s
  BY <1>1, <1>2 DEF At
<1>3. crashed' = crashed /\ early' = early
  BY DEF Handler, OnFail, Failing, Arming, OnOpen, Opening, OnClose, Closing, Retrying
<1>4. PingFindsSession'
  BY <1>3 DEF HInv, PingFindsSession
<1>5. ASSUME CloseFromHandler, net.at \in {"onFail", "onOpen"}, conState = "closing"
      PROVE  HInv'
  <2>1. Calm /\ con' = con /\ net'.at = "idle" /\ conState' = "closing"
    BY <1>1, <1>5, ImplCalm DEF CloseFromHandler
  <2>2. ~early => con \in Sessions /\ phase[con] \in {"open", "closing"}
    BY <1>5 DEF HInv, OpenedHolds, Held
  <2>3. OpenedHolds'
    BY <1>3, <2>1, <2>2 DEF OpenedHolds, Held, Calm
  <2>4. OpenIsHeld'
    BY <1>3, <2>1, <2>2 DEF OpenIsHeld, Calm, IInv, OneSession, Live
  <2> QED
    BY <1>4, <2>1, <2>3, <2>4 DEF HInv, OpeningIsOpen
<1>6. CASE OnFail
  <2>1. CASE At("failing") /\ UNCHANGED <<stateVars, timerVars, wsVars>>
    BY <1>2, <1>3, <1>4, <1>6, <2>1
       DEF OnFail, HInv, OpeningIsOpen, OpenedHolds, Held, OpenIsHeld
  <2> QED
    BY <1>5, <1>6, <2>1 DEF OnFail
<1>7. ASSUME net.at \in Ending, con' = 0, conState' = "closed", phase' = phase,
             net'.at \in {"arming", "idle"}
      PROVE  HInv'
  <2>1. NoneLive
    BY <1>7 DEF IInv, EndingAlone
  <2> QED
    BY <1>4, <1>7, <2>1 DEF HInv, OpeningIsOpen, OpenedHolds, OpenIsHeld, NoneLive, Live
<1>8. CASE Failing
  BY <1>2, <1>7, <1>8 DEF Failing, Ending
<1>9. CASE Closing
  <2>1. net'.at \in {"arming", "idle"}
    BY <1>1, <1>9 DEF Closing
  <2> QED
    BY <1>7, <1>9, <2>1 DEF Closing, Ending
<1>10. CASE Arming
  BY <1>1, <1>3, <1>4, <1>10
     DEF Arming, HInv, OpeningIsOpen, OpenedHolds, Held, OpenIsHeld
<1>11. CASE OnOpen
  <2>1. CASE At("opening") /\ UNCHANGED <<stateVars, timerVars, wsVars>>
    BY <1>2, <1>3, <1>4, <1>11, <2>1
       DEF OnOpen, HInv, OpeningIsOpen, OpenedHolds, Held, OpenIsHeld
  <2> QED
    BY <1>5, <1>11, <2>1 DEF OnOpen
<1>12. CASE Opening
  <2>1. net.s \in Sessions /\ phase[net.s] = "open" /\ con' = net.s /\ phase' = phase
    BY <1>12 DEF Opening, HInv, OpeningIsOpen
  <2>2. \A s \in Sessions : phase[s] = "open" => s = net.s
    BY <2>1 DEF IInv, OneSession, Live
  <2> QED
    BY <1>1, <1>4, <1>12, <2>1, <2>2
       DEF Opening, HInv, OpeningIsOpen, OpenedHolds, Held, OpenIsHeld
<1>13. CASE OnClose
  <2>1. net.at = "onClose" /\ net'.at \in {"closing", "closingNormally"} /\ net'.s = net.s
    BY <1>2, <1>13 DEF OnClose
  <2> QED
    BY <1>3, <1>4, <1>13, <2>1
       DEF OnClose, HInv, OpeningIsOpen, OpenedHolds, Held, OpenIsHeld
<1>14. CASE Retrying
  <2>1. NoneLive /\ conState' = "opening" /\ net'.at = "idle"
    BY <1>1, <1>14 DEF Retrying, IInv, EndingAlone
  <2>2. \A t \in Sessions : phase'[t] # "open"
    BY <1>14, <2>1 DEF Retrying, ConnectImpl, NoneLive, Live, IInv, SioConnectionTypeOK
  <2> QED
    BY <1>4, <2>1, <2>2 DEF HInv, OpeningIsOpen, OpenedHolds, OpenIsHeld
<1> QED
  BY <1>6, <1>8, <1>9, <1>10, <1>11, <1>12, <1>13, <1>14 DEF Handler

\* What websocketpp calls, and packets.
LEMMA EventHeld ==
    ASSUME IInv, HInv, Session \/ Packet
    PROVE  HInv'
<1> USE DEF stateVars, timerVars, loopVars, userVars, wsVars, endVars
<1>1. NetFree => net.at = "idle"
  BY DEF NetFree, Idle
<1>2. phase \in [Sessions -> Live \cup {"idle", "failed", "closed"}]
  BY DEF IInv, SioConnectionTypeOK
<1>3. \A s, t \in Sessions : phase[s] \in Live /\ phase[t] \in Live => s = t
  BY DEF IInv, OneSession
<1>4. net.at = "idle" /\ (conState = "opened" \/ (conState = "closing" /\ ~early))
        => con \in Sessions /\ phase[con] \in {"open", "closing"}
  BY DEF HInv, OpenedHolds, Held
<1>5. CASE SessionFails
  <2>1. PICK s \in Sessions :
          phase[s] = "connecting" /\ phase' = [phase EXCEPT ![s] = "failed"]
          /\ net' = [at |-> "onFail", s |-> s]
    BY <1>5 DEF SessionFails
  <2>2. Calm /\ net.at = "idle" /\ net'.at = "onFail"
        /\ UNCHANGED <<conState, con, early, crashed>>
    BY <1>1, <1>2, <1>5, <2>1 DEF SessionFails, Calm
  <2>3. OpenedHolds'
    BY <1>4, <2>2 DEF OpenedHolds, Held, Calm
  <2>4. OpenIsHeld'
    BY <2>2 DEF HInv, OpenIsHeld, Calm
  <2> QED
    BY <2>2, <2>3, <2>4 DEF HInv, OpeningIsOpen, PingFindsSession
<1>6. CASE SessionOpens
  <2>1. PICK s \in Sessions :
          phase[s] = "connecting" /\ phase' = [phase EXCEPT ![s] = "open"]
          /\ net' = [at |-> "onOpen", s |-> s]
    BY <1>6 DEF SessionOpens
  <2>2. net.at = "idle" /\ net'.at = "onOpen" /\ net'.s = s
        /\ UNCHANGED <<conState, con, early, crashed>>
    BY <1>1, <1>6, <2>1 DEF SessionOpens
  <2>3. phase'[s] = "open" /\ \A t \in Sessions : phase'[t] = "open" => t = s
    BY <1>2, <1>3, <2>1 DEF Live
  <2>4. ~(conState = "opened" \/ (conState = "closing" /\ ~early))
    BY <1>3, <1>4, <2>1, <2>2 DEF Live
  <2> QED
    BY <2>2, <2>3, <2>4 DEF HInv, OpeningIsOpen, OpenedHolds, OpenIsHeld, PingFindsSession
<1>7. CASE ServerCloses
  <2>1. PICK s \in Sessions : phase[s] = "open" /\ phase' = [phase EXCEPT ![s] = "closing"]
    BY <1>7 DEF ServerCloses
  <2>2. Calm
    BY <1>2, <2>1 DEF Calm
  <2> QED
    BY <1>1, <1>7, <2>2, CalmKeeps DEF ServerCloses
<1>8. CASE SessionEnds
  <2>1. PICK s \in Sessions :
          phase[s] \in {"open", "closing"} /\ phase' = [phase EXCEPT ![s] = "closed"]
          /\ net' = [at |-> "onClose", s |-> s]
    BY <1>8 DEF SessionEnds
  <2>2. net.at = "idle" /\ net'.at = "onClose" /\ net'.s = s
        /\ UNCHANGED <<conState, con, early, crashed>>
    BY <1>1, <1>8, <2>1 DEF SessionEnds
  <2>3. \A t \in Sessions : phase'[t] # "open"
    BY <1>2, <1>3, <2>1 DEF Live
  <2>4. con \in Sessions /\ phase[con] \in {"open", "closing"} => con = s
    BY <1>3, <2>1 DEF Live
  <2>5. OpenedHolds'
    BY <1>4, <2>2, <2>4 DEF OpenedHolds, Held
  <2> QED
    BY <2>2, <2>3, <2>5 DEF HInv, OpeningIsOpen, OpenIsHeld, PingFindsSession
<1>9. CASE OnHandshake \/ OnClosePacket
  <2>1. Calm
    BY <1>9, ImplCalm DEF OnHandshake, OnClosePacket, Calm
  <2> QED
    BY <1>1, <1>9, <2>1, CalmKeeps DEF OnHandshake, OnClosePacket
<1>10. CASE OnPing
  <2>1. Calm /\ net.at = "idle" /\ net' = net /\ UNCHANGED <<conState, con, early>>
    BY <1>1, <1>10 DEF OnPing, Calm
  <2>2. PICK s \in Sessions : phase[s] = "open"
    BY <1>10 DEF OnPing, Open
  <2>3. con = 0 => early
    BY <2>1, <2>2 DEF HInv, OpenIsHeld, Sessions
  <2>4. crashed' => crashed \/ early
    BY <1>10, <2>3 DEF OnPing
  <2> QED
    BY <2>1, <2>4, CalmKeeps
<1> QED
  BY <1>5, <1>6, <1>7, <1>8, <1>9, <1>10 DEF Session, Packet

LEMMA SessionIsHeld == Spec => []HInv
<1>1. IInv /\ HInv /\ [Next]_vars => HInv'
  <2> SUFFICES ASSUME IInv, HInv, [Next]_vars PROVE HInv'
    OBVIOUS
  <2>1. CASE UNCHANGED vars
    BY <2>1 DEF vars, stateVars, timerVars, loopVars, userVars, wsVars, endVars, HInv,
                OpeningIsOpen, OpenedHolds, Held, OpenIsHeld, PingFindsSession
  <2>2. CASE Next
    BY <2>2, UserHeld, LoopHeld, HandlerHeld, EventHeld DEF Next
  <2> QED
    BY <2>1, <2>2
<1> QED
  BY <1>1, HeldInit, Inductive, PTL DEF Spec

\* A client that calls itself opened has a connection that is not over, or is
\* in the handler of its end.
THEOREM OpenedHasOne == Spec => []OpenedHasSession
<1>1. IInv /\ HInv => OpenedHasSession
  BY DEF IInv, SioConnectionTypeOK, HInv, OpenedHolds, Held, OpenedHasSession, Sessions
<1> QED
  BY <1>1, Inductive, SessionIsHeld, PTL

\* No ping ends the network thread with an exception unless close() was
\* called before the client was opened.
THEOREM PingsAreAnswered == Spec => []PingFindsSession
BY SessionIsHeld, PTL DEF HInv

----------------------------------------------------------------------------
(* The connections that SioConnection gives its client are WsSessions.        *)

\* The handlers of session s that have been called.
Told(s) ==
    CASE phase[s] \in {"open", "closing"} -> <<"open">>
      [] phase[s] = "failed" -> <<"fail">>
      [] phase[s] = "closed" -> <<"open", "close">>
      [] OTHER -> <<>>

Ws(s) == INSTANCE WsSession WITH
    phase <- phase[s], told <- Told(s), asked <- asked[s], seen <- seen[s]

\* A session that has not been begun is idle.
UnbegunIdle == \A s \in Sessions : s > begun => phase[s] = "idle"

\* What a step may do to session s.
Steps(s) ==
    \/ UNCHANGED <<phase[s], asked[s], seen[s]>>
    \/ /\ phase[s] = "idle" /\ phase'[s] = "connecting" /\ begun' = s
       /\ UNCHANGED <<asked[s], seen[s]>>
    \/ /\ phase[s] = "connecting" /\ phase'[s] \in {"open", "failed"}
       /\ UNCHANGED <<asked[s], seen[s]>>
    \/ /\ phase[s] = "open" /\ phase'[s] = "closing" /\ asked'[s] \in BOOLEAN
       /\ UNCHANGED seen[s]
    \/ /\ phase[s] \in {"open", "closing"} /\ phase'[s] = "closed"
       /\ seen'[s] \in {"normal", "abnormal"} /\ (seen'[s] = "normal" => asked[s])
       /\ UNCHANGED asked[s]

LEMMA CloseStep ==
    ASSUME SioConnectionTypeOK, NEW code, CloseImpl(code), NEW s \in Sessions
    PROVE  Steps(s) /\ begun' = begun
<1>1. /\ phase \in [Sessions -> Live \cup {"idle", "failed", "closed"}]
      /\ asked \in [Sessions -> BOOLEAN]
  BY DEF SioConnectionTypeOK
<1>2. begun' = begun /\ seen' = seen
  BY DEF CloseImpl
<1>3. CASE UNCHANGED <<phase, asked>>
  BY <1>2, <1>3 DEF Steps
<1>4. CASE /\ con \in Open
           /\ phase' = [phase EXCEPT ![con] = "closing"]
           /\ asked' = [asked EXCEPT ![con] = (code = "normal")]
  <2>1. con \in Sessions /\ phase[con] = "open"
    BY <1>4 DEF Open
  <2>2. CASE s = con
    <3>1. phase[s] = "open" /\ phase'[s] = "closing" /\ asked'[s] \in BOOLEAN
      BY <1>1, <1>4, <2>1, <2>2
    <3> QED
      BY <1>2, <3>1 DEF Steps
  <2>3. CASE s # con
    <3>1. phase'[s] = phase[s] /\ asked'[s] = asked[s]
      BY <1>1, <1>4, <2>1, <2>3
    <3> QED
      BY <1>2, <3>1 DEF Steps
  <2> QED
    BY <2>2, <2>3
<1> QED
  BY <1>2, <1>3, <1>4 DEF CloseImpl, CloseSession

LEMMA ConnectStep ==
    ASSUME SioConnectionTypeOK, UnbegunIdle, ConnectImpl, NEW s \in Sessions
    PROVE  Steps(s) /\ begun' = begun + 1
<1>1. /\ phase \in [Sessions -> Live \cup {"idle", "failed", "closed"}]
      /\ begun \in Nat /\ s \in Nat /\ MaxSessions \in Nat
  BY SioConnectionAssumption DEF SioConnectionTypeOK, Sessions
<1>2. begun' = begun + 1 /\ asked' = asked /\ seen' = seen
  BY DEF ConnectImpl
<1>3. CASE s = begun + 1
  <2>1. phase[s] = "idle"
    BY <1>1, <1>3 DEF UnbegunIdle
  <2>2. phase'[s] = "connecting"
    BY <1>1, <1>3 DEF ConnectImpl
  <2> QED
    BY <1>2, <1>3, <2>1, <2>2 DEF Steps
<1>4. CASE s # begun + 1
  <2>1. phase'[s] = phase[s]
    BY <1>1, <1>4 DEF ConnectImpl
  <2> QED
    BY <1>2, <2>1 DEF Steps
<1> QED
  BY <1>3, <1>4

\* What the event of one session t does to all of them.
LEMMA EventStep ==
    ASSUME SioConnectionTypeOK, Session, NEW s \in Sessions
    PROVE  Steps(s) /\ begun' = begun
<1>1. /\ phase \in [Sessions -> Live \cup {"idle", "failed", "closed"}]
      /\ asked \in [Sessions -> BOOLEAN]
      /\ seen \in [Sessions -> {"none", "normal", "abnormal"}]
  BY DEF SioConnectionTypeOK
<1>2. CASE SessionOpens \/ SessionFails
  <2>1. PICK t \in Sessions, p \in {"open", "failed"} :
            phase[t] = "connecting" /\ phase' = [phase EXCEPT ![t] = p]
    BY <1>2 DEF SessionOpens, SessionFails
  <2>2. UNCHANGED <<begun, asked, seen>>
    BY <1>2 DEF SessionOpens, SessionFails
  <2> QED
    BY <1>1, <2>1, <2>2 DEF Steps
<1>3. CASE ServerCloses
  <2>1. PICK t \in Sessions, normal \in BOOLEAN :
            /\ phase[t] = "open" /\ phase' = [phase EXCEPT ![t] = "closing"]
            /\ asked' = [asked EXCEPT ![t] = normal]
    BY <1>3 DEF ServerCloses
  <2>2. UNCHANGED <<begun, seen>>
    BY <1>3 DEF ServerCloses
  <2> QED
    BY <1>1, <2>1, <2>2 DEF Steps
<1>4. CASE SessionEnds
  <2>1. PICK t \in Sessions, code \in {"normal", "abnormal"} :
            /\ phase[t] \in {"open", "closing"} /\ (code = "normal" => asked[t])
            /\ phase' = [phase EXCEPT ![t] = "closed"]
            /\ seen' = [seen EXCEPT ![t] = code]
    BY <1>4 DEF SessionEnds
  <2>2. UNCHANGED <<begun, asked>>
    BY <1>4 DEF SessionEnds
  <2> QED
    BY <1>1, <2>1, <2>2 DEF Steps
<1> QED
  BY <1>2, <1>3, <1>4 DEF Session

LEMMA EveryStep ==
    ASSUME SioConnectionTypeOK, UnbegunIdle, [Next]_vars, NEW s \in Sessions
    PROVE  Steps(s) /\ (begun' = begun \/ begun' = begun + 1)
<1>1. CASE UNCHANGED wsVars
  BY <1>1 DEF wsVars, Steps
<1>2. CASE \E code : CloseImpl(code)
  BY <1>2, CloseStep
<1>3. CASE ConnectImpl
  BY <1>3, ConnectStep
<1>4. CASE Session
  BY <1>4, EventStep
<1>5. CASE UNCHANGED vars
  BY <1>1, <1>5 DEF vars
<1>6. CASE User \/ TimerExpires \/ CallConnect \/ \E first \in {"closing", "syncClosing"} : CallClose(first)
  BY <1>1, <1>6 DEF User, TimerExpires, CallConnect, CallClose, ConnectLooks, Joined, ConnectStarts,
                    CloseAborts, ClosePosts
<1>7. CASE Handler
  BY <1>1, <1>2, <1>3, <1>7
     DEF Handler, OnFail, Failing, Arming, OnOpen, Opening, OnClose, Closing, Retrying,
         CloseFromHandler
<1>8. CASE Loop
  BY <1>1, <1>2, <1>3, <1>8 DEF Loop, RunPosted, RunLoopEnds, TimeoutReconnect, TimeoutPing
<1>9. CASE Packet
  BY <1>1, <1>2, <1>9 DEF Packet, OnHandshake, OnPing, OnClosePacket, wsVars
<1> QED
  BY <1>4, <1>5, <1>6, <1>7, <1>8, <1>9 DEF Next

LEMMA UnbegunStaysIdle ==
    SioConnectionTypeOK /\ UnbegunIdle /\ [Next]_vars => UnbegunIdle'
<1> SUFFICES ASSUME SioConnectionTypeOK, UnbegunIdle, [Next]_vars,
                    NEW s \in Sessions, s > begun'
             PROVE  phase'[s] = "idle"
  BY DEF UnbegunIdle, Sessions
<1>1. begun \in Nat /\ s \in Nat
  BY SioConnectionAssumption DEF SioConnectionTypeOK, Sessions
<1>2. Steps(s) /\ (begun' = begun \/ begun' = begun + 1)
  BY EveryStep
<1>3. phase[s] = "idle" /\ begun' # s
  BY <1>1, <1>2 DEF UnbegunIdle
<1> QED
  BY <1>2, <1>3 DEF Steps

\* What SioConnection lets its connections do is what WsSession lets a
\* connection do, so that nothing is assumed here that WebSocket is not shown
\* to keep.
LEMMA EnvironmentIsWs ==
    ASSUME NEW s \in Sessions
    PROVE  Spec => Ws(s)!Init /\ [][Ws(s)!Next]_(Ws(s)!sessionVars)
<1>1. Init => Ws(s)!Init /\ UnbegunIdle
  BY DEF Init, Ws!Init, Told, UnbegunIdle
<1>2. SioConnectionTypeOK /\ UnbegunIdle /\ [Next]_vars => [Ws(s)!Next]_(Ws(s)!sessionVars)
  <2> SUFFICES ASSUME SioConnectionTypeOK, UnbegunIdle, [Next]_vars
               PROVE  [Ws(s)!Next]_(Ws(s)!sessionVars)
    OBVIOUS
  <2>1. Steps(s)
    BY EveryStep
  <2> QED
    BY <2>1 DEF Steps, Told, Ws!Next, Ws!sessionVars, Ws!Begin, Ws!Opens, Ws!Fails, Ws!Closes,
                Ws!Ends, Ws!CloseCodes
<1> QED
  BY <1>1, <1>2, ConnectionTyped, UnbegunStaysIdle, PTL DEF Spec

----------------------------------------------------------------------------
(* After a normal end nothing is left on either thread that makes a          *)
(* connection: no timer, no handler of one, and of the handlers of sessions  *)
(* only the one of that end.                                                 *)

EndedNormally == begun > 0 /\ seen[begun] = "normal"

AtRest ==
    /\ NoneLive /\ Quiet
    /\ net.at \in {"idle", "onClose", "closingNormally"}
    /\ net.at = "onClose" => net.s = begun

NInv ==
    /\ \A s \in Sessions : s > begun => seen[s] = "none"
    /\ EndedNormally => AtRest

LEMMA StillAtRest ==
    ASSUME NInv, UNCHANGED <<begun, seen>>, EndedNormally /\ AtRest => AtRest'
    PROVE  NInv'
BY DEF NInv, EndedNormally

LEMMA BegunAnew ==
    ASSUME SioConnectionTypeOK, NInv, ConnectImpl, begun < MaxSessions
    PROVE  NInv'
<1>1. begun \in Nat /\ begun + 1 \in Sessions /\ begun' = begun + 1 /\ seen' = seen
  BY SioConnectionAssumption DEF SioConnectionTypeOK, Sessions, ConnectImpl
<1>2. seen[begun + 1] = "none"
  BY <1>1 DEF NInv
<1>3. \A s \in Sessions : s > begun + 1 => s > begun
  BY <1>1 DEF Sessions
<1> QED
  BY <1>1, <1>2, <1>3 DEF NInv, EndedNormally

\* close_impl finds nothing to close and no timer.
LEMMA ImplAtRest ==
    ASSUME IInv, AtRest, NEW code, CloseImpl(code)
    PROVE  NoneLive' /\ Quiet'
<1>1. con \notin Open
  BY DEF AtRest, NoneLive, Live, Open
<1> QED
  BY <1>1 DEF AtRest, CloseImpl, CancelReconn, CloseSession, NoneLive, Quiet

LEMMA UserAtRest ==
    ASSUME IInv, NInv,
           CallConnect \/ User \/ TimerExpires
             \/ \E first \in {"closing", "syncClosing"} : CallClose(first)
    PROVE  NInv'
<1> USE DEF stateVars, timerVars, loopVars, userVars, wsVars, endVars
<1>1. UNCHANGED <<begun, seen, phase, net>>
  BY DEF User, CallConnect, TimerExpires, ConnectLooks, Joined, ConnectStarts, CloseAborts,
         ClosePosts, CallClose
<1>2. Quiet => Quiet'
  BY DEF Quiet, User, CallConnect, CancelReconn, TimerExpires, ConnectLooks, Joined, ConnectStarts,
         CloseAborts, ClosePosts, CallClose
<1> QED
  BY <1>1, <1>2, StillAtRest DEF AtRest, NoneLive

LEMMA LoopAtRest ==
    ASSUME IInv, NInv, Loop
    PROVE  NInv'
<1> USE DEF stateVars, timerVars, loopVars, userVars, wsVars, endVars
<1>1. CASE RunPosted /\ Head(ioQueue) = "connect"
  <2>1. Posted
    BY <1>1, Taken DEF RunPosted, Posted, IInv, SioConnectionTypeOK
  <2>2. begun < MaxSessions
    BY <2>1 DEF IInv, PostedAlone
  <2>3. ConnectImpl
    BY <1>1 DEF RunPosted
  <2> QED
    BY <2>2, <2>3, BegunAnew DEF IInv
<1>2. CASE RunPosted /\ Head(ioQueue) # "connect"
  <2>1. CloseImpl("normal") /\ net' = net
    BY <1>2 DEF RunPosted
  <2>2. UNCHANGED <<begun, seen>>
    BY <2>1 DEF CloseImpl
  <2> QED
    BY <2>1, <2>2, ImplAtRest, StillAtRest DEF AtRest
<1>3. CASE RunLoopEnds
  BY <1>3, StillAtRest DEF RunLoopEnds, AtRest, NoneLive, Quiet
<1>4. CASE TimeoutReconnect
  BY <1>4, StillAtRest DEF TimeoutReconnect, AtRest, Quiet
<1>5. CASE TimeoutPing
  <2>1. CloseImpl("policy") /\ net' = net
    BY <1>5 DEF TimeoutPing
  <2>2. UNCHANGED <<begun, seen>>
    BY <2>1 DEF CloseImpl
  <2> QED
    BY <2>1, <2>2, ImplAtRest, StillAtRest DEF AtRest
<1> QED
  BY <1>1, <1>2, <1>3, <1>4, <1>5 DEF Loop

LEMMA HandlerAtRest ==
    ASSUME IInv, NInv, Handler
    PROVE  NInv'
<1> USE DEF stateVars, timerVars, loopVars, userVars, wsVars, endVars
<1>1. net \in [at : NetAt, s : 0..MaxSessions] /\ Idle.at = "idle"
  BY DEF IInv, SioConnectionTypeOK, Idle
<1>2. CASE OnFail \/ Failing \/ Arming \/ OnOpen \/ Opening
  <2>1. ~AtRest
    BY <1>2 DEF AtRest, OnFail, Failing, Arming, OnOpen, Opening
  <2>2. UNCHANGED <<begun, seen>>
    BY <1>2 DEF OnFail, Failing, Arming, OnOpen, Opening, CloseFromHandler, CloseImpl
  <2> QED
    BY <2>1, <2>2, StillAtRest
<1>3. CASE OnClose
  <2>1. UNCHANGED <<begun, seen, phase, reconn, stray>>
    BY <1>3 DEF OnClose
  <2>2. EndedNormally /\ AtRest => net'.at = "closingNormally"
    BY <1>1, <1>3 DEF OnClose, At, EndedNormally, AtRest
  <2> QED
    BY <2>1, <2>2, StillAtRest DEF AtRest, NoneLive, Quiet
<1>4. CASE Closing
  <2>1. UNCHANGED <<begun, seen, phase, reconn, stray>>
    BY <1>4 DEF Closing
  <2>2. AtRest => net'.at = "idle"
    BY <1>1, <1>4 DEF Closing, AtRest
  <2> QED
    BY <2>1, <2>2, StillAtRest DEF AtRest, NoneLive, Quiet
<1>5. CASE Retrying
  BY <1>5, BegunAnew DEF Retrying, IInv
<1> QED
  BY <1>2, <1>3, <1>4, <1>5 DEF Handler

LEMMA EventAtRest ==
    ASSUME IInv, UnbegunIdle, NInv, Session \/ Packet
    PROVE  NInv'
<1> USE DEF stateVars, timerVars, loopVars, userVars, wsVars, endVars
<1>1. CASE SessionOpens \/ SessionFails \/ ServerCloses
  <2>1. ~AtRest
    BY <1>1 DEF AtRest, NoneLive, Live, SessionOpens, SessionFails, ServerCloses
  <2>2. UNCHANGED <<begun, seen>>
    BY <1>1 DEF SessionOpens, SessionFails, ServerCloses
  <2> QED
    BY <2>1, <2>2, StillAtRest
<1>2. CASE SessionEnds
  <2>1. PICK s \in Sessions, code \in {"normal", "abnormal"} :
            /\ phase[s] \in {"open", "closing"}
            /\ phase' = [phase EXCEPT ![s] = "closed"]
            /\ seen' = [seen EXCEPT ![s] = code]
            /\ net' = [at |-> "onClose", s |-> s]
    BY <1>2 DEF SessionEnds
  <2>2. /\ phase \in [Sessions -> Live \cup {"idle", "failed", "closed"}]
        /\ seen \in [Sessions -> {"none", "normal", "abnormal"}]
        /\ begun \in Nat /\ begun' = begun /\ UNCHANGED <<reconn, stray>>
    BY <1>2, SioConnectionAssumption DEF SessionEnds, IInv, SioConnectionTypeOK
  <2>3. \A t \in Sessions : phase[t] \in Live => t = s
    BY <2>1 DEF IInv, OneSession, Live
  <2>4. NoneLive' /\ Quiet'
    BY <2>1, <2>2, <2>3 DEF NoneLive, Quiet, Live, IInv, RetryAlone
  <2>5. ~EndedNormally
    BY <2>1 DEF NInv, AtRest, NoneLive, Live
  <2>6. EndedNormally' => s = begun
    BY <2>1, <2>2, <2>5 DEF EndedNormally
  <2>7. s <= begun
    BY <2>1, <2>2 DEF UnbegunIdle, Sessions
  <2> QED
    BY <2>1, <2>2, <2>4, <2>6, <2>7 DEF NInv, AtRest, Sessions
<1>3. CASE Packet
  <2>1. UNCHANGED <<begun, seen, net>>
    BY <1>3 DEF Packet, OnHandshake, OnPing, OnClosePacket, CloseImpl
  <2>2. ~AtRest
    BY <1>3 DEF Packet, OnHandshake, OnPing, OnClosePacket, Open, AtRest, NoneLive, Live
  <2> QED
    BY <2>1, <2>2, StillAtRest
<1> QED
  BY <1>1, <1>2, <1>3 DEF Session

LEMMA NormalEndInv == Spec => []NInv
<1>1. Init => NInv
  BY DEF Init, NInv, EndedNormally
<1>2. IInv /\ UnbegunIdle /\ NInv /\ [Next]_vars => NInv'
  <2> SUFFICES ASSUME IInv, UnbegunIdle, NInv, [Next]_vars PROVE NInv'
    OBVIOUS
  <2>1. CASE UNCHANGED vars
    BY <2>1, StillAtRest DEF vars, timerVars, wsVars, AtRest, NoneLive, Quiet
  <2> QED
    BY <2>1, UserAtRest, LoopAtRest, HandlerAtRest, EventAtRest DEF Next
<1>3. Init => UnbegunIdle
  BY DEF Init, UnbegunIdle
<1> QED
  BY <1>1, <1>2, <1>3, Inductive, ConnectionTyped, UnbegunStaysIdle, PTL DEF Spec

\* A connection that ended normally is followed by another only through
\* connect(), for any number of connections, calls and attempts and wherever
\* the two threads are: on_close sees the code, and by then no timer, handler
\* or queued function is left that could make one.
THEOREM NormalEndsAreFinal == Spec => NormalEndIsFinal
<1>1. IInv /\ NInv /\ [Next]_vars =>
          [(begun' # begun /\ begun > 0 /\ seen[begun] = "normal") =>
              ioQueue # <<>> /\ Head(ioQueue) = "connect" /\ ioQueue' = Tail(ioQueue)]_vars
  <2> SUFFICES ASSUME IInv, NInv, Next, begun' # begun, EndedNormally
               PROVE  ioQueue # <<>> /\ Head(ioQueue) = "connect" /\ ioQueue' = Tail(ioQueue)
    BY DEF EndedNormally
  <2> USE DEF stateVars, timerVars, loopVars, userVars, wsVars, endVars
  <2>1. AtRest
    BY DEF NInv
  <2>2. \A code : CloseImpl(code) => begun' = begun
    BY DEF CloseImpl
  <2>3. Retrying \/ RunPosted
    BY <2>2 DEF Next, User, CallConnect, ConnectLooks, Joined, ConnectStarts, CloseAborts, ClosePosts,
                CallClose, Handler, OnFail, Failing, Arming, OnOpen, Opening, OnClose, Closing,
                CloseFromHandler, Loop, RunLoopEnds, TimeoutReconnect, TimeoutPing, TimerExpires,
                Session, SessionOpens, SessionFails, ServerCloses, SessionEnds,
                Packet, OnHandshake, OnPing, OnClosePacket
  <2>4. ~Retrying
    BY <2>1 DEF AtRest, Retrying
  <2> QED
    BY <2>2, <2>3, <2>4 DEF RunPosted
<1> QED
  BY <1>1, Inductive, NormalEndInv, PTL DEF Spec, NormalEndIsFinal

============================================================================
