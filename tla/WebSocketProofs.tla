--------------------------- MODULE WebSocketProofs ---------------------------
(* What holds of a client connection of websocketpp for any number of        *)
(* messages and frames and whatever the server and the network do.           *)
EXTENDS WebSocket, SequenceTheorems, TLAPS

----------------------------------------------------------------------------
(* Sequences of frames in which nothing but close frames follows a close     *)
(* frame.                                                                    *)

HasClose(s) == \E i \in 1..Len(s) : s[i].op = "close"
AllClose(s) == \A i \in 1..Len(s) : s[i].op = "close"
Ends(s) == \A i, j \in 1..Len(s) : i < j /\ s[i].op = "close" => s[j].op = "close"

\* Two sequences of which the second comes after the first.
Before(s, t) == HasClose(s) => AllClose(t)

LEMMA Added ==
    ASSUME NEW S, NEW s \in Seq(S), NEW f \in S
    PROVE  /\ Append(s, f) \in Seq(S)
           /\ Ends(s) /\ (f.op = "close" \/ ~HasClose(s)) => Ends(Append(s, f))
           /\ HasClose(Append(s, f)) => HasClose(s) \/ f.op = "close"
           /\ AllClose(s) /\ f.op = "close" => AllClose(Append(s, f))
<1>1. /\ Append(s, f) \in Seq(S)
      /\ Len(s) \in Nat /\ Len(Append(s, f)) = Len(s) + 1
      /\ Append(s, f)[Len(s) + 1] = f
      /\ \A i \in 1..Len(s) : Append(s, f)[i] = s[i]
  OBVIOUS
<1>2. \A i \in 1..Len(s) + 1 : i \in 1..Len(s) \/ i = Len(s) + 1
  BY <1>1
<1>3. HasClose(Append(s, f)) => HasClose(s) \/ f.op = "close"
  BY <1>1, <1>2 DEF HasClose
<1>4. AllClose(s) /\ f.op = "close" => AllClose(Append(s, f))
  BY <1>1, <1>2 DEF AllClose
<1>5. ASSUME Ends(s), f.op = "close" \/ ~HasClose(s) PROVE Ends(Append(s, f))
  <2> SUFFICES ASSUME NEW i \in 1..Len(s) + 1, NEW j \in 1..Len(s) + 1, i < j,
                      Append(s, f)[i].op = "close"
               PROVE  Append(s, f)[j].op = "close"
    BY <1>1 DEF Ends
  <2>1. i \in 1..Len(s) /\ s[i].op = "close" /\ HasClose(s)
    BY <1>1 DEF HasClose
  <2> QED
    BY <1>1, <1>2, <1>5, <2>1 DEF Ends
<1> QED
  BY <1>1, <1>3, <1>4, <1>5

LEMMA Joined ==
    ASSUME NEW S, NEW s \in Seq(S), NEW t \in Seq(S)
    PROVE  /\ s \o t \in Seq(S)
           /\ Ends(s) /\ Ends(t) /\ Before(s, t) => Ends(s \o t)
           /\ HasClose(s \o t) => HasClose(s) \/ HasClose(t)
<1>1. /\ s \o t \in Seq(S) /\ Len(s) \in Nat /\ Len(t) \in Nat
      /\ Len(s \o t) = Len(s) + Len(t)
      /\ \A i \in 1..Len(s) : (s \o t)[i] = s[i]
      /\ \A i \in Len(s) + 1..Len(s) + Len(t) : (s \o t)[i] = t[i - Len(s)]
  OBVIOUS
<1> DEFINE u == s \o t
<1>2. \A i \in 1..Len(u) : i \in 1..Len(s) \/ (i > Len(s) /\ i - Len(s) \in 1..Len(t))
  BY <1>1
<1>3. \A i \in 1..Len(u) : i > Len(s) => u[i] = t[i - Len(s)]
  BY <1>1
<1>4. HasClose(u) => HasClose(s) \/ HasClose(t)
  BY <1>1, <1>2, <1>3 DEF HasClose
<1>5. ASSUME Ends(s), Ends(t), Before(s, t) PROVE Ends(u)
  <2> SUFFICES ASSUME NEW i \in 1..Len(u), NEW j \in 1..Len(u), i < j, u[i].op = "close"
               PROVE  u[j].op = "close"
    BY DEF Ends
  <2>1. CASE i \in 1..Len(s) /\ j \in 1..Len(s)
    BY <1>1, <1>5, <2>1 DEF Ends
  <2>2. CASE i \in 1..Len(s) /\ j > Len(s)
    <3>1. HasClose(s)
      BY <1>1, <2>2 DEF HasClose
    <3>2. j - Len(s) \in 1..Len(t) /\ u[j] = t[j - Len(s)]
      BY <1>1, <1>2, <1>3, <2>2
    <3> QED
      BY <1>5, <3>1, <3>2 DEF Before, AllClose
  <2>3. CASE i > Len(s)
    <3>1. /\ i - Len(s) \in 1..Len(t) /\ u[i] = t[i - Len(s)]
          /\ j - Len(s) \in 1..Len(t) /\ u[j] = t[j - Len(s)]
          /\ i - Len(s) < j - Len(s)
      BY <1>1, <1>2, <1>3, <2>3
    <3> QED
      BY <1>5, <3>1 DEF Ends
  <2> QED
    BY <1>1, <1>2, <2>1, <2>2, <2>3
<1> QED
  BY <1>1, <1>4, <1>5

LEMMA Split ==
    ASSUME NEW S, NEW s \in Seq(S), NEW n \in 1..Len(s)
    PROVE  /\ SubSeq(s, 1, n) \in Seq(S) /\ SubSeq(s, n + 1, Len(s)) \in Seq(S)
           /\ Ends(s) => /\ Ends(SubSeq(s, 1, n)) /\ Ends(SubSeq(s, n + 1, Len(s)))
                         /\ Before(SubSeq(s, 1, n), SubSeq(s, n + 1, Len(s)))
           /\ AllClose(s) => AllClose(SubSeq(s, 1, n)) /\ AllClose(SubSeq(s, n + 1, Len(s)))
           /\ HasClose(SubSeq(s, 1, n)) \/ HasClose(SubSeq(s, n + 1, Len(s))) => HasClose(s)
<1> DEFINE a == SubSeq(s, 1, n)
           b == SubSeq(s, n + 1, Len(s))
<1>1. /\ Len(s) \in Nat /\ n \in Nat /\ n <= Len(s)
      /\ \A i \in 1..Len(s) : s[i] \in S
  OBVIOUS
<1>2. /\ a \in Seq(S) /\ Len(a) = n
      /\ \A i \in 1..n : a[i] = s[i]
  BY <1>1
<1>3. /\ b \in Seq(S) /\ Len(b) = Len(s) - n
      /\ \A i \in 1..Len(s) - n : b[i] = s[n + i]
  BY <1>1
<1> HIDE DEF a, b
<1>4. \A i \in 1..Len(a) : i \in 1..Len(s) /\ a[i] = s[i] /\ i <= n
  BY <1>1, <1>2
<1>5. \A i \in 1..Len(b) : n + i \in 1..Len(s) /\ b[i] = s[n + i] /\ n < n + i
  BY <1>1, <1>3
<1>6. Ends(s) => Ends(a)
  BY <1>4 DEF Ends
<1>7. Ends(s) => Ends(b)
  <2> SUFFICES ASSUME Ends(s), NEW i \in 1..Len(b), NEW j \in 1..Len(b), i < j,
                      b[i].op = "close"
               PROVE  b[j].op = "close"
    BY DEF Ends
  <2>1. n + i < n + j
    BY <1>1
  <2> QED
    BY <1>5, <2>1 DEF Ends
<1>8. Ends(s) => Before(a, b)
  <2> SUFFICES ASSUME Ends(s), NEW i \in 1..Len(a), a[i].op = "close", NEW j \in 1..Len(b)
               PROVE  b[j].op = "close"
    BY DEF Before, HasClose, AllClose
  <2>1. i < n + j
    BY <1>1, <1>4, <1>5
  <2> QED
    BY <1>4, <1>5, <2>1 DEF Ends
<1>9. AllClose(s) => AllClose(a) /\ AllClose(b)
  BY <1>4, <1>5 DEF AllClose
<1>10. HasClose(a) \/ HasClose(b) => HasClose(s)
  BY <1>4, <1>5 DEF HasClose
<1> QED
  BY <1>2, <1>3, <1>6, <1>7, <1>8, <1>9, <1>10 DEF a, b

LEMMA Empty == Ends(<<>>) /\ AllClose(<<>>) /\ ~HasClose(<<>>)
BY DEF Ends, AllClose, HasClose

----------------------------------------------------------------------------
(* What a step of any handler does to the state of the connection.           *)

CodesToSend == {"normal", "goingAway", "protocol", "policy"}

Advances ==
    /\ stage' \in {"resolve", "connect", "writeRequest", "readResponse"}
    /\ UNCHANGED <<mState, told, localCode, wasClean, asked, seen>>

Terminates ==
    /\ stage # "init"
    /\ \E failing \in BOOLEAN : Terminate(failing)

Opens ==
    /\ stage # "init"
    /\ mState = "connecting" /\ mState' = "open" /\ stage' = "frames"
    /\ told' = <<"open">> \/ (told' = <<"fail", "open">> /\ "mangle" \in Answers)
    /\ UNCHANGED <<localCode, wasClean, asked, seen>>

StartsClose ==
    /\ mState \in {"open", "closing"} /\ mState' = "closing"
    /\ localCode' \in CodesToSend
    /\ localCode' = "normal" => asked'
    /\ asked' \in BOOLEAN /\ (mState = "closing" => asked' = asked)
    /\ wasClean' \in BOOLEAN
    /\ UNCHANGED <<stage, told, seen>>

Notes ==
    /\ mState \in {"open", "closing"}
    /\ localCode' \in {localCode, "abnormal"}
    /\ wasClean' \in BOOLEAN
    /\ UNCHANGED <<mState, stage, told, asked, seen>>

LifeStep ==
    \/ UNCHANGED <<mState, stage, told, localCode, wasClean, asked, seen>>
    \/ Advances \/ Terminates \/ Opens \/ StartsClose \/ Notes

\* The types of the parts.
LifeOK ==
    /\ mState \in {"connecting", "open", "closing", "closed"}
    /\ stage \in {"init", "resolve", "connect", "writeRequest", "readResponse", "frames"}
    /\ told \in Seq({"open", "fail", "close"})
    /\ localCode \in CodesToSend \cup {"abnormal"}
    /\ seen \in CodesToSend \cup {"none", "abnormal"}
    /\ wasClean \in BOOLEAN /\ asked \in BOOLEAN

TimerOK ==
    /\ ops \subseteq OpNames
    /\ timer \in TimerStates /\ stale \subseteq {"running", "due"}

OutOK ==
    /\ sendQueue \in Seq(Frames) /\ current \in Seq(Frames) /\ wire \in Seq(Frames)
    /\ writeFlag \in BOOLEAN /\ posted \in Nat
    /\ sent \in 0..MaxSends

PeerOK ==
    /\ incoming \in Seq(ServerFrames) /\ arrived \in Nat
    /\ link \in {"up", "eof", "reset"}

\* Before async_connect nothing is pending.
StartOK ==
    stage = "init" =>
        /\ ops = {} /\ timer = "off" /\ stale = {} /\ posted = 0
        /\ mState = "connecting" /\ told = <<>>

TypeInv == LifeOK /\ TimerOK /\ OutOK /\ PeerOK /\ StartOK

\* What a close frame of the server carries.
LEMMA CloseFrames ==
    ASSUME NEW frame \in ServerFrames, frame.op = "close"
    PROVE  frame.code \in ServerCodes
BY DEF ServerFrames

LEMMA Received ==
    ASSUME PeerOK, incoming # <<>>
    PROVE  Head(incoming) \in ServerFrames /\ Tail(incoming) \in Seq(ServerFrames)
BY DEF PeerOK

\* Close frames that are sent.
LEMMA ClosingStep ==
    ASSUME LifeOK, NEW code \in CodesToSend, NEW ack \in BOOLEAN, NEW last,
           SendCloseFrame(code, ack, last), mState \in {"open", "closing"},
           asked' \in BOOLEAN, code = "normal" => asked',
           mState = "closing" => asked' = asked
    PROVE  StartsClose
<1>1. wasClean' \in BOOLEAN
  BY DEF LifeOK, SendCloseFrame
<1>2. mState' = "closing" /\ localCode' = code /\ UNCHANGED <<stage, told, seen>>
  BY DEF SendCloseFrame
<1> QED
  BY <1>1, <1>2 DEF StartsClose

LEMMA ReadingStep ==
    ASSUME TypeInv, HandleReadFrame
    PROVE  LifeStep
<1> USE DEF TypeInv
<1>1. Head(incoming) \in ServerFrames /\ stage' = stage
  BY Received DEF HandleReadFrame
<1> DEFINE frame == Head(incoming)
<1>2. stage # "init"
  BY DEF StartOK, HandleReadFrame
<1>3. UNCHANGED frameVars => LifeStep
  BY <1>1 DEF frameVars, LifeStep
<1>4. CASE frame.op = "ping" /\ ProcessPing
  BY <1>1, <1>3, <1>4 DEF ProcessPing, LifeStep
<1>5. CASE frame.op = "close" /\ ProcessClose(frame.code)
  <2>1. frame.code \in ServerCodes
    BY <1>1, <1>5, CloseFrames
  <2> HIDE DEF frame
  <2>2. PICK code \in ServerCodes : code = frame.code /\ ProcessClose(code)
    BY <1>5, <2>1
  <2>3. CASE mState \in {"open", "closing"} /\ SendCloseFrame("protocol", TRUE, FALSE) /\ UNCHANGED asked
    <3>1. asked' \in BOOLEAN
      BY <2>3 DEF LifeOK
    <3> QED
      BY <2>3, <3>1, ClosingStep DEF CodesToSend, LifeStep
  <2>4. CASE /\ mState = "open" /\ code # "invalid"
             /\ SendCloseFrame(AckCode(code), TRUE, FALSE)
             /\ asked' = (AckCode(code) = "normal")
    <3>1. AckCode(code) \in CodesToSend
      BY <2>2, <2>4 DEF AckCode, ServerCodes, CodesToSend
    <3>2. asked' \in BOOLEAN /\ (AckCode(code) = "normal" => asked')
      BY <2>4
    <3> QED
      BY <2>4, <3>1, <3>2, ClosingStep DEF LifeStep
  <2>5. CASE /\ mState = "closing" /\ wasClean' = TRUE
             /\ UNCHANGED <<mState, timer, stale, localCode, told, seen, asked, outVars>>
    BY <1>1, <2>5 DEF Notes, LifeStep
  <2> QED
    BY <1>3, <2>2, <2>3, <2>4, <2>5 DEF ProcessClose
<1>6. CASE Refuse
  <2>1. CASE mState = "open" /\ SendCloseFrame("protocol", FALSE, TRUE) /\ UNCHANGED asked
    <3>1. asked' \in BOOLEAN
      BY <2>1 DEF LifeOK
    <3> QED
      BY <2>1, <3>1, ClosingStep DEF CodesToSend, LifeStep
  <2>2. CASE End(TRUE)
    BY <1>2, <2>2 DEF End, Terminates, LifeStep
  <2> QED
    BY <1>6, <2>1, <2>2 DEF Refuse
<1> QED
  BY <1>3, <1>4, <1>5, <1>6 DEF HandleReadFrame, Answer

LEMMA LifeSteps ==
    ASSUME TypeInv, Next
    PROVE  LifeStep
<1> USE DEF TypeInv, lifeVars, closeVars
<1>1. ASSUME stage # "init", NEW failing \in BOOLEAN, Terminate(failing) PROVE LifeStep
  BY <1>1 DEF Terminates, LifeStep
<1>2. ASSUME stage # "init", NEW failing \in BOOLEAN, End(failing) PROVE LifeStep
  BY <1>1, <1>2 DEF End
<1>3. CASE Connect
  BY <1>3 DEF Connect, Advances, LifeStep
<1>4. CASE HandleResolve
  <2>1. stage # "init"
    BY <1>4 DEF HandleResolve, StartOK
  <2> QED
    BY <1>2, <1>4, <2>1 DEF HandleResolve, Outdated, FailToConnect, Advances, LifeStep
<1>5. CASE HandleConnect
  <2>1. stage # "init"
    BY <1>5 DEF HandleConnect, StartOK
  <2> QED
    BY <1>2, <1>5, <2>1 DEF HandleConnect, Outdated, FailToConnect, Advances, LifeStep
<1>6. CASE HandleConnectTimeout \/ HandleHandshakeTimeout
  <2>1. stage # "init"
    BY <1>6 DEF HandleConnectTimeout, HandleHandshakeTimeout, StartOK
  <2> QED
    BY <1>1, <1>6, <2>1 DEF HandleConnectTimeout, HandleHandshakeTimeout
<1>7. CASE HandleSendHttpRequest
  <2>1. stage # "init"
    BY <1>7 DEF HandleSendHttpRequest, StartOK
  <2> QED
    BY <1>2, <1>7, <2>1 DEF HandleSendHttpRequest, Advances, LifeStep
<1>8. CASE HandleReadHttpResponse
  <2>1. stage # "init"
    BY <1>8 DEF HandleReadHttpResponse, StartOK
  <2>2. ASSUME NEW answer \in Answers, Answered(answer) PROVE LifeStep
    BY <1>2, <2>1, <2>2 DEF Answered, Opens, LifeStep
  <2> QED
    BY <1>2, <1>8, <2>1, <2>2 DEF HandleReadHttpResponse, LifeStep
<1>9. CASE WriteFrame \/ Send \/ TimerExpires \/ ServerSends \/ ServerLeaves
  BY <1>9 DEF WriteFrame, Send, TimerExpires, ServerSends, ServerLeaves, LifeStep
<1>10. CASE HandleWriteFrame
  <2>1. stage # "init"
    BY <1>10 DEF HandleWriteFrame, StartOK
  <2> QED
    BY <1>2, <1>10, <2>1 DEF HandleWriteFrame, LifeStep
<1>11. CASE HandleReadFrame
  BY <1>11, ReadingStep
<1>12. CASE HandleReadEnd
  <2>1. stage # "init"
    BY <1>12 DEF HandleReadEnd, StartOK
  <2>2. (mState # "closing") \in BOOLEAN
    OBVIOUS
  <2> QED
    BY <1>2, <1>12, <2>1, <2>2 DEF HandleReadEnd, LifeStep
<1>13. ASSUME NEW code \in AppCodes, CloseConnection(code) PROVE LifeStep
  <2>1. CASE /\ mState = "open" /\ MayBeSent(code)
             /\ SendCloseFrame(code, FALSE, IsTerminal(code)) /\ asked' = (code = "normal")
    <3>1. code \in CodesToSend
      BY <2>1 DEF AppCodes, MayBeSent, CodesToSend
    <3>2. asked' \in BOOLEAN /\ (code = "normal" => asked')
      BY <2>1
    <3> QED
      BY <2>1, <3>1, <3>2, ClosingStep DEF LifeStep
  <2>2. CASE /\ mState = "open" /\ ~MayBeSent(code) /\ localCode' = code
             /\ UNCHANGED <<mState, stage, told, wasClean, asked, seen, timerVars, outVars>>
    <3>1. localCode' = "abnormal" /\ wasClean' \in BOOLEAN
      BY <2>2 DEF MayBeSent, LifeOK
    <3> QED
      BY <2>2, <3>1 DEF Notes, LifeStep
  <2> QED
    BY <1>13, <2>1, <2>2 DEF CloseConnection
<1> QED
  BY <1>3, <1>4, <1>5, <1>6, <1>7, <1>8, <1>9, <1>10, <1>11, <1>12, <1>13 DEF Next, Handler

----------------------------------------------------------------------------
(* What a step does to the frames that are written.                          *)

Writing == "write" \in ops

\* The next message, or a frame that is not a message.
Counts(frame) ==
    \/ frame.op # "text" /\ sent' = sent
    \/ sent < MaxSends /\ frame = Text(sent + 1) /\ sent' = sent + 1

Pushes ==
    \E frame \in Frames :
        /\ sendQueue' = Append(sendQueue, frame)
        /\ mState = "open" \/ frame.op = "close"
        /\ frame.op = "close" => mState' = "closing"
        /\ posted' \in {posted, posted + 1}
        /\ Counts(frame)
        /\ Writing' <=> Writing
        /\ UNCHANGED <<current, wire, writeFlag>>

TakesAll ==
    /\ ~writeFlag /\ TakeBatch
    /\ writeFlag' = TRUE /\ posted' \in Nat
    /\ Writing'
    /\ UNCHANGED <<wire, sent>>

Writes ==
    /\ Writing /\ ~Writing'
    /\ current' = <<>>
    /\ \/ UNCHANGED <<wire, writeFlag>>
       \/ wire' = wire \o current /\ writeFlag' \in {writeFlag, FALSE}
    /\ posted' \in Nat
    /\ UNCHANGED <<sendQueue, sent>>

Quiet ==
    /\ UNCHANGED <<sendQueue, current, sent, wire, writeFlag>> /\ posted' \in Nat
    /\ Writing' <=> Writing

OutStep == Quiet \/ Pushes \/ TakesAll \/ Writes

LEMMA FramesToSend ==
    /\ Pong \in Frames /\ Pong.op = "pong"
    /\ \A last \in BOOLEAN : Close(last) \in Frames /\ Close(last).op = "close"
    /\ \A n \in 1..MaxSends : Text(n) \in Frames /\ Text(n).op = "text"
BY DEF Frames, Pong, Close, Text

\* The frames of a step that pushes one.
LEMMA PushStep ==
    ASSUME OutOK, NEW frame \in Frames, Push(frame),
           Counts(frame), Writing' <=> Writing,
           mState = "open" \/ frame.op = "close",
           frame.op = "close" => mState' = "closing"
    PROVE  OutStep
<1>1. posted' \in {posted, posted + 1}
  BY DEF Push
<1>2. sendQueue' = Append(sendQueue, frame) /\ UNCHANGED <<current, wire, writeFlag>>
  BY DEF Push
<1> QED
  BY <1>1, <1>2 DEF Pushes, OutStep

LEMMA ClosePushed ==
    ASSUME OutOK, NEW code, NEW ack, NEW last \in BOOLEAN, SendCloseFrame(code, ack, last),
           Writing' <=> Writing
    PROVE  OutStep
<1>1. Push(Close(last)) /\ mState' = "closing" /\ sent' = sent
  BY DEF SendCloseFrame
<1>2. Close(last) \in Frames /\ Close(last).op = "close"
  BY FramesToSend
<1>3. Counts(Close(last))
  BY <1>1, <1>2 DEF Counts
<1> QED
  BY <1>1, <1>2, <1>3, PushStep

LEMMA OutSteps ==
    ASSUME TypeInv, Next
    PROVE  OutStep
<1> USE DEF TypeInv, outVars
<1>1. posted \in Nat /\ writeFlag \in BOOLEAN /\ sent \in 0..MaxSends
  BY DEF OutOK
<1>2. UNCHANGED outVars /\ (Writing' <=> Writing) => OutStep
  BY <1>1 DEF OutStep, Quiet
<1>3. CASE Connect \/ HandleResolve \/ HandleConnect \/ HandleConnectTimeout
             \/ HandleHandshakeTimeout \/ HandleSendHttpRequest \/ HandleReadHttpResponse
  <2>1. UNCHANGED outVars
    BY <1>3 DEF Connect, HandleResolve, HandleConnect, HandleConnectTimeout,
       HandleHandshakeTimeout, HandleSendHttpRequest, HandleReadHttpResponse,
       Outdated, FailToConnect
  <2>2. Writing' <=> Writing
    BY <1>3 DEF Connect, HandleResolve, HandleConnect, HandleConnectTimeout,
       HandleHandshakeTimeout, HandleSendHttpRequest, HandleReadHttpResponse,
       Outdated, FailToConnect, Start, Answered, Writing
  <2> QED
    BY <1>2, <2>1, <2>2
<1>4. CASE TimerExpires \/ ServerSends \/ ServerLeaves \/ HandleReadEnd
  BY <1>2, <1>4 DEF TimerExpires, ServerSends, ServerLeaves, HandleReadEnd, Writing
<1>5. CASE Send
  <2>1. sent + 1 \in 1..MaxSends /\ Push(Text(sent + 1)) /\ mState = "open" /\ sent' = sent + 1
    BY <1>1, <1>5, WebSocketAssumption DEF Send
  <2>2. Counts(Text(sent + 1)) /\ (Writing' <=> Writing)
    BY <1>5, <2>1 DEF Send, Counts, Writing
  <2> QED
    BY <2>1, <2>2, FramesToSend, PushStep
<1>6. ASSUME NEW code \in AppCodes, CloseConnection(code) PROVE OutStep
  <2>1. IsTerminal(code) \in BOOLEAN
    BY DEF IsTerminal
  <2>2. Writing' <=> Writing
    BY <1>6 DEF CloseConnection, Writing
  <2> QED
    BY <1>2, <1>6, <2>1, <2>2, ClosePushed DEF CloseConnection
<1>7. CASE WriteFrame
  <2>1. posted' \in Nat /\ UNCHANGED <<wire, sent>>
    BY <1>1, <1>7 DEF WriteFrame
  <2>2. CASE ~writeFlag /\ TakeBatch /\ writeFlag' = TRUE /\ ops' = ops \cup {"write"}
    BY <2>1, <2>2 DEF TakesAll, OutStep, Writing
  <2>3. CASE UNCHANGED <<current, sendQueue, writeFlag, ops>>
    BY <2>1, <2>3 DEF Quiet, OutStep, Writing
  <2> QED
    BY <1>7, <2>2, <2>3 DEF WriteFrame
<1>8. CASE HandleWriteFrame
  <2>1. current' = <<>> /\ UNCHANGED <<sendQueue, sent>> /\ Writing /\ ~Writing'
    BY <1>8 DEF HandleWriteFrame, Writing
  <2>2. \/ UNCHANGED <<wire, writeFlag>>
        \/ wire' = wire \o current /\ writeFlag' \in {writeFlag, FALSE}
    BY <1>8 DEF HandleWriteFrame
  <2>3. posted' \in Nat
    <3>1. posted' \in {posted, posted + 1}
      BY <1>8 DEF HandleWriteFrame
    <3> QED
      BY <1>1, <3>1
  <2> QED
    BY <2>1, <2>2, <2>3 DEF Writes, OutStep
<1>9. CASE HandleReadFrame
  <2>0. Writing' <=> Writing
    BY <1>9 DEF HandleReadFrame, Writing
  <2>1. UNCHANGED frameVars => OutStep
    BY <1>2, <2>0 DEF frameVars
  <2>2. ProcessPing => OutStep
    <3>1. CASE mState = "open" /\ Push(Pong) /\ UNCHANGED sent
      <4>1. Counts(Pong)
        BY <3>1, FramesToSend DEF Counts
      <4> QED
        BY <2>0, <3>1, <4>1, FramesToSend, PushStep
    <3> QED
      BY <2>1, <3>1 DEF ProcessPing
  <2>3. ASSUME NEW code, ProcessClose(code) PROVE OutStep
    BY <1>2, <2>0, <2>1, <2>3, ClosePushed DEF ProcessClose
  <2>4. Refuse => OutStep
    BY <1>2, <2>0, ClosePushed DEF Refuse
  <2> QED
    BY <1>9, <2>1, <2>2, <2>3, <2>4 DEF HandleReadFrame, Answer
<1> QED
  BY <1>3, <1>4, <1>5, <1>6, <1>7, <1>8, <1>9 DEF Next, Handler

----------------------------------------------------------------------------
(* Types.                                                                    *)

LEMMA TypeInit == Init => TypeInv
<1>1. <<>> \in Seq({"open", "fail", "close"}) /\ <<>> \in Seq(Frames) /\ <<>> \in Seq(ServerFrames)
  OBVIOUS
<1>2. Init => LifeOK
  BY <1>1 DEF Init, LifeOK, CodesToSend
<1>3. 0 \in 0..MaxSends /\ 0 \in Nat /\ FALSE \in BOOLEAN
  BY WebSocketAssumption
<1>4. ASSUME Init PROVE OutOK
  <2>1. /\ sendQueue = <<>> /\ current = <<>> /\ wire = <<>>
        /\ writeFlag = FALSE /\ posted = 0 /\ sent = 0
    BY <1>4 DEF Init
  <2> QED
    BY <1>1, <1>3, <2>1 DEF OutOK
<1>5. Init => TimerOK
  BY DEF Init, TimerOK, OpNames, TimerStates
<1>6. Init => PeerOK
  BY <1>1 DEF Init, PeerOK
<1>7. Init => StartOK
  BY DEF Init, StartOK
<1> QED
  BY <1>2, <1>4, <1>5, <1>6, <1>7 DEF TypeInv

LEMMA LifeTyped ==
    ASSUME TypeInv, LifeStep
    PROVE  LifeOK' /\ (stage # "init" => stage' # "init")
<1> USE DEF TypeInv, LifeOK
<1>1. CASE UNCHANGED <<mState, stage, told, localCode, wasClean, asked, seen>>
  BY <1>1
<1>2. CASE Advances
  BY <1>2 DEF Advances
<1>3. CASE Terminates
  <2>1. PICK failing \in BOOLEAN : Terminate(failing)
    BY <1>3 DEF Terminates
  <2>2. told' \in Seq({"open", "fail", "close"})
    <3>1. told' \in {told, <<"fail">>, Append(told, "close")}
      BY <2>1 DEF Terminate
    <3>2. Append(told, "close") \in Seq({"open", "fail", "close"})
      BY Added
    <3>3. <<"fail">> \in Seq({"open", "fail", "close"})
      OBVIOUS
    <3> QED
      BY <3>1, <3>2, <3>3
  <2>3. localCode' \in {localCode, "abnormal"} /\ seen' \in {seen, localCode'}
    BY <2>1 DEF Terminate
  <2>4. mState' = "closed" /\ UNCHANGED <<stage, wasClean, asked>>
    BY <2>1 DEF Terminate
  <2> QED
    BY <2>2, <2>3, <2>4 DEF CodesToSend
<1>4. CASE Opens
  <2>1. /\ <<"open">> \in Seq({"open", "fail", "close"})
        /\ <<"fail", "open">> \in Seq({"open", "fail", "close"})
    OBVIOUS
  <2> QED
    BY <1>4, <2>1 DEF Opens
<1>5. CASE StartsClose
  BY <1>5 DEF StartsClose
<1>6. CASE Notes
  BY <1>6 DEF Notes
<1> QED
  BY <1>1, <1>2, <1>3, <1>4, <1>5, <1>6 DEF LifeStep

LEMMA OutTyped ==
    ASSUME TypeInv, OutStep
    PROVE  OutOK'
<1> USE DEF TypeInv, OutOK
<1>1. CASE Quiet
  BY <1>1 DEF Quiet
<1>2. CASE Pushes
  <2>1. PICK frame \in Frames : sendQueue' = Append(sendQueue, frame)
    BY <1>2 DEF Pushes
  <2>2. sendQueue' \in Seq(Frames)
    BY <2>1, Added
  <2>3. posted' \in Nat /\ sent' \in 0..MaxSends
    <3>1. posted' \in {posted, posted + 1}
      BY <1>2 DEF Pushes
    <3>2. sent' = sent \/ (sent < MaxSends /\ sent' = sent + 1)
      BY <1>2 DEF Pushes, Counts
    <3> QED
      BY <3>1, <3>2, WebSocketAssumption
  <2>4. UNCHANGED <<current, wire, writeFlag>>
    BY <1>2 DEF Pushes
  <2> QED
    BY <2>2, <2>3, <2>4
<1>3. CASE TakesAll
  <2>1. current' \in Seq(Frames) /\ sendQueue' \in Seq(Frames)
    BY <1>3, Split DEF TakesAll, TakeBatch
  <2> QED
    BY <1>3, <2>1 DEF TakesAll
<1>4. CASE Writes
  <2>1. wire \o current \in Seq(Frames) /\ <<>> \in Seq(Frames)
    BY Joined
  <2> QED
    BY <1>4, <2>1 DEF Writes
<1> QED
  BY <1>1, <1>2, <1>3, <1>4 DEF OutStep

\* Timers and operations.
LEMMA TimerTyped ==
    ASSUME TypeInv, Next
    PROVE  TimerOK'
<1> USE DEF TypeInv, TimerOK, OpNames, TimerStates, lifeVars, closeVars, timerVars
<1>1. Lost \subseteq {"running", "due"}
  BY DEF Lost
<1>2. CancelTimer => timer' \in TimerStates /\ stale' \subseteq {"running", "due"}
  BY <1>1 DEF CancelTimer
<1>3. ASSUME NEW failing, End(failing)
      PROVE  timer' \in TimerStates /\ stale' \subseteq {"running", "due"}
  BY <1>2, <1>3 DEF End
<1>4. ASSUME NEW code, NEW ack, NEW last, SendCloseFrame(code, ack, last)
      PROVE  timer' \in TimerStates /\ stale' \subseteq {"running", "due"}
  BY <1>4 DEF SendCloseFrame
<1>5. CASE Connect \/ HandleResolve \/ HandleConnect
  BY <1>3, <1>5 DEF Connect, HandleResolve, HandleConnect, Start, Outdated, FailToConnect
<1>6. CASE HandleConnectTimeout \/ HandleHandshakeTimeout
  BY <1>1, <1>6 DEF HandleConnectTimeout, HandleHandshakeTimeout
<1>7. CASE HandleSendHttpRequest \/ HandleWriteFrame \/ HandleReadEnd
  BY <1>3, <1>7 DEF HandleSendHttpRequest, HandleWriteFrame, HandleReadEnd
<1>8. CASE HandleReadHttpResponse
  BY <1>2, <1>3, <1>8 DEF HandleReadHttpResponse, Answered
<1>9. CASE WriteFrame \/ Send \/ TimerExpires \/ ServerSends \/ ServerLeaves
  BY <1>9 DEF WriteFrame, Send, TimerExpires, ServerSends, ServerLeaves
<1>10. ASSUME NEW code \in AppCodes, CloseConnection(code) PROVE TimerOK'
  BY <1>4, <1>10 DEF CloseConnection
<1>11. CASE HandleReadFrame
  <2>1. ops' \subseteq ops
    BY <1>11 DEF HandleReadFrame
  <2>2. UNCHANGED frameVars => UNCHANGED timerVars
    BY DEF frameVars
  <2>3. timer' \in TimerStates /\ stale' \subseteq {"running", "due"}
    BY <1>3, <1>4, <1>11, <2>2
       DEF HandleReadFrame, Answer, ProcessPing, ProcessClose, Refuse
  <2> QED
    BY <2>1, <2>3
<1> QED
  BY <1>5, <1>6, <1>7, <1>8, <1>9, <1>10, <1>11 DEF Next, Handler

LEMMA PeerTyped ==
    ASSUME TypeInv, Next
    PROVE  PeerOK'
<1> USE DEF TypeInv, PeerOK, peerVars
<1>1. CASE UNCHANGED <<incoming, arrived, link>>
  BY <1>1
<1>2. CASE HandleReadFrame
  BY <1>2, Received DEF HandleReadFrame
<1>3. CASE ServerSends
  <2>1. PICK frame \in ServerFrames : incoming' = Append(incoming, frame)
    BY <1>3 DEF ServerSends
  <2>2. incoming' \in Seq(ServerFrames)
    BY <2>1, Added
  <2> QED
    BY <1>3, <2>2 DEF ServerSends
<1>4. CASE ServerLeaves
  BY <1>4 DEF ServerLeaves
<1> QED
  BY <1>1, <1>2, <1>3, <1>4
     DEF Next, Handler, Connect, Send, CloseConnection, TimerExpires, HandleResolve,
         HandleConnect, Outdated, FailToConnect, HandleConnectTimeout, HandleHandshakeTimeout,
         HandleSendHttpRequest, HandleReadHttpResponse, WriteFrame, HandleWriteFrame,
         HandleReadEnd

\* The first thing that happens is async_connect.
LEMMA FirstStep ==
    ASSUME TypeInv, stage = "init", Next
    PROVE  stage' # "init"
<1> USE DEF TypeInv, StartOK
<1>1. ~Send /\ ~TimerExpires /\ ~ServerSends /\ ~ServerLeaves
  BY DEF Send, TimerExpires, ServerSends, ServerLeaves
<1>2. \A code \in AppCodes : ~CloseConnection(code)
  BY DEF CloseConnection
<1>3. ~WriteFrame
  BY DEF WriteFrame
<1>4. ~HandleConnectTimeout /\ ~HandleHandshakeTimeout
  BY DEF HandleConnectTimeout, HandleHandshakeTimeout
<1>5. ~HandleResolve /\ ~HandleConnect /\ ~HandleSendHttpRequest /\ ~HandleReadHttpResponse
  BY DEF HandleResolve, HandleConnect, HandleSendHttpRequest, HandleReadHttpResponse
<1>6. ~HandleWriteFrame /\ ~HandleReadFrame /\ ~HandleReadEnd
  BY DEF HandleWriteFrame, HandleReadFrame, HandleReadEnd
<1>7. Connect
  BY <1>1, <1>2, <1>3, <1>4, <1>5, <1>6 DEF Next, Handler
<1> QED
  BY <1>7 DEF Connect

LEMMA TypeNext ==
    ASSUME TypeInv, [Next]_vars
    PROVE  TypeInv'
<1>1. CASE UNCHANGED vars
  BY <1>1 DEF vars, lifeVars, closeVars, timerVars, outVars, peerVars,
     TypeInv, LifeOK, TimerOK, OutOK, PeerOK, StartOK
<1>2. CASE Next
  <2>1. stage' # "init"
    BY <1>2, FirstStep, LifeSteps, LifeTyped
  <2> QED
    BY <1>2, <2>1, LifeSteps, LifeTyped, OutSteps, OutTyped, TimerTyped, PeerTyped
       DEF TypeInv, StartOK
<1> QED
  BY <1>1, <1>2

LEMMA Typed == Spec => []TypeInv
BY TypeInit, TypeNext, PTL DEF Spec

\* The variables of the connection keep their types: no handler is called, no
\* code found and no frame queued but those that exist.
THEOREM WebSocketTyped == Spec => []WebSocketTypeOK
<1>1. TypeInv => WebSocketTypeOK
  BY DEF TypeInv, LifeOK, TimerOK, OutOK, PeerOK, WebSocketTypeOK, CodesToSend
<1> QED
  BY <1>1, Typed, PTL

----------------------------------------------------------------------------
(* The order of the frames.  What is out consists of the frames written,     *)
(* those being written and those that wait; a close frame in one of the      *)
(* three admits only close frames behind it, and the connection is then      *)
(* closing, so that neither send nor pong adds to the queue.                 *)

Leaving == mState \in {"closing", "closed"}

OrderOK ==
    /\ Ends(wire) /\ Ends(current) /\ Ends(sendQueue)
    /\ Before(wire, current) /\ Before(wire, sendQueue) /\ Before(current, sendQueue)
    /\ HasClose(wire) \/ HasClose(current) \/ HasClose(sendQueue) => Leaving

LEMMA StaysLeaving ==
    ASSUME LifeStep, Leaving
    PROVE  Leaving'
BY DEF LifeStep, Leaving, Advances, Terminates, Terminate, Opens, StartsClose, Notes

LEMMA OrderPush ==
    ASSUME OutOK, LifeStep, OrderOK, Pushes
    PROVE  OrderOK'
<1> USE DEF OutOK
<1>1. PICK frame \in Frames :
        /\ sendQueue' = Append(sendQueue, frame)
        /\ mState = "open" \/ frame.op = "close"
        /\ frame.op = "close" => mState' = "closing"
        /\ UNCHANGED <<current, wire>>
  BY DEF Pushes
<1> DEFINE queue == Append(sendQueue, frame)
<1>2. /\ Ends(sendQueue) /\ (frame.op = "close" \/ ~HasClose(sendQueue)) => Ends(queue)
      /\ HasClose(queue) => HasClose(sendQueue) \/ frame.op = "close"
      /\ AllClose(sendQueue) /\ frame.op = "close" => AllClose(queue)
  BY Added
<1>3. frame.op = "close"
      \/ (~HasClose(wire) /\ ~HasClose(current) /\ ~HasClose(sendQueue))
  BY <1>1 DEF OrderOK, Leaving
<1> HIDE DEF queue
<1>4. Ends(queue) /\ Before(wire, queue) /\ Before(current, queue)
  BY <1>2, <1>3 DEF OrderOK, Before
<1>5. HasClose(wire) \/ HasClose(current) \/ HasClose(queue) => Leaving'
  BY <1>1, <1>2, StaysLeaving DEF OrderOK, Leaving
<1>6. sendQueue' = queue /\ current' = current /\ wire' = wire
  BY <1>1 DEF queue
<1> QED
  BY <1>4, <1>5, <1>6 DEF OrderOK, Before, Ends, HasClose, AllClose

LEMMA OrderTake ==
    ASSUME OutOK, LifeStep, OrderOK, TakesAll
    PROVE  OrderOK'
<1> USE DEF OutOK
<1>1. PICK n \in 1..Len(sendQueue) :
        /\ current' = SubSeq(sendQueue, 1, n)
        /\ sendQueue' = SubSeq(sendQueue, n + 1, Len(sendQueue))
        /\ wire' = wire
  BY DEF TakesAll, TakeBatch
<1> DEFINE a == SubSeq(sendQueue, 1, n)
           b == SubSeq(sendQueue, n + 1, Len(sendQueue))
<1>2. /\ Ends(a) /\ Ends(b) /\ Before(a, b)
      /\ AllClose(sendQueue) => AllClose(a) /\ AllClose(b)
      /\ HasClose(a) \/ HasClose(b) => HasClose(sendQueue)
  BY Split DEF OrderOK
<1>3. current' = a /\ sendQueue' = b /\ wire' = wire
  BY <1>1
<1> HIDE DEF a, b
<1>4. Ends(wire) /\ Before(wire, a) /\ Before(wire, b)
  BY <1>2 DEF OrderOK, Before
<1>5. HasClose(wire) \/ HasClose(a) \/ HasClose(b) => Leaving'
  BY <1>2, StaysLeaving DEF OrderOK
<1> QED
  BY <1>2, <1>3, <1>4, <1>5 DEF OrderOK, Before, Ends, HasClose, AllClose

LEMMA OrderWrite ==
    ASSUME OutOK, LifeStep, OrderOK, Writes
    PROVE  OrderOK'
<1> USE DEF OutOK
<1> DEFINE all == wire \o current
<1>1. Ends(all) /\ (HasClose(all) => HasClose(wire) \/ HasClose(current))
  BY Joined DEF OrderOK
<1>2. wire' \in {wire, all} /\ current' = <<>> /\ sendQueue' = sendQueue
  BY DEF Writes
<1> HIDE DEF all
<1>3. PICK out \in {wire, all} : wire' = out
  BY <1>2
<1>4. Ends(out) /\ (HasClose(out) => HasClose(wire) \/ HasClose(current))
  BY <1>1 DEF OrderOK
<1>5. Ends(sendQueue) /\ Before(out, sendQueue)
  BY <1>4 DEF OrderOK, Before
<1>6. HasClose(out) \/ HasClose(<<>>) \/ HasClose(sendQueue) => Leaving'
  BY <1>4, Empty, StaysLeaving DEF OrderOK
<1>7. Ends(<<>>) /\ Before(out, <<>>) /\ Before(<<>>, sendQueue)
  BY Empty DEF Before
<1> QED
  BY <1>2, <1>3, <1>4, <1>5, <1>6, <1>7 DEF OrderOK, Before, Ends, HasClose, AllClose

LEMMA OrderInit == Init => OrderOK
BY Empty DEF Init, OrderOK, Before

LEMMA OrderNext ==
    ASSUME TypeInv, OrderOK, [Next]_vars
    PROVE  OrderOK'
<1>1. CASE UNCHANGED <<sendQueue, current, wire>> /\ (Leaving => Leaving')
  BY <1>1 DEF OrderOK, Before, Ends, HasClose, AllClose
<1>2. CASE UNCHANGED vars
  BY <1>1, <1>2 DEF vars, lifeVars, outVars, Leaving
<1>3. CASE Next
  <2>1. OutOK /\ LifeStep /\ OutStep /\ (Leaving => Leaving')
    BY <1>3, LifeSteps, OutSteps, StaysLeaving DEF TypeInv
  <2> QED
    BY <1>1, <2>1, OrderPush, OrderTake, OrderWrite DEF OutStep, Quiet
<1> QED
  BY <1>2, <1>3

\* Once a close frame is on its way the client writes no message and no pong
\* behind it, however many it has sent and whenever the server closes.
THEOREM NothingBehindClose == Spec => []NothingAfterClose
<1>1. ASSUME TypeInv, OrderOK PROVE NothingAfterClose
  <2> DEFINE first == wire \o current
  <2>1. /\ first \in Seq(Frames) /\ Ends(first)
        /\ HasClose(first) => HasClose(wire) \/ HasClose(current)
    BY <1>1, Joined DEF TypeInv, OutOK, OrderOK
  <2>2. sendQueue \in Seq(Frames)
    BY <1>1 DEF TypeInv, OutOK
  <2> HIDE DEF first
  <2>3. Before(first, sendQueue) /\ Ends(sendQueue)
    BY <1>1, <2>1 DEF OrderOK, Before
  <2>4. Ends(first \o sendQueue)
    BY <2>1, <2>2, <2>3, Joined
  <2> QED
    BY <2>4 DEF NothingAfterClose, Ends, first
<1> QED
  BY <1>1, Typed, OrderInit, OrderNext, PTL DEF Spec

----------------------------------------------------------------------------
(* The order of the messages.  What is out is numbered without a gap up to   *)
(* the last message that send() has accepted.  A write that fails drops the  *)
(* frames it was to write, and from then on nothing is written: the write    *)
(* flag stays set and no write is pending.                                   *)

Numbered(s) ==
    \A i \in 1..Len(s) : s[i].op = "text" =>
        /\ \A j \in 1..i - 1 : s[j].op = "text" => s[j].id < s[i].id
        /\ s[i].id > 1 => \E j \in 1..i - 1 : s[j] = Text(s[i].id - 1)

\* The messages of s are those up to the n-th.
Complete(s, n) ==
    /\ Numbered(s)
    /\ \A i \in 1..Len(s) : s[i].op = "text" => s[i].id <= n
    /\ n > 0 => \E i \in 1..Len(s) : s[i] = Text(n)

Out == wire \o (current \o sendQueue)

Stuck == writeFlag /\ ~Writing

SendInv ==
    /\ Writing => writeFlag
    /\ ~Writing => current = <<>>
    /\ Numbered(wire)
    /\ Stuck \/ Complete(Out, sent)

LEMMA NumberedStart ==
    ASSUME NEW S, NEW s \in Seq(S), NEW t \in Seq(S), Numbered(s \o t)
    PROVE  Numbered(s)
<1>1. /\ Len(s) \in Nat /\ Len(t) \in Nat /\ Len(s \o t) = Len(s) + Len(t)
      /\ \A i \in 1..Len(s) : (s \o t)[i] = s[i]
  BY ConcatProperties, LenProperties
<1> DEFINE u == s \o t
<1> HIDE DEF u
<1>2. \A i \in 1..Len(s) : i \in 1..Len(u) /\ u[i] = s[i] /\ 1..i - 1 \subseteq 1..Len(s)
  BY <1>1 DEF u
<1>3. Numbered(u)
  BY DEF u
<1> SUFFICES ASSUME NEW i \in 1..Len(s), s[i].op = "text"
             PROVE  /\ \A j \in 1..i - 1 : s[j].op = "text" => s[j].id < s[i].id
                    /\ s[i].id > 1 => \E j \in 1..i - 1 : s[j] = Text(s[i].id - 1)
  BY DEF Numbered
<1>4. /\ \A j \in 1..i - 1 : u[j].op = "text" => u[j].id < u[i].id
      /\ u[i].id > 1 => \E j \in 1..i - 1 : u[j] = Text(u[i].id - 1)
  BY <1>2, <1>3 DEF Numbered
<1> QED
  BY <1>2, <1>4

\* The number of a message.
LEMMA MessageNumbers ==
    ASSUME NEW frame \in Frames, frame.op = "text"
    PROVE  frame.id \in Nat /\ frame = Text(frame.id)
<1>1. PICK n \in 1..MaxSends : frame = Text(n)
  BY DEF Frames, Pong, Close
<1>2. frame.id = n /\ n \in Nat
  BY <1>1, WebSocketAssumption DEF Text
<1> QED
  BY <1>1, <1>2

LEMMA CompleteAppend ==
    ASSUME NEW s \in Seq(Frames), NEW n \in Nat, Complete(s, n), NEW frame \in Frames
    PROVE  /\ frame.op # "text" => Complete(Append(s, frame), n)
           /\ frame = Text(n + 1) => Complete(Append(s, frame), n + 1)
<1> DEFINE u == Append(s, frame)
<1>1. /\ Len(s) \in Nat /\ Len(u) = Len(s) + 1 /\ u[Len(s) + 1] = frame
      /\ \A i \in 1..Len(s) : u[i] = s[i] /\ s[i] \in Frames
  OBVIOUS
<1> HIDE DEF u
<1>2. /\ \A i \in 1..Len(u) : i \in 1..Len(s) \/ i = Len(s) + 1
      /\ \A i \in 1..Len(s) : i \in 1..Len(u) /\ 1..i - 1 \subseteq 1..Len(s)
      /\ Len(s) + 1 \in 1..Len(u) /\ 1..(Len(s) + 1) - 1 = 1..Len(s)
  BY <1>1
<1>3. ASSUME NEW i \in 1..Len(s), u[i].op = "text"
      PROVE  /\ \A j \in 1..i - 1 : u[j].op = "text" => u[j].id < u[i].id
             /\ u[i].id > 1 => \E j \in 1..i - 1 : u[j] = Text(u[i].id - 1)
  <2>1. s[i].op = "text" /\ u[i] = s[i] /\ \A j \in 1..i - 1 : u[j] = s[j]
    BY <1>1, <1>2, <1>3
  <2>2. /\ \A j \in 1..i - 1 : s[j].op = "text" => s[j].id < s[i].id
        /\ s[i].id > 1 => \E j \in 1..i - 1 : s[j] = Text(s[i].id - 1)
    BY <2>1 DEF Complete, Numbered
  <2> QED
    BY <2>1, <2>2
<1>4. ASSUME frame.op # "text" PROVE Complete(u, n)
  <2>1. Numbered(u)
    BY <1>1, <1>2, <1>3, <1>4 DEF Numbered
  <2>2. \A i \in 1..Len(u) : u[i].op = "text" => u[i].id <= n
    BY <1>1, <1>2, <1>4 DEF Complete
  <2>3. n > 0 => \E i \in 1..Len(u) : u[i] = Text(n)
    BY <1>1, <1>2 DEF Complete
  <2> QED
    BY <2>1, <2>2, <2>3 DEF Complete
<1>5. ASSUME frame = Text(n + 1) PROVE Complete(u, n + 1)
  <2>0. frame.op = "text" /\ frame.id = n + 1
    BY <1>5 DEF Text
  <2>1. \A i \in 1..Len(s) : u[i].op = "text" => u[i].id \in Nat /\ u[i].id <= n
    BY <1>1, MessageNumbers DEF Complete
  <2>2. \A j \in 1..Len(s) : u[j].op = "text" => u[j].id < n + 1
    BY <2>1
  <2>3. n + 1 > 1 => \E j \in 1..Len(s) : u[j] = Text((n + 1) - 1)
    <3>1. n + 1 > 1 => n > 0
      OBVIOUS
    <3>2. (n + 1) - 1 = n
      OBVIOUS
    <3> QED
      BY <1>1, <3>1, <3>2 DEF Complete
  <2>4. Numbered(u)
    <3> SUFFICES ASSUME NEW i \in 1..Len(u), u[i].op = "text"
                 PROVE  /\ \A j \in 1..i - 1 : u[j].op = "text" => u[j].id < u[i].id
                        /\ u[i].id > 1 => \E j \in 1..i - 1 : u[j] = Text(u[i].id - 1)
      BY DEF Numbered
    <3>1. CASE i \in 1..Len(s)
      BY <1>3, <3>1
    <3>2. CASE i = Len(s) + 1
      <4>1. u[i].id = n + 1 /\ 1..i - 1 = 1..Len(s)
        BY <1>1, <1>2, <2>0, <3>2
      <4> QED
        BY <2>2, <2>3, <4>1
    <3> QED
      BY <1>2, <3>1, <3>2
  <2>5. \A i \in 1..Len(u) : u[i].op = "text" => u[i].id <= n + 1
    <3>1. \A i \in 1..Len(s) : u[i].op = "text" => u[i].id <= n + 1
      BY <2>1
    <3> QED
      BY <1>1, <1>2, <2>0, <3>1
  <2>6. n + 1 > 0 => \E i \in 1..Len(u) : u[i] = Text(n + 1)
    BY <1>1, <1>2, <1>5
  <2> QED
    BY <2>4, <2>5, <2>6 DEF Complete
<1> QED
  BY <1>4, <1>5 DEF u

LEMMA SendPush ==
    ASSUME OutOK, SendInv, Pushes
    PROVE  SendInv'
<1> USE DEF OutOK
<1>1. PICK frame \in Frames :
        /\ sendQueue' = Append(sendQueue, frame) /\ Counts(frame)
        /\ Writing' <=> Writing
        /\ UNCHANGED <<current, wire, writeFlag>>
  BY DEF Pushes
<1>2. Out \in Seq(Frames) /\ Out' = Append(Out, frame)
  <2>1. Append(sendQueue, frame) \in Seq(Frames) /\ current \o sendQueue \in Seq(Frames)
    OBVIOUS
  <2>2. current \o Append(sendQueue, frame) = Append(current \o sendQueue, frame)
    OBVIOUS
  <2>3. wire \o Append(current \o sendQueue, frame) = Append(wire \o (current \o sendQueue), frame)
    BY <2>1
  <2>4. wire \o (current \o sendQueue) \in Seq(Frames)
    BY <2>1
  <2> QED
    BY <1>1, <2>2, <2>3, <2>4 DEF Out
<1>3. Complete(Out, sent) => Complete(Out', sent')
  <2>1. sent \in Nat
    BY WebSocketAssumption
  <2> QED
    BY <1>1, <1>2, <2>1, CompleteAppend DEF Counts
<1>4. Numbered(wire)'
  BY <1>1 DEF SendInv, Numbered
<1>5. Complete(Out, sent)' <=> Complete(Out', sent')
  BY DEF Complete, Numbered
<1> QED
  BY <1>1, <1>3, <1>4, <1>5 DEF SendInv, Stuck

LEMMA SendTake ==
    ASSUME OutOK, SendInv, TakesAll
    PROVE  SendInv'
<1> USE DEF OutOK
<1>1. PICK n \in 1..Len(sendQueue) :
        /\ current' = SubSeq(sendQueue, 1, n)
        /\ sendQueue' = SubSeq(sendQueue, n + 1, Len(sendQueue))
  BY DEF TakesAll, TakeBatch
<1>2. UNCHANGED <<wire, sent>> /\ ~writeFlag /\ writeFlag' /\ Writing'
  BY DEF TakesAll
<1>3. current = <<>> /\ Complete(Out, sent)
  BY <1>2 DEF SendInv, Stuck
<1>4. Out' = Out
  <2>1. SubSeq(sendQueue, 1, n) \o SubSeq(sendQueue, n + 1, Len(sendQueue)) = sendQueue
    <3>1. /\ 1 \in 1..Len(sendQueue) + 1 /\ n \in 1 - 1..Len(sendQueue)
          /\ Len(sendQueue) \in n..Len(sendQueue)
      OBVIOUS
    <3> QED
      BY <3>1, ConcatAdjacentSubSeq, SubSeqFull
  <2>2. <<>> \o sendQueue = sendQueue
    BY ConcatEmptySeq
  <2> QED
    BY <1>1, <1>2, <1>3, <2>1, <2>2 DEF Out
<1>5. Complete(Out, sent)'
  BY <1>2, <1>3, <1>4 DEF Complete, Numbered
<1>6. Numbered(wire)'
  BY <1>2 DEF SendInv, Numbered
<1> QED
  BY <1>2, <1>5, <1>6 DEF SendInv, Stuck

LEMMA SendWrite ==
    ASSUME OutOK, SendInv, Writes
    PROVE  SendInv'
<1> USE DEF OutOK
<1>1. /\ Writing /\ ~Writing' /\ current' = <<>>
      /\ UNCHANGED <<sendQueue, sent>>
      /\ \/ UNCHANGED <<wire, writeFlag>>
         \/ wire' = wire \o current
  BY DEF Writes
<1>2. Complete(Out, sent) /\ writeFlag
  BY <1>1 DEF SendInv, Stuck
<1>3. CASE UNCHANGED <<wire, writeFlag>>
  <2>1. Numbered(wire)'
    BY <1>3 DEF SendInv, Numbered
  <2> QED
    BY <1>1, <1>2, <1>3, <2>1 DEF SendInv, Stuck
<1>4. CASE wire' = wire \o current
  <2>1. wire \o current \in Seq(Frames) /\ Out = (wire \o current) \o sendQueue
    BY ConcatProperties, ConcatAssociative DEF Out
  <2>2. <<>> \o sendQueue = sendQueue
    BY ConcatEmptySeq
  <2>3. Out' = Out
    BY <1>1, <1>4, <2>1, <2>2 DEF Out
  <2>4. Complete(Out, sent)'
    BY <1>1, <1>2, <2>3 DEF Complete, Numbered
  <2>5. Numbered(wire \o current)
    BY <1>2, <2>1, NumberedStart DEF Complete
  <2>6. Numbered(wire)'
    BY <1>4, <2>5 DEF Numbered
  <2> QED
    BY <1>1, <2>4, <2>6 DEF SendInv
<1> QED
  BY <1>1, <1>3, <1>4

LEMMA SendInit == Init => SendInv
<1> SUFFICES ASSUME Init PROVE SendInv
  OBVIOUS
<1>1. ops = {} /\ ~writeFlag /\ current = <<>> /\ wire = <<>> /\ sendQueue = <<>> /\ sent = 0
  BY DEF Init
<1>2. Out = <<>>
  <2>1. <<>> \o <<>> = <<>>
    OBVIOUS
  <2> QED
    BY <1>1, <2>1 DEF Out
<1>3. Complete(<<>>, 0) /\ Numbered(<<>>)
  BY DEF Complete, Numbered
<1> QED
  BY <1>1, <1>2, <1>3 DEF SendInv, Writing

LEMMA SendNext ==
    ASSUME TypeInv, SendInv, [Next]_vars
    PROVE  SendInv'
<1>1. CASE Quiet
  BY <1>1 DEF Quiet, SendInv, Stuck, Out, Complete, Numbered
<1>2. CASE UNCHANGED vars
  BY <1>2 DEF vars, outVars, SendInv, Stuck, Out, Complete, Numbered, Writing
<1>3. CASE Next
  BY <1>1, <1>3, OutSteps, SendPush, SendTake, SendWrite DEF TypeInv, OutStep
<1> QED
  BY <1>2, <1>3

\* The messages the server gets are the first ones that send() accepted, each
\* once and in their order, however many are sent, whatever waits in the queue
\* while a write is under way and whichever write fails.
THEOREM MessagesInOrder == Spec => []SentInOrder
<1>1. SendInv => SentInOrder
  BY DEF SendInv, Numbered, SentInOrder
<1> QED
  BY <1>1, Typed, SendInit, SendNext, PTL DEF Spec

----------------------------------------------------------------------------
(* The session.  When no header of extensions is mangled, the handlers that  *)
(* have been called follow from m_state, and the code "normal" is the local  *)
(* one only after a side has asked for it.                                   *)

Regular == "mangle" \notin Answers

SessionInv ==
    /\ mState = "connecting" => told = <<>> /\ localCode = "abnormal"
    /\ mState \in {"open", "closing"} => told = <<"open">>
    /\ mState = "closed" => told \in {<<"fail">>, <<"open", "close">>}
    /\ mState \in {"open", "closing"} /\ localCode = "normal" => asked

LEMMA SessionInit == Init => SessionInv
BY DEF Init, SessionInv

LEMMA Told ==
    /\ Append(<<"open">>, "close") = <<"open", "close">>
    /\ <<"open">> # <<>> /\ <<"fail">> # <<>> /\ <<"open", "close">> # <<>>
    /\ Last(<<"open">>) = "open" /\ Last(<<"fail">>) = "fail"
    /\ Last(<<"open", "close">>) = "close"
<1>1. Append(<<"open">>, "close") = <<"open", "close">>
  <2> DEFINE Names == {"open", "close"}
             a == Append(<<"open">>, "close")
             b == <<"open", "close">>
  <2>1. a \in Seq(Names) /\ Len(a) = 2 /\ a[1] = "open" /\ a[2] = "close"
    OBVIOUS
  <2>2. b \in Seq(Names) /\ Len(b) = 2 /\ b[1] = "open" /\ b[2] = "close"
    OBVIOUS
  <2> HIDE DEF Names, a, b
  <2>3. \A i \in 1..Len(a) : a[i] = b[i]
    BY <2>1, <2>2
  <2> QED
    BY <2>1, <2>2, <2>3, SeqEqual DEF a, b
<1>2. <<"open">> # <<>> /\ <<"fail">> # <<>> /\ <<"open", "close">> # <<>>
  OBVIOUS
<1>3. Len(<<"open">>) = 1 /\ Len(<<"fail">>) = 1 /\ Len(<<"open", "close">>) = 2
  OBVIOUS
<1>4. Last(<<"open">>) = "open" /\ Last(<<"fail">>) = "fail"
  BY <1>3 DEF Last
<1>5. Last(<<"open", "close">>) = "close"
  BY <1>3 DEF Last
<1> QED
  BY <1>1, <1>2, <1>4, <1>5

LEMMA SessionNext ==
    ASSUME Regular, LifeOK, SessionInv, LifeStep
    PROVE  SessionInv'
<1>1. CASE UNCHANGED <<mState, stage, told, localCode, wasClean, asked, seen>>
  BY <1>1 DEF SessionInv
<1>2. CASE Advances
  BY <1>2 DEF SessionInv, Advances
<1>3. CASE Terminates
  <2>1. mState' = "closed"
    BY <1>3 DEF Terminates, Terminate
  <2>2. told' \in {<<"fail">>, <<"open", "close">>}
    BY <1>3, Told DEF Terminates, Terminate, SessionInv, LifeOK
  <2> QED
    BY <2>1, <2>2 DEF SessionInv
<1>4. CASE Opens
  <2>1. told' = <<"open">> /\ mState' = "open" /\ localCode' = "abnormal"
    BY <1>4 DEF Opens, Regular, SessionInv
  <2> QED
    BY <2>1 DEF SessionInv
<1>5. CASE StartsClose
  BY <1>5 DEF SessionInv, StartsClose
<1>6. CASE Notes
  BY <1>6 DEF SessionInv, Notes
<1> QED
  BY <1>1, <1>2, <1>3, <1>4, <1>5, <1>6 DEF LifeStep

\* The phase of the session for given handlers, stage and state.
PhaseOf(handlers, st, m) ==
    IF handlers = <<>> THEN IF st = "init" THEN "idle" ELSE "connecting"
    ELSE CASE Last(handlers) = "fail" -> "failed"
           [] Last(handlers) = "close" -> "closed"
           [] OTHER -> m

LEMMA Phase ==
    /\ phase = PhaseOf(told, stage, mState)
    /\ phase' = PhaseOf(told', stage', mState')
BY DEF phase, PhaseOf

LEMMA Phases ==
    \A st, m :
        /\ PhaseOf(<<>>, st, m) = IF st = "init" THEN "idle" ELSE "connecting"
        /\ PhaseOf(<<"open">>, st, m) = m
        /\ PhaseOf(<<"fail">>, st, m) = "failed"
        /\ PhaseOf(<<"open", "close">>, st, m) = "closed"
BY Told DEF PhaseOf

LEMMA SessionStep ==
    ASSUME Regular, LifeOK, StartOK, SessionInv, LifeStep
    PROVE  [Session!Next]_(Session!sessionVars)
<1>1. (UNCHANGED <<phase, told, asked, seen>>) => UNCHANGED Session!sessionVars
  BY DEF Session!sessionVars
<1>2. CASE UNCHANGED <<mState, stage, told, localCode, wasClean, asked, seen>>
  BY <1>1, <1>2, Phase
<1>3. CASE Advances
  <2>1. UNCHANGED <<mState, told, asked, seen>> /\ stage' # "init"
    BY <1>3 DEF Advances
  <2>2. CASE stage = "init"
    <3>1. phase = "idle" /\ phase' = "connecting"
      BY <2>1, <2>2, Phase, Phases DEF StartOK
    <3> QED
      BY <2>1, <3>1 DEF Session!Begin, Session!Next
  <2>3. CASE stage # "init"
    <3>1. phase' = phase
      BY <2>1, <2>3, Phase DEF PhaseOf
    <3> QED
      BY <1>1, <2>1, <3>1
  <2> QED
    BY <2>2, <2>3
<1>4. CASE Terminates
  <2>1. PICK failing \in BOOLEAN : Terminate(failing)
    BY <1>4 DEF Terminates
  <2>2. stage # "init" /\ mState' = "closed" /\ UNCHANGED <<stage, asked>>
    BY <1>4, <2>1 DEF Terminates, Terminate
  <2>3. CASE mState = "connecting"
    <3>1. told = <<>> /\ told' = <<"fail">> /\ seen' = seen
      BY <2>1, <2>3 DEF Terminate, SessionInv
    <3>2. phase = "connecting" /\ phase' = "failed"
      BY <2>2, <3>1, Phase, Phases
    <3> QED
      BY <2>2, <3>1, <3>2 DEF Session!Fails, Session!Next
  <2>4. CASE mState \in {"open", "closing"}
    <3>1. told = <<"open">> /\ told' = <<"open", "close">> /\ seen' = localCode'
      BY <2>1, <2>4, Told DEF Terminate, SessionInv
    <3>2. localCode' \in {localCode, "abnormal"}
      BY <2>1 DEF Terminate
    <3>3. seen' \in Session!CloseCodes /\ (seen' = "normal" => asked)
      BY <2>4, <3>1, <3>2 DEF Session!CloseCodes, CodesToSend, LifeOK, SessionInv
    <3>4. phase = mState /\ phase' = "closed"
      BY <3>1, Phase, Phases
    <3> QED
      BY <2>2, <2>4, <3>1, <3>3, <3>4 DEF Session!Ends, Session!Next
  <2>5. CASE mState = "closed"
    <3>1. told' = told /\ seen' = seen /\ mState' = mState
      BY <2>1, <2>2, <2>5 DEF Terminate
    <3> QED
      BY <1>1, <2>2, <3>1, Phase
  <2> QED
    BY <2>3, <2>4, <2>5 DEF LifeOK
<1>5. CASE Opens
  <2>1. stage # "init" /\ mState' = "open" /\ told = <<>> /\ told' = <<"open">>
    BY <1>5 DEF Opens, Regular, SessionInv
  <2>2. phase = "connecting" /\ phase' = "open"
    BY <2>1, Phase, Phases
  <2> QED
    BY <1>5, <2>1, <2>2 DEF Opens, Session!Opens, Session!Next
<1>6. CASE StartsClose
  <2>1. told = <<"open">> /\ mState' = "closing" /\ UNCHANGED <<stage, told, seen>>
    BY <1>6 DEF StartsClose, SessionInv
  <2>2. phase = mState /\ phase' = "closing"
    BY <2>1, Phase, Phases
  <2>3. CASE mState = "open"
    BY <1>6, <2>1, <2>2, <2>3 DEF StartsClose, Session!Closes, Session!Next
  <2>4. CASE mState = "closing"
    BY <1>1, <1>6, <2>1, <2>2, <2>4 DEF StartsClose
  <2> QED
    BY <1>6, <2>3, <2>4 DEF StartsClose
<1>7. CASE Notes
  BY <1>1, <1>7, Phase DEF Notes
<1> QED
  BY <1>2, <1>3, <1>4, <1>5, <1>6, <1>7 DEF LifeStep

\* Every step of the connection is a step of the session or leaves it as it
\* is: the handlers are called at most once and in order, and the close
\* handler finds "normal" only when a side asked for it, whatever the timers,
\* the server and the network do.
THEOREM SessionSafe ==
    ASSUME Regular
    PROVE  Spec => Session!Init /\ [][Session!Next]_(Session!sessionVars)
<1>1. Init => Session!Init
  <2> SUFFICES ASSUME Init PROVE Session!Init
    OBVIOUS
  <2>1. told = <<>> /\ stage = "init" /\ asked = FALSE /\ seen = "none"
    BY DEF Init
  <2>2. phase = "idle"
    BY <2>1, Phase, Phases
  <2> QED
    BY <2>1, <2>2 DEF Session!Init
<1>2. ASSUME TypeInv, SessionInv, [Next]_vars
      PROVE  SessionInv' /\ [Session!Next]_(Session!sessionVars)
  <2>1. CASE Next
    <3>1. LifeOK /\ StartOK /\ LifeStep
      BY <1>2, <2>1, LifeSteps DEF TypeInv
    <3> QED
      BY <1>2, <3>1, SessionNext, SessionStep
  <2>2. CASE UNCHANGED vars
    <3>1. UNCHANGED <<mState, stage, told, localCode, wasClean, asked, seen>>
      BY <2>2 DEF vars, lifeVars, closeVars
    <3>2. LifeOK /\ StartOK /\ LifeStep
      BY <1>2, <3>1 DEF TypeInv, LifeStep
    <3> QED
      BY <1>2, <3>2, SessionNext, SessionStep
  <2> QED
    BY <1>2, <2>1, <2>2
<1> QED
  BY <1>1, <1>2, Typed, SessionInit, PTL DEF Spec

============================================================================
