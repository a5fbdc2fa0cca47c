-------------------------- MODULE SioSocketProofs --------------------------
(* What holds of the socket that the SignalManager emits through, for any    *)
(* number of events, connections and sockets.                                *)
EXTENDS SioSocket, TLAPS

----------------------------------------------------------------------------
(* Sequences of event numbers, among which CONNECT may stand anywhere.       *)

Increasing(s) ==
    \A i, j \in 1..Len(s) :
        i < j /\ s[i] # CONNECT /\ s[j] # CONNECT => s[i] < s[j]

LEMMA Grown ==
    ASSUME NEW n \in Nat, NEW s \in Seq(1..n), NEW t \in Seq(0..n)
    PROVE  s \in Seq(1..n + 1) /\ t \in Seq(0..n + 1)
OBVIOUS

LEMMA AppendTyped ==
    ASSUME NEW S, NEW s \in Seq(S), NEW e \in S
    PROVE  Append(s, e) \in Seq(S)
OBVIOUS

LEMMA Appended ==
    ASSUME NEW s \in Seq(Nat), NEW e \in Nat
    PROVE  /\ Range(Append(s, e)) = Range(s) \cup {e}
           /\ Increasing(s) /\ (e # CONNECT => \A m \in Range(s) : m < e)
                => Increasing(Append(s, e))
<1>1. /\ Append(s, e) \in Seq(Nat)
      /\ Len(Append(s, e)) = Len(s) + 1
      /\ Append(s, e)[Len(s) + 1] = e
      /\ \A i \in 1..Len(s) : Append(s, e)[i] = s[i]
  OBVIOUS
<1>2. DOMAIN s = 1..Len(s) /\ DOMAIN Append(s, e) = 1..Len(s) + 1 /\ Len(s) \in Nat
  BY <1>1
<1>3. Range(Append(s, e)) = Range(s) \cup {e}
  BY <1>1, <1>2 DEF Range
<1>4. ASSUME Increasing(s), e # CONNECT => \A m \in Range(s) : m < e
      PROVE  Increasing(Append(s, e))
  <2> SUFFICES ASSUME NEW i \in 1..Len(s) + 1, NEW j \in 1..Len(s) + 1, i < j,
                      Append(s, e)[i] # CONNECT, Append(s, e)[j] # CONNECT
               PROVE  Append(s, e)[i] < Append(s, e)[j]
    BY <1>1 DEF Increasing
  <2>1. i \in 1..Len(s) /\ s[i] \in Range(s) /\ Append(s, e)[i] = s[i]
    BY <1>1, <1>2 DEF Range
  <2>2. CASE j = Len(s) + 1
    BY <1>1, <1>4, <2>1, <2>2
  <2>3. CASE j \in 1..Len(s)
    BY <1>1, <1>4, <2>1, <2>3 DEF Increasing
  <2> QED
    BY <1>2, <2>2, <2>3
<1> QED
  BY <1>3, <1>4

LEMMA Taken ==
    ASSUME NEW S, NEW s \in Seq(S), s # <<>>
    PROVE  /\ Tail(s) \in Seq(S) /\ Head(s) \in S
           /\ Range(s) = {Head(s)} \cup Range(Tail(s))
<1>1. /\ Tail(s) \in Seq(S) /\ Head(s) = s[1] /\ Len(s) \in Nat \ {0}
      /\ Len(Tail(s)) = Len(s) - 1
      /\ \A i \in 1..Len(s) - 1 : Tail(s)[i] = s[i + 1]
  OBVIOUS
<1>2. DOMAIN s = 1..Len(s) /\ DOMAIN Tail(s) = 1..Len(s) - 1
  BY <1>1
<1>3. ASSUME NEW m \in Range(s) PROVE m \in {Head(s)} \cup Range(Tail(s))
  <2>1. PICK i \in 1..Len(s) : m = s[i]
    BY <1>2 DEF Range
  <2>2. CASE i = 1
    BY <1>1, <2>1, <2>2
  <2>3. CASE i # 1
    <3>1. i - 1 \in 1..Len(s) - 1 /\ Tail(s)[i - 1] = m
      BY <1>1, <2>1, <2>3
    <3> QED
      BY <1>2, <3>1 DEF Range
  <2> QED
    BY <2>2, <2>3
<1>4. Head(s) \in Range(s)
  BY <1>1, <1>2 DEF Range
<1>5. ASSUME NEW m \in Range(Tail(s)) PROVE m \in Range(s)
  <2>1. PICK i \in 1..Len(s) - 1 : m = Tail(s)[i]
    BY <1>2 DEF Range
  <2>2. i + 1 \in 1..Len(s) /\ m = s[i + 1]
    BY <1>1, <2>1
  <2> QED
    BY <1>2, <2>2 DEF Range
<1> QED
  BY <1>1, <1>3, <1>4, <1>5

LEMMA TakenIncreasing ==
    ASSUME NEW s \in Seq(Nat), s # <<>>, Increasing(s)
    PROVE  /\ Increasing(Tail(s))
           /\ Head(s) # CONNECT => \A m \in Range(Tail(s)) \ {CONNECT} : Head(s) < m
<1>1. /\ Tail(s) \in Seq(Nat) /\ Head(s) = s[1] /\ Len(s) \in Nat \ {0}
      /\ Len(Tail(s)) = Len(s) - 1
      /\ \A i \in 1..Len(s) - 1 : Tail(s)[i] = s[i + 1]
  OBVIOUS
<1>2. DOMAIN Tail(s) = 1..Len(s) - 1
  BY <1>1
<1>3. Increasing(Tail(s))
  BY <1>1 DEF Increasing
<1>4. ASSUME Head(s) # CONNECT, NEW m \in Range(Tail(s)) \ {CONNECT} PROVE Head(s) < m
  <2>1. PICK i \in 1..Len(s) - 1 : m = Tail(s)[i]
    BY <1>2 DEF Range
  <2>2. i + 1 \in 1..Len(s) /\ 1 \in 1..Len(s) /\ 1 < i + 1 /\ m = s[i + 1]
    BY <1>1, <2>1
  <2> QED
    BY <1>1, <1>4, <2>2 DEF Increasing
<1> QED
  BY <1>3, <1>4

LEMMA Emptied == Range(<<>>) = {} /\ Increasing(<<>>)
BY DEF Range, Increasing

----------------------------------------------------------------------------
(* Types.                                                                    *)

LEMMA Threads ==
    /\ None.at = "idle" /\ \A n : Takes(None, n)
    /\ \A step : At(step).at = step
                 /\ (step # "holding" => \A n : Takes(At(step), n))
    /\ \A event : Holding(event).at = "holding" /\ Holding(event).event = event
                  /\ \A n : event \in 1..n => Takes(Holding(event), n)
BY DEF None, At, Holding, Takes

FlagsOK ==
    /\ connected \in BOOLEAN /\ stray \in BOOLEAN
    /\ timer \in {"off", "running", "due"}
    /\ asked \in BOOLEAN /\ acked \in BOOLEAN

CountsOK ==
    /\ sockets \in 1..MaxSockets /\ sock \in {0, sockets}
    /\ links \in 0..MaxLinks /\ link \in {0, links}

EventsOK ==
    /\ emitted \in 0..MaxEmits /\ direct \subseteq 1..emitted
    /\ queue \in Seq(1..emitted) /\ io \in Seq(0..emitted) /\ sent \in Seq(1..emitted)

ThreadsOK ==
    /\ gui.at \in Steps /\ Takes(gui, emitted) /\ (gui # None => emitted # 0)
    /\ net.at \in {"idle", "draining", "holding", "dropping", "clearing"} /\ Takes(net, emitted)

TypeInv == FlagsOK /\ CountsOK /\ EventsOK /\ ThreadsOK

LEMMA TypeInit == Init => TypeInv
<1>1. None.at \in Steps
  BY Threads DEF Steps
<1>2. <<>> \in Seq(1..0) /\ <<>> \in Seq(0..0)
  OBVIOUS
<1>3. Init => FlagsOK
  BY DEF Init, FlagsOK
<1>4. Init => CountsOK
  BY SioSocketAssumption DEF Init, CountsOK
<1>5. Init => EventsOK
  BY <1>2, SioSocketAssumption DEF Init, EventsOK
<1>6. Init => ThreadsOK
  BY <1>1, Threads DEF Init, ThreadsOK
<1> QED
  BY <1>3, <1>4, <1>5, <1>6 DEF TypeInv

\* The variables of TypeInv.
flagVars == <<connected, stray, timer, asked, acked>>
countVars == <<sockets, sock, links, link>>
eventVars == <<emitted, direct, queue, io, sent>>

LEMMA TypeUnchanged ==
    ASSUME TypeInv
    PROVE  /\ UNCHANGED flagVars => FlagsOK'
           /\ UNCHANGED countVars => CountsOK'
           /\ UNCHANGED eventVars => EventsOK'
           /\ UNCHANGED <<gui, net, emitted>> => ThreadsOK'
BY DEF TypeInv, FlagsOK, CountsOK, EventsOK, ThreadsOK, flagVars, countVars, eventVars

\* emit(), and the making of a socket.
LEMMA EmitTyped ==
    ASSUME TypeInv, Emit
    PROVE  TypeInv'
<1> USE SioSocketAssumption DEF Emit, MakeSocket, sockVars, linkVars
<1>1. emitted \in Nat /\ emitted' \in 0..MaxEmits /\ emitted' = emitted + 1
  BY DEF TypeInv, EventsOK
<1>2. FlagsOK'
  BY DEF TypeInv, FlagsOK
<1>3. CountsOK'
  BY DEF TypeInv, CountsOK
<1>4. EventsOK'
  <2>1. /\ queue \in Seq(1..emitted') /\ <<>> \in Seq(1..emitted') /\ sent \in Seq(1..emitted')
        /\ io \in Seq(0..emitted') /\ 0 \in 0..emitted'
    BY <1>1, Grown DEF TypeInv, EventsOK
  <2>2. queue' \in Seq(1..emitted') /\ sent' \in Seq(1..emitted')
    BY <2>1
  <2>3. io' = io \/ io' = Append(io, 0)
    BY DEF CONNECT
  <2>4. io' \in Seq(0..emitted')
    BY <2>1, <2>3, AppendTyped
  <2>5. direct' \subseteq 1..emitted'
    <3>1. UNCHANGED direct
      BY DEF Emit
    <3>2. 1..emitted \subseteq 1..emitted'
      BY <1>1
    <3>3. direct \subseteq 1..emitted
      BY DEF TypeInv, EventsOK
    <3> QED
      BY <3>1, <3>2, <3>3
  <2> QED
    BY <1>1, <2>2, <2>4, <2>5 DEF EventsOK
<1>5. ThreadsOK'
  <2>1. gui'.at = "looking" /\ Takes(gui', emitted')
    BY Threads
  <2>2. net' = net /\ Takes(net', emitted')
    BY <1>1 DEF TypeInv, ThreadsOK, Takes
  <2>3. "looking" \in Steps /\ emitted' # 0
    BY <1>1 DEF Steps
  <2> QED
    BY <2>1, <2>2, <2>3 DEF TypeInv, ThreadsOK
<1> QED
  BY <1>2, <1>3, <1>4, <1>5 DEF TypeInv

\* The steps of the GUI thread in emit().
LEMMA GuiTyped ==
    ASSUME TypeInv, SendLooks \/ SendPushes \/ SendDrains \/ SendHeld \/ SendSelf
    PROVE  TypeInv'
<1> USE DEF sockVars, linkVars, historyVars
<1>1. (FlagsOK /\ CountsOK)'
  <2>1. UNCHANGED flagVars /\ UNCHANGED countVars
    BY DEF flagVars, countVars, SendLooks, SendPushes, SendDrains, SendHeld, SendSelf
  <2> QED
    BY <2>1, TypeUnchanged
<1>2. /\ emitted \in 1..MaxEmits
      /\ direct \subseteq 1..emitted
      /\ queue \in Seq(1..emitted) /\ io \in Seq(0..emitted) /\ sent \in Seq(1..emitted)
  <2>1. gui # None
    BY Threads DEF SendLooks, SendPushes, SendDrains, SendHeld, SendSelf
  <2> QED
    BY <2>1, SioSocketAssumption DEF TypeInv, EventsOK, ThreadsOK
<1>10. emitted' = emitted /\ net' = net /\ sent' = sent
  BY DEF SendLooks, SendPushes, SendDrains, SendHeld, SendSelf
<1>3. gui.at = "holding" => gui.event \in 1..emitted
  BY DEF TypeInv, ThreadsOK, Takes
<1>4. direct' \subseteq 1..emitted
  <2>1. direct' \in {direct, direct \cup {emitted}}
    BY DEF SendLooks, SendPushes, SendDrains, SendHeld, SendSelf
  <2> QED
    BY <1>2, <2>1
<1>5. queue' \in Seq(1..emitted)
  <2>1. queue # <<>> => Tail(queue) \in Seq(1..emitted)
    BY <1>2, Taken
  <2>2. \/ queue' \in {queue, Append(queue, emitted)}
        \/ queue # <<>> /\ queue' = Tail(queue)
    BY DEF SendLooks, SendPushes, SendDrains, SendHeld, SendSelf
  <2>3. emitted \in 1..emitted
    BY <1>2
  <2> QED
    BY <1>2, <2>1, <2>2, <2>3, AppendTyped
<1>6. io' \in Seq(0..emitted)
  <2>1. \/ io' \in {io, Append(io, emitted)}
        \/ gui.at = "holding" /\ io' = Append(io, gui.event)
    BY DEF SendLooks, SendPushes, SendDrains, SendHeld, SendSelf
  <2>2. emitted \in 0..emitted /\ (gui.at = "holding" => gui.event \in 0..emitted)
    BY <1>2, <1>3
  <2> QED
    BY <1>2, <2>1, <2>2, AppendTyped
<1>7. gui'.at \in Steps /\ Takes(gui', emitted)
  <2>1. queue # <<>> => Head(queue) \in 1..emitted
    BY <1>2, Taken
  <2>2. \/ gui' \in {At("draining"), At("pushing"), At("sending"), None}
        \/ queue # <<>> /\ gui' = Holding(Head(queue))
    BY DEF SendLooks, SendPushes, SendDrains, SendHeld, SendSelf
  <2> QED
    BY <2>1, <2>2, Threads DEF Steps
<1>8. EventsOK'
  BY <1>2, <1>4, <1>5, <1>6, <1>10, SioSocketAssumption DEF EventsOK
<1>9. ThreadsOK'
  BY <1>2, <1>7, <1>10 DEF TypeInv, ThreadsOK
<1> QED
  BY <1>1, <1>8, <1>9 DEF TypeInv

\* The steps of the network thread that move packets.
LEMMA NetTyped ==
    ASSUME TypeInv, SendImpl \/ ConnectedDrains \/ ConnectedSends \/ OnDisconnectClears
    PROVE  TypeInv'
<1> USE DEF sockVars, linkVars, historyVars
<1>1. CountsOK'
  <2>1. UNCHANGED countVars
    BY DEF countVars, SendImpl, ConnectedDrains, ConnectedSends, OnDisconnectClears
  <2> QED
    BY <2>1, TypeUnchanged
<1>2. FlagsOK'
  BY DEF TypeInv, FlagsOK, SendImpl, ConnectedDrains, ConnectedSends, OnDisconnectClears
<1>3. /\ emitted \in 0..MaxEmits /\ emitted' = emitted /\ gui' = gui
      /\ direct \subseteq 1..emitted /\ direct' = direct
      /\ queue \in Seq(1..emitted) /\ io \in Seq(0..emitted) /\ sent \in Seq(1..emitted)
  BY DEF TypeInv, EventsOK, SendImpl, ConnectedDrains, ConnectedSends, OnDisconnectClears
<1>4. net.at = "holding" => net.event \in 1..emitted
  BY DEF TypeInv, ThreadsOK, Takes
<1>5. queue' \in Seq(1..emitted)
  <2>1. queue # <<>> => Tail(queue) \in Seq(1..emitted)
    BY <1>3, Taken
  <2>2. queue' \in {queue, <<>>} \/ (queue # <<>> /\ queue' = Tail(queue))
    BY DEF SendImpl, ConnectedDrains, ConnectedSends, OnDisconnectClears
  <2>3. <<>> \in Seq(1..emitted)
    OBVIOUS
  <2> QED
    BY <1>3, <2>1, <2>2, <2>3
<1>6. io' \in Seq(0..emitted)
  <2>1. io # <<>> => Tail(io) \in Seq(0..emitted)
    BY <1>3, Taken
  <2>2. io' = io \/ (io # <<>> /\ io' = Tail(io))
    BY DEF SendImpl, ConnectedDrains, ConnectedSends, OnDisconnectClears
  <2> QED
    BY <1>3, <2>1, <2>2
<1>7. sent' \in Seq(1..emitted)
  <2>1. io # <<>> /\ Head(io) # CONNECT => Head(io) \in 1..emitted
    BY <1>3, Taken DEF CONNECT
  <2>2. \/ sent' = sent
        \/ net.at = "holding" /\ sent' = Append(sent, net.event)
        \/ io # <<>> /\ Head(io) # CONNECT /\ sent' = Append(sent, Head(io))
    BY DEF SendImpl, ConnectedDrains, ConnectedSends, OnDisconnectClears
  <2> QED
    BY <1>3, <1>4, <2>1, <2>2, AppendTyped
<1>8. /\ net'.at \in {"idle", "draining", "holding", "dropping", "clearing"}
      /\ Takes(net', emitted)
  <2>1. queue # <<>> => Head(queue) \in 1..emitted
    BY <1>3, Taken
  <2>2. net' \in {net, At("draining"), None} \/ (queue # <<>> /\ net' = Holding(Head(queue)))
    BY DEF SendImpl, ConnectedDrains, ConnectedSends, OnDisconnectClears
  <2> QED
    BY <2>1, <2>2, Threads DEF TypeInv, ThreadsOK
<1>9. EventsOK'
  BY <1>3, <1>5, <1>6, <1>7 DEF EventsOK
<1>10. ThreadsOK'
  BY <1>3, <1>8 DEF TypeInv, ThreadsOK
<1> QED
  BY <1>1, <1>2, <1>9, <1>10 DEF TypeInv

\* The connection comes and goes.
LEMMA LinkTyped ==
    ASSUME TypeInv, LinkOpens \/ OnConnected \/ LinkDrops \/ OnDisconnect
    PROVE  TypeInv'
<1> USE DEF sockVars, linkVars, historyVars
<1>1. FlagsOK'
  BY DEF TypeInv, FlagsOK, LinkOpens, OnConnected, LinkDrops, OnDisconnect, LostTimer
<1>2. CountsOK'
  BY SioSocketAssumption
     DEF TypeInv, CountsOK, LinkOpens, OnConnected, LinkDrops, OnDisconnect
<1>3. EventsOK'
  <2>1. <<>> \in Seq(1..emitted)
    OBVIOUS
  <2>2. queue' = queue \/ queue' = <<>>
    BY DEF LinkOpens, OnConnected, LinkDrops, OnDisconnect
  <2>3. UNCHANGED <<emitted, direct, io, sent>>
    BY DEF LinkOpens, OnConnected, LinkDrops, OnDisconnect
  <2> QED
    BY <2>1, <2>2, <2>3 DEF TypeInv, EventsOK
<1>4. ThreadsOK'
  <2>1. gui' = gui /\ emitted' = emitted
    BY DEF LinkOpens, OnConnected, LinkDrops, OnDisconnect
  <2>2. net' \in {net, None, At("draining"), At("dropping"), At("clearing")}
    BY DEF LinkOpens, OnConnected, LinkDrops, OnDisconnect
  <2> QED
    BY <2>1, <2>2, Threads DEF TypeInv, ThreadsOK
<1> QED
  BY <1>1, <1>2, <1>3, <1>4 DEF TypeInv

\* The timer, and the end of a socket.
LEMMA TimerTyped ==
    ASSUME TypeInv, TimerExpires \/ TimeoutConnection \/ OnDisconnectPacket
    PROVE  TypeInv'
<1> USE DEF sockVars, linkVars, historyVars
<1>1. FlagsOK'
  BY DEF TypeInv, FlagsOK, TimerExpires, TimeoutConnection, OnDisconnectPacket, RemoveSocket
<1>2. CountsOK'
  BY DEF TypeInv, CountsOK, TimerExpires, TimeoutConnection, OnDisconnectPacket, RemoveSocket
<1>3. EventsOK'
  <2>1. <<>> \in Seq(1..emitted)
    OBVIOUS
  <2>2. queue' = queue \/ queue' = <<>>
    BY DEF TimerExpires, TimeoutConnection, OnDisconnectPacket, RemoveSocket
  <2>3. UNCHANGED <<emitted, direct, io, sent>>
    BY DEF TimerExpires, TimeoutConnection, OnDisconnectPacket, RemoveSocket
  <2> QED
    BY <2>1, <2>2, <2>3 DEF TypeInv, EventsOK
<1>4. ThreadsOK'
  <2>1. net' = net /\ emitted' = emitted
    BY DEF TimerExpires, TimeoutConnection, OnDisconnectPacket, RemoveSocket
  <2>2. gui' = gui \/ gui' = None \/ (gui # None /\ gui' = At("dangling"))
    BY DEF TimerExpires, TimeoutConnection, OnDisconnectPacket, RemoveSocket
  <2> QED
    BY <2>1, <2>2, Threads DEF TypeInv, ThreadsOK, Steps
<1> QED
  BY <1>1, <1>2, <1>3, <1>4 DEF TypeInv

LEMMA TypeNext ==
    ASSUME TypeInv, [Next]_vars
    PROVE  TypeInv'
<1>1. CASE UNCHANGED vars
  BY <1>1, TypeUnchanged
     DEF vars, sockVars, linkVars, historyVars, flagVars, countVars, eventVars, TypeInv
<1>2. CASE Next
  BY <1>2, EmitTyped, GuiTyped, NetTyped, LinkTyped, TimerTyped DEF Next, Gui, Net, Link
<1> QED
  BY <1>1, <1>2

\* No thread holds a packet but where it has taken one, and nothing is queued,
\* dispatched or sent that was not emitted.
THEOREM SocketTyped == Spec => []SioSocketTypeOK
<1>1. TypeInv => SioSocketTypeOK
  BY DEF TypeInv, FlagsOK, CountsOK, EventsOK, ThreadsOK, SioSocketTypeOK
<1> QED
  BY <1>1, TypeInit, TypeNext, PTL DEF Spec

----------------------------------------------------------------------------
(* The timer, and what is written on a connection.                           *)

SockInv ==
    /\ connected => timer = "off" /\ sock # 0 /\ (link # 0 \/ net.at = "dropping")
    /\ sock = 0 => queue = <<>> /\ timer = "off" /\ gui.at \in {"idle", "dangling"}

LEMMA SockInit == Init => SockInv
BY Threads DEF Init, SockInv

LEMMA SockNext ==
    ASSUME TypeInv, SockInv, [Next]_vars
    PROVE  SockInv'
<1> USE DEF SockInv, sockVars, linkVars, historyVars
<1>1. sockets # 0 /\ sockets + 1 # 0
  BY SioSocketAssumption DEF TypeInv, CountsOK
<1>2. NetFree => net.at = "idle"
  BY Threads DEF NetFree
<1>3. CASE UNCHANGED vars
  BY <1>3 DEF vars
<1>4. CASE Emit
  BY <1>1, <1>4 DEF Emit, MakeSocket
<1>5. CASE SendLooks \/ SendDrains \/ SendHeld \/ SendSelf
  <2>1. gui.at \notin {"idle", "dangling"}
    BY <1>5 DEF SendLooks, SendDrains, SendHeld, SendSelf
  <2>2. UNCHANGED <<connected, timer, stray, sock, sockets, linkVars, net>>
    BY <1>5 DEF SendLooks, SendDrains, SendHeld, SendSelf
  <2> QED
    BY <2>1, <2>2
<1>6. CASE SendPushes
  BY <1>6 DEF SendPushes
<1>7. CASE SendImpl
  BY <1>7 DEF SendImpl
<1>8. CASE ConnectedDrains \/ ConnectedSends
  BY <1>8 DEF ConnectedDrains, ConnectedSends
<1>9. CASE OnDisconnect \/ OnDisconnectClears
  BY <1>9 DEF OnDisconnect, OnDisconnectClears
<1>10. CASE TimeoutConnection \/ OnDisconnectPacket
  <2>1. gui'.at \in {"idle", "dangling"}
    BY <1>10, Threads DEF TimeoutConnection, OnDisconnectPacket, RemoveSocket
  <2> QED
    BY <1>10, <2>1 DEF TimeoutConnection, OnDisconnectPacket, RemoveSocket
<1>11. CASE LinkOpens
  BY <1>1, <1>2, <1>11 DEF LinkOpens
<1>12. CASE OnConnected
  BY <1>12 DEF OnConnected
<1>13. CASE LinkDrops
  BY <1>13, Threads DEF LinkDrops
<1>14. CASE TimerExpires
  BY <1>14 DEF TimerExpires
<1> QED
  BY <1>3, <1>4, <1>5, <1>6, <1>7, <1>8, <1>9, <1>10, <1>11, <1>12, <1>13, <1>14
     DEF Next, Gui, Net, Link

\* The timer that removes a socket for want of an answer does not run beside a
\* connected one.
THEOREM ConnectedStopsTimer == Spec => []NoTimerWhileConnected
<1>1. SockInv => NoTimerWhileConnected
  BY DEF SockInv, NoTimerWhileConnected
<1> QED
  BY <1>1, TypeInit, TypeNext, SockInit, SockNext, PTL DEF Spec

\* What is left in the queue of a connected socket.  An emit that has found
\* the socket not connected pushes one packet, at a time when the queue has
\* just been emptied; the next emit finds the socket connected and empties it.
StrandInv ==
    /\ gui.at = "sending" => queue = <<>>
    /\ connected /\ net.at = "idle" =>
        /\ gui.at = "pushing" => queue = <<>>
        /\ gui.at \in {"idle", "looking", "dangling"} => Len(queue) <= 1

LEMMA StrandInit == Init => StrandInv
BY Threads DEF Init, StrandInv

LEMMA StrandNext ==
    ASSUME TypeInv, StrandInv, [Next]_vars
    PROVE  StrandInv'
<1> USE DEF StrandInv, sockVars, linkVars, historyVars
<1>1. queue \in Seq(1..emitted) /\ Len(<<>>) = 0 /\ gui.at \in Steps
  BY DEF TypeInv, EventsOK, ThreadsOK
<1>2. NetFree => net.at = "idle"
  BY Threads DEF NetFree
<1>3. CASE UNCHANGED vars
  BY <1>3 DEF vars
<1>4. CASE Emit
  <2>1. gui.at = "idle" /\ gui'.at = "looking" /\ net' = net
    BY <1>4, Threads DEF Emit
  <2>2. (UNCHANGED <<connected, queue>>) \/ connected' = FALSE
    BY <1>4 DEF Emit, MakeSocket
  <2> QED
    BY <2>1, <2>2
<1>5. CASE SendLooks
  BY <1>5, Threads DEF SendLooks
<1>6. CASE SendPushes
  <2>1. gui.at = "pushing" /\ gui'.at = "idle" /\ net' = net /\ connected' = connected
        /\ queue' = Append(queue, emitted)
    BY <1>6, Threads DEF SendPushes
  <2>2. queue = <<>> => Len(queue') = 1
    BY <2>1
  <2> QED
    BY <2>1, <2>2
<1>7. CASE SendDrains
  <2>1. (gui'.at = "sending" /\ queue' = <<>>) \/ gui'.at = "holding"
    BY <1>7, Threads DEF SendDrains
  <2> QED
    BY <2>1
<1>8. CASE SendHeld
  BY <1>8, Threads DEF SendHeld
<1>9. CASE SendSelf
  BY <1>1, <1>9, Threads DEF SendSelf
<1>10. CASE SendImpl \/ TimerExpires
  BY <1>10 DEF SendImpl, TimerExpires
<1>11. CASE ConnectedDrains \/ OnDisconnectClears
  <2>1. gui' = gui /\ (net'.at = "idle" => queue' = <<>>) /\ (queue = <<>> => queue' = <<>>)
    BY <1>11, Threads DEF ConnectedDrains, OnDisconnectClears
  <2> QED
    BY <1>1, <2>1
<1>12. CASE ConnectedSends
  BY <1>12, Threads DEF ConnectedSends
<1>13. CASE OnDisconnect
  BY <1>13 DEF OnDisconnect
<1>14. CASE LinkDrops
  BY <1>14, Threads DEF LinkDrops
<1>15. CASE TimeoutConnection \/ OnDisconnectPacket
  BY <1>1, <1>15 DEF TimeoutConnection, OnDisconnectPacket, RemoveSocket
<1>16. CASE LinkOpens
  BY <1>1, <1>16 DEF LinkOpens
<1>17. CASE OnConnected
  <2>1. gui' = gui /\ queue' = queue /\ net.at = "idle"
        /\ (connected' = connected \/ net'.at = "draining")
    BY <1>2, <1>17, Threads DEF OnConnected
  <2> QED
    BY <2>1
<1> QED
  BY <1>3, <1>4, <1>5, <1>6, <1>7, <1>8, <1>9, <1>10, <1>11, <1>12, <1>13, <1>14, <1>15,
     <1>16, <1>17 DEF Next, Gui, Net, Link

\* At most one packet is left behind in the queue of a connected socket that
\* nobody is emptying.
THEOREM OneStranded == Spec => []StrandsAtMostOne
<1>1. TypeInv /\ StrandInv => StrandsAtMostOne
  <2> SUFFICES ASSUME TypeInv, StrandInv, connected, NetFree, gui.at \notin {"draining", "holding"}
               PROVE  Len(queue) <= IF gui.at = "sending" THEN 0 ELSE 1
    BY DEF StrandsAtMostOne
  <2>1. net.at = "idle" /\ gui.at \in {"idle", "looking", "pushing", "sending", "dangling"}
    BY Threads DEF NetFree, TypeInv, ThreadsOK, Steps
  <2> QED
    BY <2>1 DEF StrandInv
<1> QED
  BY <1>1, TypeInit, TypeNext, StrandInit, StrandNext, PTL DEF Spec

\* What is on its way to the connection was found worth sending on it.
Dispatched == \E m \in Range(io) : m # CONNECT
AckInv ==
    /\ connected \/ gui.at \in {"draining", "holding", "sending"} \/ Dispatched
         => links # 0 /\ (link # 0 => acked)
    /\ net.at \in {"draining", "holding"} => link # 0 /\ acked

LEMMA AckInit == Init => AckInv
BY Emptied, Threads DEF Init, AckInv, Dispatched

LEMMA AckNext ==
    ASSUME PromptUser, TypeInv, SockInv, AckInv, [Next]_vars
    PROVE  AckInv'
<1> USE DEF sockVars, linkVars, historyVars
<1>1. /\ io \in Seq(0..emitted) /\ io \in Seq(Nat) /\ emitted \in Nat
      /\ queue \in Seq(1..emitted)
      /\ links \in Nat /\ link \in {0, links}
  BY SioSocketAssumption DEF TypeInv, EventsOK, CountsOK
<1>2. NetFree => net.at = "idle"
  BY Threads DEF NetFree
<1>3. CASE UNCHANGED vars
  BY <1>3 DEF vars, AckInv, Dispatched
<1>4. CASE Emit
  <2>1. Range(Append(io, CONNECT)) = Range(io) \cup {CONNECT}
    BY <1>1, Appended DEF CONNECT
  <2>2. Dispatched' <=> Dispatched
    <3>1. io' = io \/ io' = Append(io, CONNECT)
      BY <1>4 DEF Emit, MakeSocket
    <3>2. CASE io' = io
      BY <3>2 DEF Dispatched, CONNECT
    <3>3. CASE io' = Append(io, CONNECT)
      <4>1. Range(io') = Range(io) \cup {CONNECT}
        BY <2>1, <3>3
      <4> QED
        BY <4>1 DEF Dispatched, CONNECT
    <3> QED
      BY <3>1, <3>2, <3>3
  <2>3. gui'.at = "looking" /\ (connected' => connected)
        /\ UNCHANGED <<net, links, link, acked>>
    BY <1>4, Threads DEF Emit, MakeSocket
  <2> QED
    BY <2>2, <2>3 DEF AckInv
<1>5. CASE SendLooks \/ SendPushes \/ SendDrains
  <2>1. UNCHANGED <<connected, io, net, links, link, acked>>
    BY <1>5 DEF SendLooks, SendPushes, SendDrains
  <2>2. gui'.at \in {"draining", "holding", "sending"} => connected \/ gui.at = "draining"
    BY <1>5, Threads DEF SendLooks, SendPushes, SendDrains
  <2> QED
    BY <2>1, <2>2 DEF AckInv, Dispatched
<1>6. CASE SendHeld \/ SendSelf
  BY <1>6 DEF SendHeld, SendSelf, AckInv
<1>7. CASE SendImpl
  <2>1. Range(io') \subseteq Range(io)
    BY <1>1, <1>7, Taken DEF SendImpl
  <2> QED
    BY <1>7, <2>1 DEF SendImpl, AckInv, Dispatched
<1>8. CASE ConnectedDrains \/ ConnectedSends \/ OnDisconnectClears \/ OnDisconnect
  <2>1. /\ UNCHANGED <<io, gui, links, link, acked>> /\ (connected' => connected)
        /\ net'.at \in {"draining", "holding"} => net.at \in {"draining", "holding"}
    BY <1>8, Threads DEF ConnectedDrains, ConnectedSends, OnDisconnectClears, OnDisconnect
  <2> QED
    BY <2>1 DEF AckInv, Dispatched
<1>9. CASE TimeoutConnection \/ OnDisconnectPacket
  <2>1. /\ UNCHANGED <<io, net, links, link, acked>> /\ ~connected'
        /\ gui'.at \in {"idle", "dangling"}
    BY <1>9, Threads DEF TimeoutConnection, OnDisconnectPacket, RemoveSocket
  <2>2. Dispatched' <=> Dispatched
    BY <2>1 DEF Dispatched
  <2> QED
    BY <2>1, <2>2 DEF AckInv
<1>10. CASE LinkOpens
  <2>1. ~connected /\ net.at = "idle"
    BY <1>2, <1>10 DEF LinkOpens, SockInv
  <2>2. UNCHANGED <<io, gui, net>> /\ (connected' => connected)
    BY <1>10 DEF LinkOpens
  <2>4. links # 0 => gui = None /\ io = <<>>
    BY <1>1, <1>10 DEF LinkOpens, Prompt
  <2>3. gui.at \notin {"draining", "holding", "sending"} /\ ~Dispatched
    <3>1. CASE links = 0
      BY <3>1 DEF AckInv
    <3>2. CASE links # 0
      BY <2>4, <3>2, Threads, Emptied DEF Dispatched
    <3> QED
      BY <3>1, <3>2
  <2> QED
    BY <2>1, <2>2, <2>3 DEF AckInv, Dispatched
<1>11. CASE OnConnected
  BY <1>1, <1>11 DEF OnConnected, AckInv
<1>12. CASE LinkDrops
  <2>1. links # 0 /\ link' = 0 /\ net'.at = "dropping" /\ links' = links
    BY <1>1, <1>12, Threads DEF LinkDrops
  <2> QED
    BY <2>1 DEF AckInv
<1>13. CASE TimerExpires
  BY <1>13 DEF TimerExpires, AckInv, Dispatched
<1> QED
  BY <1>3, <1>4, <1>5, <1>6, <1>7, <1>8, <1>9, <1>10, <1>11, <1>12, <1>13
     DEF Next, Gui, Net, Link

LEMMA SentWhenAcked ==
    ASSUME TypeInv, AckInv, [Next]_vars, sent' # sent
    PROVE  link # 0 /\ acked
<1> USE DEF sockVars, linkVars, historyVars
<1>1. CASE SendImpl
  <2>1. io # <<>> /\ link # 0 /\ Head(io) # CONNECT
    BY <1>1 DEF SendImpl
  <2>2. Head(io) \in Range(io)
    BY <2>1, Taken DEF TypeInv, EventsOK
  <2> QED
    BY <2>1, <2>2 DEF AckInv, Dispatched
<1>2. CASE ConnectedSends
  BY <1>2 DEF ConnectedSends, AckInv
<1>3. ~(SendImpl \/ ConnectedSends) => UNCHANGED sent
  BY DEF Next, Gui, Net, Link, vars, Emit, MakeSocket, SendLooks, SendPushes, SendDrains,
         SendHeld, SendSelf, LinkOpens, OnConnected, LinkDrops, OnDisconnectPacket, RemoveSocket,
         ConnectedDrains, OnDisconnect, OnDisconnectClears, TimeoutConnection, TimerExpires
<1> QED
  BY <1>1, <1>2, <1>3

\* No event is written on a connection before the server has answered its
\* CONNECT, as long as no emit lasts as long as the delay of a reconnection.
THEOREM AckedFirst ==
    ASSUME PromptUser
    PROVE  Spec => SentAfterAck
<1>1. TypeInv /\ AckInv /\ [Next]_vars => [sent' # sent => link # 0 /\ acked]_vars
  BY SentWhenAcked
<1> QED
  BY <1>1, TypeInit, TypeNext, SockInit, SockNext, AckInit, AckNext, PTL DEF Spec, SentAfterAck

----------------------------------------------------------------------------
(* The order of events, and the channel that emit() implements.              *)

\* An emit that goes on, with the event it was called for.
Active == gui.at \in {"looking", "pushing", "draining", "holding", "sending"}
GuiHolds == gui.at = "holding"
NetHolds == net.at = "holding"

\* An event that is dispatched comes before what the GUI thread holds, that
\* before what is queued, and that before the event of the emit; the network
\* thread holds one that was queued.
OrderInv ==
    /\ Increasing(io) /\ Increasing(queue)
    /\ \A m \in Range(io) \ {CONNECT} :
        /\ \A k \in Range(queue) : m < k
        /\ GuiHolds => m < gui.event
        /\ Active => m < emitted
        /\ NetHolds => m # net.event
    /\ \A k \in Range(queue) :
        /\ GuiHolds => gui.event < k
        /\ Active => k < emitted
        /\ NetHolds => k # net.event
        /\ k \notin direct
        /\ gui.at # "sending"
    /\ GuiHolds => gui.event < emitted /\ (NetHolds => gui.event # net.event)
    /\ NetHolds => net.event \notin direct /\ (Active => net.event < emitted)
    /\ gui.at \in {"looking", "pushing"} => emitted \notin direct

LEMMA OrderInit == Init => OrderInv
<1>1. None.at = "idle"
  BY Threads
<1> QED
  BY <1>1, Emptied DEF Init, OrderInv, Active, GuiHolds, NetHolds

\* What the types say of the numbers.
LEMMA Numbers ==
    ASSUME TypeInv
    PROVE  /\ emitted \in Nat
           /\ io \in Seq(Nat) /\ queue \in Seq(Nat)
           /\ Range(io) \subseteq 0..emitted /\ Range(queue) \subseteq 1..emitted
           /\ direct \subseteq 1..emitted
           /\ GuiHolds => gui.event \in 1..emitted
           /\ NetHolds => net.event \in 1..emitted
           /\ ~GuiHolds => gui.event = 0
           /\ ~NetHolds => net.event = 0
<1>1. /\ emitted \in Nat /\ direct \subseteq 1..emitted
      /\ io \in Seq(0..emitted) /\ queue \in Seq(1..emitted)
  BY DEF TypeInv, EventsOK
<1>2. io \in Seq(Nat) /\ queue \in Seq(Nat)
  BY <1>1
<1>3. Range(io) \subseteq 0..emitted /\ Range(queue) \subseteq 1..emitted
  BY <1>1 DEF Range
<1> QED
  BY <1>1, <1>2, <1>3 DEF TypeInv, ThreadsOK, Takes, GuiHolds, NetHolds

\* The GUI thread keeps the order.
LEMMA OrderGui ==
    ASSUME TypeInv, SockInv, OrderInv, Gui
    PROVE  OrderInv'
<1> USE DEF sockVars, linkVars, historyVars
<1> USE DEF OrderInv, Active, GuiHolds, NetHolds
<1>1. /\ emitted \in Nat
      /\ io \in Seq(Nat) /\ queue \in Seq(Nat)
      /\ Range(io) \subseteq 0..emitted /\ Range(queue) \subseteq 1..emitted
      /\ direct \subseteq 1..emitted
      /\ GuiHolds => gui.event \in 1..emitted
      /\ NetHolds => net.event \in 1..emitted
  BY Numbers
<1>2. CASE Emit
  <2>1. /\ emitted' = emitted + 1 /\ gui'.at = "looking"
        /\ UNCHANGED <<net, direct>>
    BY <1>2, Threads DEF Emit
  <2>2. queue' = queue \/ queue' = <<>>
    BY <1>2 DEF Emit, MakeSocket
  <2>3. io' = io \/ io' = Append(io, CONNECT)
    BY <1>2 DEF Emit, MakeSocket
  <2>4. Range(io') \subseteq Range(io) \cup {CONNECT} /\ Increasing(io')
    BY <1>1, <2>3, Appended DEF CONNECT
  <2>5. Range(queue') \subseteq Range(queue) /\ Increasing(queue')
    BY <2>2, Emptied
  <2> QED
    BY <1>1, <2>1, <2>4, <2>5
<1>3. CASE SendLooks
  <2>1. UNCHANGED <<io, queue, net, emitted>>
    BY <1>3 DEF SendLooks
  <2>2. gui.at = "looking" /\ gui'.at \in {"draining", "pushing"}
    BY <1>3, Threads DEF SendLooks
  <2>3. \/ gui'.at = "draining" /\ direct' = direct \cup {emitted}
        \/ direct' = direct
    BY <1>3, Threads DEF SendLooks
  <2> QED
    BY <1>1, <2>1, <2>2, <2>3
<1>4. CASE SendPushes
  <2>1. /\ queue' = Append(queue, emitted) /\ gui.at = "pushing" /\ gui'.at = "idle"
        /\ UNCHANGED <<io, net, emitted, direct>>
    BY <1>4, Threads DEF SendPushes
  <2>2. Range(queue') = Range(queue) \cup {emitted} /\ Increasing(queue')
    BY <1>1, <2>1, Appended
  <2> QED
    BY <1>1, <2>1, <2>2
<1>5. CASE SendDrains
  <2>1. UNCHANGED <<io, net, emitted, direct>> /\ gui.at = "draining"
    BY <1>5 DEF SendDrains
  <2>2. CASE queue = <<>> /\ gui' = At("sending") /\ UNCHANGED queue
    <3>1. Range(queue) = {} /\ gui'.at = "sending"
      BY <2>2, Emptied, Threads
    <3> QED
      BY <1>1, <2>1, <2>2, <3>1
  <2>3. CASE queue # <<>> /\ gui' = Holding(Head(queue)) /\ queue' = Tail(queue)
    <3>1. Range(queue) = {Head(queue)} \cup Range(queue')
      BY <1>1, <2>3, Taken
    <3>2. Increasing(queue') /\ \A k \in Range(queue') \ {CONNECT} : Head(queue) < k
      BY <1>1, <2>3, <3>1, TakenIncreasing DEF CONNECT
    <3>3. gui'.at = "holding" /\ gui'.event = Head(queue)
      BY <2>3, Threads
    <3> QED
      BY <1>1, <2>1, <3>1, <3>2, <3>3 DEF CONNECT
  <2> QED
    BY <1>5, <2>2, <2>3 DEF SendDrains
<1>6. CASE SendHeld
  <2>1. /\ io' = Append(io, gui.event) /\ gui.at = "holding" /\ gui'.at = "draining"
        /\ UNCHANGED <<queue, net, emitted, direct>>
    BY <1>6, Threads DEF SendHeld
  <2>2. Range(io') = Range(io) \cup {gui.event} /\ Increasing(io')
    BY <1>1, <2>1, Appended DEF CONNECT
  <2> QED
    BY <1>1, <2>1, <2>2
<1>7. CASE SendSelf
  <2>1. /\ io' = Append(io, emitted) /\ gui.at = "sending" /\ gui'.at = "idle"
        /\ UNCHANGED <<queue, net, emitted, direct>>
    BY <1>7, Threads DEF SendSelf
  <2>2. Range(io') = Range(io) \cup {emitted} /\ Increasing(io')
    BY <1>1, <2>1, Appended DEF CONNECT
  <2> QED
    BY <1>1, <2>1, <2>2
<1> QED
  BY <1>2, <1>3, <1>4, <1>5, <1>6, <1>7 DEF Gui

\* So does the network thread.
LEMMA OrderNet ==
    ASSUME TypeInv, SockInv, OrderInv, Net \/ Link \/ TimerExpires
    PROVE  OrderInv'
<1> USE DEF sockVars, linkVars, historyVars
<1> USE DEF OrderInv, Active, GuiHolds, NetHolds
<1>1. /\ emitted \in Nat
      /\ io \in Seq(Nat) /\ queue \in Seq(Nat)
      /\ Range(io) \subseteq 0..emitted /\ Range(queue) \subseteq 1..emitted
      /\ direct \subseteq 1..emitted
      /\ GuiHolds => gui.event \in 1..emitted
      /\ NetHolds => net.event \in 1..emitted
  BY Numbers
<1>2. CASE SendImpl
  <2>1. io # <<>> /\ io' = Tail(io) /\ UNCHANGED <<queue, gui, net, emitted, direct>>
    BY <1>2 DEF SendImpl
  <2>2. Range(io') \subseteq Range(io) /\ Increasing(io')
    BY <1>1, <2>1, Taken, TakenIncreasing
  <2> QED
    BY <1>1, <2>1, <2>2
<1>3. CASE ConnectedDrains
  <2>1. UNCHANGED <<io, gui, emitted, direct>>
    BY <1>3 DEF ConnectedDrains
  <2>2. CASE queue = <<>> /\ net' = None /\ UNCHANGED queue
    <3>1. net'.at = "idle"
      BY <2>2, Threads
    <3> QED
      BY <1>1, <2>1, <2>2, <3>1
  <2>3. CASE queue # <<>> /\ net' = Holding(Head(queue)) /\ queue' = Tail(queue)
    <3>1. Range(queue) = {Head(queue)} \cup Range(queue')
      BY <1>1, <2>3, Taken
    <3>2. Increasing(queue') /\ \A k \in Range(queue') \ {CONNECT} : Head(queue) < k
      BY <1>1, <2>3, <3>1, TakenIncreasing DEF CONNECT
    <3>3. net'.at = "holding" /\ net'.event = Head(queue)
      BY <2>3, Threads
    <3>4. \A m \in Range(io') \ {CONNECT} :
              /\ \A k \in Range(queue') : m < k
              /\ GuiHolds' => m < gui'.event
              /\ Active' => m < emitted'
              /\ m # net'.event
      <4>1. Head(queue) \in Range(queue) /\ Range(queue') \subseteq Range(queue)
        BY <3>1
      <4>2. \A m \in Range(io) \ {CONNECT} :
                /\ \A k \in Range(queue) : m < k /\ m # k
                /\ GuiHolds => m < gui.event
                /\ Active => m < emitted
        BY <1>1 DEF CONNECT
      <4> QED
        BY <2>1, <3>3, <4>1, <4>2 DEF CONNECT
    <3>5. \A k \in Range(queue') :
              /\ GuiHolds' => gui'.event < k
              /\ Active' => k < emitted'
              /\ k # net'.event
              /\ k \notin direct'
              /\ gui'.at # "sending"
      BY <1>1, <2>1, <3>1, <3>2, <3>3 DEF CONNECT
    <3>6. /\ GuiHolds' => gui'.event < emitted' /\ gui'.event # net'.event
          /\ net'.event \notin direct' /\ (Active' => net'.event < emitted')
      BY <1>1, <2>1, <3>1, <3>3
    <3> QED
      BY <2>1, <3>2, <3>4, <3>5, <3>6 DEF CONNECT
  <2> QED
    BY <1>3, <2>2, <2>3 DEF ConnectedDrains
<1>4. ASSUME Range(queue') \subseteq Range(queue), Increasing(queue'),
             net'.at # "holding",
             gui' = gui \/ gui'.at \in {"idle", "dangling"},
             UNCHANGED <<io, emitted, direct>>
      PROVE  OrderInv'
  BY <1>1, <1>4
<1>5. Range(<<>>) \subseteq Range(queue) /\ Increasing(<<>>)
  BY Emptied
<1>6. NetFree => net.at = "idle"
  BY Threads DEF NetFree
<1>7. CASE ConnectedSends \/ LinkDrops \/ OnDisconnect \/ OnDisconnectClears
  <2>1. /\ queue' = queue \/ queue' = <<>>
        /\ UNCHANGED <<gui, io, emitted, direct>>
    BY <1>7 DEF ConnectedSends, LinkDrops, OnDisconnect, OnDisconnectClears
  <2>2. net'.at # "holding"
    BY <1>7, Threads DEF ConnectedSends, LinkDrops, OnDisconnect, OnDisconnectClears
  <2> QED
    BY <1>4, <1>5, <2>1, <2>2
<1>8. CASE LinkOpens \/ OnConnected
  <2>1. /\ queue' = queue \/ queue' = <<>>
        /\ UNCHANGED <<gui, io, emitted, direct>>
    BY <1>8 DEF LinkOpens, OnConnected
  <2>2. net'.at # "holding"
    BY <1>6, <1>8, Threads DEF LinkOpens, OnConnected
  <2> QED
    BY <1>4, <1>5, <2>1, <2>2
<1>9. CASE TimeoutConnection \/ OnDisconnectPacket
  <2>1. queue' = <<>> /\ UNCHANGED <<io, emitted, direct>>
    BY <1>9 DEF TimeoutConnection, OnDisconnectPacket, RemoveSocket
  <2>2. net'.at # "holding" /\ gui'.at \in {"idle", "dangling"}
    BY <1>6, <1>9, Threads DEF TimeoutConnection, OnDisconnectPacket, RemoveSocket
  <2> QED
    BY <1>4, <1>5, <2>1, <2>2
<1>10. CASE TimerExpires
  BY <1>10 DEF TimerExpires
<1> QED
  BY <1>2, <1>3, <1>7, <1>8, <1>9, <1>10 DEF Net, Link

LEMMA OrderNext ==
    ASSUME TypeInv, SockInv, OrderInv, [Next]_vars
    PROVE  OrderInv'
<1>1. CASE UNCHANGED vars
  BY <1>1 DEF vars, sockVars, linkVars, historyVars, OrderInv, Active, GuiHolds, NetHolds
<1> QED
  BY <1>1, OrderGui, OrderNet DEF Next

\* The events that may still be sent, in the terms of OrderInv.
LEMMA Waiting ==
    /\ waiting = Range(queue) \cup (Range(io) \ {CONNECT})
                   \cup (IF Active THEN {emitted} ELSE {})
                   \cup ({gui.event, net.event} \ {0})
    /\ waiting' = Range(queue') \cup (Range(io') \ {CONNECT})
                   \cup (IF Active' THEN {emitted'} ELSE {})
                   \cup ({gui'.event, net'.event} \ {0})
BY DEF waiting, Held, Active, Steps, CONNECT

\* Emit accepts an event.
LEMMA EmitRefines ==
    ASSUME TypeInv, SockInv, OrderInv, Emit
    PROVE  Channel!Next
<1> USE DEF sockVars, linkVars, historyVars
<1>1. /\ emitted \in Nat /\ io \in Seq(Nat) /\ queue \in Seq(Nat)
      /\ ~GuiHolds => gui.event = 0
  BY Numbers
<1>2. /\ gui.at = "idle" /\ gui'.at = "looking" /\ emitted' = emitted + 1
      /\ UNCHANGED <<net, direct, sent>>
  BY Threads DEF Emit
<1>3. gui.event = 0 /\ gui'.event = 0
  BY <1>1, <1>2, Threads DEF GuiHolds, Emit, At
<1>4. Range(queue') = Range(queue)
  <2>1. sock = 0 => queue = <<>>
    BY DEF SockInv
  <2> QED
    BY <2>1 DEF Emit, MakeSocket
<1>5. Range(io') \ {CONNECT} = Range(io) \ {CONNECT}
  <2>1. io' = io \/ io' = Append(io, CONNECT)
    BY DEF Emit, MakeSocket
  <2> QED
    <3>1. Range(Append(io, CONNECT)) = Range(io) \cup {CONNECT}
      BY <1>1, Appended DEF CONNECT
    <3>2. CASE io' = io
      BY <3>2 DEF CONNECT
    <3>3. CASE io' = Append(io, CONNECT)
      <4>1. Range(io') = Range(io) \cup {CONNECT}
        BY <3>1, <3>3
      <4> QED
        BY <4>1 DEF CONNECT
    <3> QED
      BY <2>1, <3>2, <3>3
<1>6. ~Active /\ Active'
  BY <1>2 DEF Active
<1>7. waiting' = waiting \cup {emitted + 1}
  BY <1>2, <1>3, <1>4, <1>5, <1>6, Waiting
<1> QED
  BY <1>2, <1>7 DEF Channel!Next, Channel!Accept

\* What the GUI thread does then moves the event, and others that wait.
LEMMA GuiRefines ==
    ASSUME TypeInv, OrderInv, SendLooks \/ SendPushes \/ SendDrains \/ SendHeld \/ SendSelf
    PROVE  Channel!FindsConnected \/ UNCHANGED Channel!channelVars
<1> USE DEF sockVars, linkVars, historyVars
<1>1. /\ emitted \in Nat /\ io \in Seq(Nat) /\ queue \in Seq(Nat)
      /\ Range(queue) \subseteq 1..emitted
      /\ GuiHolds => gui.event \in 1..emitted
      /\ ~GuiHolds => gui.event = 0
  BY Numbers
<1>2. emitted \in 1..emitted
  BY Threads DEF TypeInv, ThreadsOK, EventsOK, SendLooks, SendPushes, SendDrains, SendHeld, SendSelf
<1>3. UNCHANGED <<emitted, sent, net>>
  BY DEF SendLooks, SendPushes, SendDrains, SendHeld, SendSelf
<1>4. /\ \A step : At(step).event = 0
      /\ None.event = 0
  BY DEF At, None
<1>5. Active
  BY DEF SendLooks, SendPushes, SendDrains, SendHeld, SendSelf, Active
<1>6. CASE SendLooks
  <2>1. /\ gui'.at \in {"draining", "pushing"} /\ gui'.event = 0 /\ gui.event = 0
        /\ UNCHANGED <<io, queue>>
    BY <1>1, <1>4, <1>6, Threads DEF SendLooks, GuiHolds
  <2>2. Active'
    BY <2>1 DEF Active
  <2>3. waiting' = waiting
    BY <1>3, <1>5, <2>1, <2>2, Waiting
  <2>4. emitted \in waiting
    BY <1>5, Waiting
  <2>5. direct' = direct \cup {emitted} \/ direct' = direct
    BY <1>6 DEF SendLooks
  <2> QED
    BY <1>3, <2>3, <2>4, <2>5 DEF Channel!FindsConnected, Channel!channelVars
<1>7. CASE SendPushes
  <2>1. /\ gui'.at = "idle" /\ gui'.event = 0 /\ gui.event = 0
        /\ queue' = Append(queue, emitted) /\ UNCHANGED <<io, direct>>
    BY <1>1, <1>4, <1>7, Threads DEF SendPushes, GuiHolds
  <2>2. Range(queue') = Range(queue) \cup {emitted}
    BY <1>1, <2>1, Appended
  <2>3. ~Active'
    BY <2>1 DEF Active
  <2>4. waiting' = waiting
    BY <1>3, <1>5, <2>1, <2>2, <2>3, Waiting
  <2> QED
    BY <1>3, <2>1, <2>4 DEF Channel!channelVars
<1>8. CASE SendDrains
  <2>1. gui.event = 0 /\ UNCHANGED <<io, direct>>
    BY <1>1, <1>8 DEF SendDrains, GuiHolds
  <2>2. CASE queue = <<>> /\ gui' = At("sending") /\ UNCHANGED queue
    <3>1. gui'.event = 0 /\ Active'
      BY <1>4, <2>2, Threads DEF Active
    <3>2. waiting' = waiting
      BY <1>3, <1>5, <2>1, <2>2, <3>1, Waiting
    <3> QED
      BY <1>3, <2>1, <3>2 DEF Channel!channelVars
  <2>3. CASE queue # <<>> /\ gui' = Holding(Head(queue)) /\ queue' = Tail(queue)
    <3>1. Range(queue) = {Head(queue)} \cup Range(queue')
      BY <1>1, <2>3, Taken
    <3>2. gui'.event = Head(queue) /\ Head(queue) # 0 /\ Active'
      <4>1. \A k \in Range(queue) : k # 0
        BY <1>1
      <4>2. Head(queue) # 0
        BY <3>1, <4>1
      <4>3. gui'.event = Head(queue) /\ gui'.at = "holding"
        BY <2>3, Threads
      <4> QED
        BY <4>2, <4>3 DEF Active
    <3>3. waiting' = waiting
      <4>1. {gui'.event, net'.event} \ {0} = {Head(queue)} \cup ({gui.event, net.event} \ {0})
        BY <1>3, <2>1, <3>2
      <4>2. Range(io') \ {CONNECT} = Range(io) \ {CONNECT}
        BY <2>1
      <4> QED
        BY <1>3, <1>5, <3>1, <3>2, <4>1, <4>2, Waiting
    <3> QED
      BY <1>3, <2>1, <3>3 DEF Channel!channelVars
  <2> QED
    BY <1>8, <2>2, <2>3 DEF SendDrains
<1>9. CASE SendHeld
  <2>1. /\ io' = Append(io, gui.event) /\ gui'.event = 0 /\ gui'.at = "draining"
        /\ gui.event \in 1..emitted
        /\ UNCHANGED <<queue, direct>>
    BY <1>1, <1>4, <1>9, Threads DEF SendHeld, GuiHolds
  <2>2. Range(io') = Range(io) \cup {gui.event} /\ gui.event # CONNECT /\ Active'
    BY <1>1, <2>1, Appended DEF CONNECT, Active
  <2>3. waiting' = waiting
    BY <1>3, <1>5, <2>1, <2>2, Waiting DEF CONNECT
  <2> QED
    BY <1>3, <2>1, <2>3 DEF Channel!channelVars
<1>10. CASE SendSelf
  <2>1. /\ io' = Append(io, emitted) /\ gui'.event = 0 /\ gui.event = 0 /\ gui'.at = "idle"
        /\ UNCHANGED <<queue, direct>>
    BY <1>1, <1>4, <1>10, Threads DEF SendSelf, GuiHolds
  <2>2. Range(io') = Range(io) \cup {emitted} /\ emitted # CONNECT /\ ~Active'
    BY <1>1, <1>2, <2>1, Appended DEF CONNECT, Active
  <2>3. waiting' = waiting
    BY <1>3, <1>5, <2>1, <2>2, Waiting DEF CONNECT
  <2> QED
    BY <1>3, <2>1, <2>3 DEF Channel!channelVars
<1> QED
  BY <1>6, <1>7, <1>8, <1>9, <1>10

\* The network thread sends a dispatched event, the least that waits.
LEMMA SendRefines ==
    ASSUME TypeInv, OrderInv, SendImpl
    PROVE  Channel!Transmit \/ Channel!Lose
<1> USE DEF sockVars, linkVars, historyVars
<1>1. /\ emitted \in Nat /\ io \in Seq(Nat) /\ queue \in Seq(Nat)
      /\ Range(io) \subseteq 0..emitted /\ Range(queue) \subseteq 1..emitted
      /\ GuiHolds => gui.event \in 1..emitted
      /\ ~GuiHolds => gui.event = 0
      /\ ~NetHolds => net.event = 0
  BY Numbers
<1>2. /\ io # <<>> /\ io' = Tail(io)
      /\ UNCHANGED <<queue, gui, net, emitted, direct>>
      /\ net.event = 0
  BY <1>1, Threads DEF SendImpl, NetFree, NetHolds
<1>3. Range(io) = {Head(io)} \cup Range(io')
  BY <1>1, <1>2, Taken
<1>4. Increasing(io)
  BY DEF OrderInv
<1>5. Head(io) # CONNECT => \A m \in Range(io') \ {CONNECT} : Head(io) < m
  BY <1>1, <1>2, <1>4, TakenIncreasing
<1>6. Active' = Active
  BY <1>2 DEF Active
<1> DEFINE others == Range(queue) \cup (IF Active THEN {emitted} ELSE {})
                       \cup ({gui.event, net.event} \ {0})
<1>7. /\ waiting = others \cup (Range(io) \ {CONNECT})
      /\ waiting' = others \cup (Range(io') \ {CONNECT})
  BY <1>2, <1>6, Waiting
<1>8. CASE sent' = sent
  <2>1. waiting' \in SUBSET waiting
    BY <1>3, <1>7, <1>8
  <2> QED
    BY <1>2, <1>8, <2>1 DEF Channel!Lose
<1>9. CASE Head(io) # CONNECT /\ sent' = Append(sent, Head(io))
  <2> DEFINE m == Head(io)
  <2>1. m \in Range(io) \ {CONNECT} /\ m \in 1..emitted
    <3>1. m \in Range(io) /\ m # 0
      BY <1>3, <1>9 DEF CONNECT
    <3>2. \A k \in Range(io) \ {0} : k \in 1..emitted
      BY <1>1
    <3> HIDE DEF m
    <3> QED
      BY <3>1, <3>2 DEF CONNECT
  <2>2. \A k \in others : m < k
    <3>1. \A k \in Range(queue) : m < k
      BY <2>1 DEF OrderInv
    <3>2. Active => m < emitted
      BY <2>1 DEF OrderInv
    <3>3. GuiHolds => m < gui.event
      BY <2>1 DEF OrderInv
    <3> QED
      BY <1>1, <1>2, <3>1, <3>2, <3>3
  <2>3. \A k \in Range(io') \ {CONNECT} : m < k
    BY <1>5, <1>9
  <2>4. Range(io) \ {CONNECT} = {m} \cup (Range(io') \ {CONNECT})
    BY <1>3, <2>1
  <2>5. waiting = {m} \cup waiting' /\ m \in waiting
    BY <1>7, <2>4
  <2>6. \A k \in waiting' : m < k
    BY <1>7, <2>2, <2>3
  <2>7. m \notin waiting'
    BY <2>1, <2>6
  <2>8. \A k \in waiting' : k \in Nat
    BY <1>1, <1>2, <1>3, <1>7
  <2>9. \A k \in waiting : k >= m
    BY <2>1, <2>5, <2>6, <2>8
  <2>10. waiting' = waiting \ {m}
    BY <2>5, <2>7
  <2> HIDE DEF m
  <2>11. sent' = Append(sent, m)
    BY <1>9 DEF m
  <2> QED
    BY <1>2, <2>5, <2>9, <2>10, <2>11 DEF Channel!Transmit
<1> QED
  BY <1>8, <1>9 DEF SendImpl

\* So it does with an event it has taken from the queue, which did not find
\* the socket connected.
LEMMA SendsRefines ==
    ASSUME TypeInv, OrderInv, ConnectedSends
    PROVE  Channel!Transmit
<1> USE DEF sockVars, linkVars, historyVars
<1>1. /\ emitted \in Nat
      /\ GuiHolds => gui.event \in 1..emitted
      /\ ~GuiHolds => gui.event = 0
      /\ net.event \in 1..emitted
  BY Numbers DEF ConnectedSends, NetHolds
<1>2. /\ UNCHANGED <<queue, io, gui, emitted, direct>>
      /\ net'.event = 0 /\ sent' = Append(sent, net.event)
  BY DEF ConnectedSends, At
<1>3. NetHolds
  BY DEF ConnectedSends, NetHolds
<1>4. Active' = Active
  BY <1>2 DEF Active
<1>5. net.event \notin direct
  BY <1>3 DEF OrderInv
<1>6. /\ net.event \notin Range(queue)
      /\ net.event \notin Range(io) \ {CONNECT}
      /\ GuiHolds => net.event # gui.event
      /\ Active => net.event < emitted
  BY <1>3 DEF OrderInv
<1> DEFINE others == Range(queue) \cup (Range(io) \ {CONNECT})
                       \cup (IF Active THEN {emitted} ELSE {}) \cup ({gui.event} \ {0})
<1>7. net.event \notin others
  BY <1>1, <1>6
<1>8. waiting = others \cup {net.event} /\ waiting' = others
  BY <1>1, <1>2, <1>4, Waiting
<1>9. net.event \in waiting /\ waiting' = waiting \ {net.event}
  BY <1>7, <1>8
<1> HIDE DEF others
<1> QED
  BY <1>2, <1>5, <1>9 DEF Channel!Transmit

\* Whatever else happens loses events or leaves them waiting.
LEMMA OtherRefines ==
    ASSUME TypeInv, SockInv, OrderInv,
           \/ ConnectedDrains \/ OnDisconnect \/ OnDisconnectClears
           \/ TimeoutConnection \/ Link \/ TimerExpires
    PROVE  Channel!Lose
<1> USE DEF sockVars, linkVars, historyVars
<1>1. /\ emitted \in Nat /\ queue \in Seq(Nat)
      /\ ~GuiHolds => gui.event = 0
      /\ ~NetHolds => net.event = 0
  BY Numbers
<1>2. UNCHANGED <<emitted, direct, sent, io>>
  BY DEF Link, ConnectedDrains, OnDisconnect, OnDisconnectClears, TimeoutConnection,
         LinkOpens, OnConnected, LinkDrops, OnDisconnectPacket, RemoveSocket, TimerExpires
<1>3. /\ \A step : At(step).event = 0
      /\ None.event = 0
  BY DEF At, None
<1>4. CASE ConnectedDrains
  <2>1. gui' = gui /\ net.event = 0
    BY <1>1, <1>4 DEF ConnectedDrains, NetHolds
  <2>2. /\ Range(queue') \subseteq Range(queue)
        /\ net'.event # 0 => net'.event \in Range(queue)
    <3>1. CASE queue = <<>> /\ net' = None /\ UNCHANGED queue
      BY <1>3, <3>1
    <3>2. CASE queue # <<>> /\ net' = Holding(Head(queue)) /\ queue' = Tail(queue)
      BY <1>1, <3>2, Taken, Threads
    <3> QED
      BY <1>4, <3>1, <3>2 DEF ConnectedDrains
  <2>3. Active' = Active
    BY <2>1 DEF Active
  <2>4. waiting' \in SUBSET waiting
    BY <1>2, <2>1, <2>2, <2>3, Waiting
  <2> QED
    BY <1>2, <2>4 DEF Channel!Lose
<1>5. CASE ~ConnectedDrains
  <2>1. queue' = queue \/ queue' = <<>>
    BY <1>5 DEF Link, OnDisconnect, OnDisconnectClears, TimeoutConnection,
       LinkOpens, OnConnected, LinkDrops, OnDisconnectPacket, RemoveSocket, TimerExpires
  <2>2. Range(queue') \subseteq Range(queue)
    BY <2>1, Emptied
  <2>3. net'.event = 0 \/ net' = net
    BY <1>3, <1>5 DEF Link, OnDisconnect, OnDisconnectClears, TimeoutConnection,
       LinkOpens, OnConnected, LinkDrops, OnDisconnectPacket, RemoveSocket, TimerExpires
  <2>4. gui' = gui \/ (gui'.event = 0 /\ gui'.at \in {"idle", "dangling"})
    BY <1>3, <1>5, Threads
       DEF Link, OnDisconnect, OnDisconnectClears, TimeoutConnection,
       LinkOpens, OnConnected, LinkDrops, OnDisconnectPacket, RemoveSocket, TimerExpires
  <2>5. Active' => Active
    BY <2>4 DEF Active
  <2>6. waiting' \in SUBSET waiting
    BY <1>2, <2>2, <2>3, <2>4, <2>5, Waiting
  <2> QED
    BY <1>2, <2>6 DEF Channel!Lose
<1> QED
  BY <1>4, <1>5

\* emit() implements EventChannel: an event is sent once at most, and one that
\* found the socket connected is not sent before an earlier one that may still
\* be sent, though two threads empty the queue.
THEOREM SocketIsChannel == Spec => ImplementsChannel
<1>1. Init => Channel!Init
  <2>1. Init => waiting = {}
    BY Threads, Emptied DEF Init, waiting, Held, None
  <2> QED
    BY <2>1 DEF Init, Channel!Init
<1>2. TypeInv /\ SockInv /\ OrderInv /\ [Next]_vars => [Channel!Next]_Channel!channelVars
  <2> SUFFICES ASSUME TypeInv, SockInv, OrderInv, [Next]_vars
               PROVE  [Channel!Next]_Channel!channelVars
    OBVIOUS
  <2>1. CASE UNCHANGED vars
    BY <2>1 DEF vars, sockVars, linkVars, historyVars, Channel!channelVars, waiting, Held
  <2>2. CASE Next
    BY <2>2, EmitRefines, GuiRefines, SendRefines, SendsRefines, OtherRefines
       DEF Next, Gui, Net, Channel!Next
  <2> QED
    BY <2>1, <2>2
<1> QED
  BY <1>1, <1>2, TypeInit, TypeNext, SockInit, SockNext, OrderInit, OrderNext, PTL
     DEF Spec, ImplementsChannel, Channel!Spec

============================================================================
