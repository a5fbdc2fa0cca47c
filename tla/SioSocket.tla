------------------------------ MODULE SioSocket ------------------------------
(***************************************************************************)
(* The socket of socket.io that the SignalManager emits through            *)
(* (sio_socket.cpp, with socket(), send and send_impl of                   *)
(* sio_client_impl.cpp).  The GUI thread emits: it looks at m_connected    *)
(* without a lock, takes packets from m_packet_queue one by one under the  *)
(* lock, and dispatches what it sends to the network thread.  There the    *)
(* connection comes and goes, and what is sent is written at once.         *)
(***************************************************************************)
EXTENDS Naturals, Sequences, SequencesExt

CONSTANTS
    MaxEmits,   \* bound on the events emitted
    MaxLinks,   \* bound on the connections
    MaxSockets, \* bound on the sockets made
    PromptUser  \* TRUE: no emit lasts as long as the delay before a reconnection

ASSUME SioSocketAssumption ==
    /\ MaxEmits \in Nat
    /\ MaxLinks \in Nat
    /\ MaxSockets \in Nat \ {0}
    /\ PromptUser \in BOOLEAN

VARIABLES
    connected,  \* m_connected
    queue,      \* m_packet_queue: events, by their numbers
    timer,      \* m_connection_timer
    stray,      \* the handler of a cancelled m_connection_timer is still queued
    sock,       \* the socket in m_sockets, 0 for none; only socket 1 has listeners
    sockets,    \* sockets made so far
    link,       \* the connection, 0 when m_con_state is not con_opened
    links,      \* connections so far
    asked,      \* a CONNECT sent on the connection may still be answered
    acked,      \* history: one has been answered
    io,         \* packets the GUI thread has dispatched: 0 is CONNECT
    gui,        \* where the GUI thread is in emit, and the event it has taken
    net,        \* where the network thread is in a handler, and the same
    emitted, direct, sent   \* history, as in EventChannel

sockVars == <<connected, queue, timer, stray, sock, sockets>>
linkVars == <<link, links, asked, acked>>
historyVars == <<emitted, direct, sent>>
vars == <<sockVars, linkVars, io, gui, net, historyVars>>

CONNECT == 0
Events == 1..MaxEmits
None == [at |-> "idle", event |-> 0]
At(step) == [at |-> step, event |-> 0]
Holding(event) == [at |-> "holding", event |-> event]

Init ==
    /\ connected = FALSE /\ queue = <<>> /\ timer = "off" /\ stray = FALSE
    /\ sock = 1 /\ sockets = 1
    /\ link = 0 /\ links = 0 /\ asked = FALSE /\ acked = FALSE
    /\ io = <<>> /\ gui = None /\ net = None
    /\ emitted = 0 /\ direct = {} /\ sent = <<>>

NetFree == net = None

----------------------------------------------------------------------------
(* The GUI thread: socket_client.socket()->emit(...). *)

\* socket() makes a socket when there is none; its constructor sends CONNECT
\* if the client is opened.
MakeSocket ==
    /\ sockets < MaxSockets
    /\ sock' = sockets + 1 /\ sockets' = sockets + 1
    /\ connected' = FALSE /\ queue' = <<>>
    /\ IF link # 0
         THEN io' = Append(io, CONNECT) /\ timer' = "running"
         ELSE UNCHANGED <<io, timer>>
    /\ UNCHANGED stray

Emit ==
    /\ gui = None /\ emitted < MaxEmits
    /\ emitted' = emitted + 1
    /\ gui' = At("looking")
    /\ \/ sock # 0 /\ UNCHANGED <<sockVars, io>>
       \/ sock = 0 /\ MakeSocket
    /\ UNCHANGED <<linkVars, net, direct, sent>>

\* send_packet: m_connected is read before the queue is locked.
SendLooks ==
    /\ gui.at = "looking"
    /\ \/ connected /\ gui' = At("draining") /\ direct' = direct \cup {emitted}
       \/ ~connected /\ gui' = At("pushing") /\ UNCHANGED direct
    /\ UNCHANGED <<sockVars, linkVars, io, net, emitted, sent>>

SendPushes ==
    /\ gui.at = "pushing"
    /\ queue' = Append(queue, emitted)
    /\ gui' = None
    /\ UNCHANGED <<connected, timer, stray, sock, sockets, linkVars, io, net, historyVars>>

\* Faulty variant: the queue is left to on_connected.
SendDrainsNothing ==
    /\ gui.at = "draining"
    /\ gui' = At("sending")
    /\ UNCHANGED <<sockVars, linkVars, io, net, historyVars>>

SendDrains ==
    /\ gui.at = "draining"
    /\ \/ queue = <<>> /\ gui' = At("sending") /\ UNCHANGED queue
       \/ queue # <<>> /\ gui' = Holding(Head(queue)) /\ queue' = Tail(queue)
    /\ UNCHANGED <<connected, timer, stray, sock, sockets, linkVars, io, net, historyVars>>

\* Faulty variant: the packet dispatched is copied, not moved, and kept.
SendHeldKeeps ==
    /\ gui.at = "holding"
    /\ io' = Append(io, gui.event)
    /\ gui' = [gui EXCEPT !.at = "draining"]
    /\ UNCHANGED <<sockVars, linkVars, net, historyVars>>

SendHeld ==
    /\ gui.at = "holding"
    /\ io' = Append(io, gui.event)
    /\ gui' = At("draining")
    /\ UNCHANGED <<sockVars, linkVars, net, historyVars>>

SendSelf ==
    /\ gui.at = "sending"
    /\ io' = Append(io, emitted)
    /\ gui' = None
    /\ UNCHANGED <<sockVars, linkVars, net, historyVars>>

----------------------------------------------------------------------------
(* The network thread. *)

\* send_impl, of a packet that the GUI thread has dispatched.
SendImpl ==
    /\ NetFree /\ io # <<>>
    /\ io' = Tail(io)
    /\ \/ link = 0 /\ UNCHANGED <<asked, sent>>
       \/ link # 0 /\ Head(io) = CONNECT /\ asked' = TRUE /\ UNCHANGED sent
       \/ link # 0 /\ Head(io) # CONNECT /\ sent' = Append(sent, Head(io)) /\ UNCHANGED asked
    /\ UNCHANGED <<sockVars, link, links, acked, gui, net, emitted, direct>>

\* A handler that is queued is not cancelled.
LostTimer == stray \/ timer = "due"

\* Reconnections come after a delay of five seconds.
Prompt == PromptUser /\ links > 0 => gui = None /\ io = <<>>

\* client_impl::on_open: each socket sends CONNECT and sets its timer, and
\* a socket is made if there is none.
LinkOpens ==
    /\ NetFree /\ link = 0 /\ links < MaxLinks /\ Prompt
    /\ links' = links + 1 /\ link' = links + 1
    /\ asked' = TRUE /\ acked' = FALSE
    /\ timer' = "running" /\ stray' = LostTimer
    /\ \/ sock # 0 /\ UNCHANGED <<sock, sockets, connected, queue>>
       \/ /\ sock = 0 /\ sockets < MaxSockets
          /\ sock' = sockets + 1 /\ sockets' = sockets + 1
          /\ connected' = FALSE /\ queue' = <<>>
    /\ UNCHANGED <<io, gui, net, historyVars>>

\* Faulty variant: the timer goes on.
OnConnectedKeepsTimer ==
    /\ NetFree /\ link # 0 /\ asked
    /\ asked' = FALSE /\ acked' = TRUE
    /\ \/ sock # 0 /\ connected' = TRUE
          /\ net' = IF connected THEN None ELSE At("draining")
       \/ sock = 0 /\ UNCHANGED <<connected, net>>
    /\ UNCHANGED <<queue, timer, stray, sock, sockets, link, links, io, gui, historyVars>>

\* Faulty variant: the queue is left for the next emit.
OnConnectedLeavesQueue ==
    /\ NetFree /\ link # 0 /\ asked
    /\ asked' = FALSE /\ acked' = TRUE
    /\ \/ sock # 0 /\ timer' = "off" /\ stray' = LostTimer /\ connected' = TRUE
       \/ sock = 0 /\ UNCHANGED <<timer, stray, connected>>
    /\ UNCHANGED <<queue, sock, sockets, link, links, io, gui, net, historyVars>>

\* The answer to CONNECT.
OnConnected ==
    /\ NetFree /\ link # 0 /\ asked
    /\ asked' = FALSE /\ acked' = TRUE
    /\ \/ /\ sock # 0
          /\ timer' = "off" /\ stray' = LostTimer
          /\ connected' = TRUE
          /\ net' = IF connected THEN None ELSE At("draining")
       \/ sock = 0 /\ UNCHANGED <<timer, stray, connected, net>>
    /\ UNCHANGED <<queue, sock, sockets, link, links, io, gui, historyVars>>

ConnectedDrains ==
    /\ net.at = "draining"
    /\ \/ queue = <<>> /\ net' = None /\ UNCHANGED queue
       \/ queue # <<>> /\ net' = Holding(Head(queue)) /\ queue' = Tail(queue)
    /\ UNCHANGED <<connected, timer, stray, sock, sockets, linkVars, io, gui, historyVars>>

\* Dispatched on its own thread, a packet is written at once.
ConnectedSends ==
    /\ net.at = "holding"
    /\ sent' = Append(sent, net.event)
    /\ net' = At("draining")
    /\ UNCHANGED <<sockVars, linkVars, io, gui, emitted, direct>>

\* on_close and on_fail of the client call on_disconnect of the socket.
LinkDrops ==
    /\ NetFree /\ link # 0
    /\ link' = 0
    /\ net' = At("dropping")
    /\ UNCHANGED <<sockVars, links, asked, acked, io, gui, historyVars>>

\* Faulty variant: m_connected stays set.
OnDisconnectKeepsConnected ==
    /\ net.at = "dropping"
    /\ net' = IF connected THEN At("clearing") ELSE None
    /\ UNCHANGED <<sockVars, linkVars, io, gui, historyVars>>

OnDisconnect ==
    /\ net.at = "dropping"
    /\ connected' = FALSE
    /\ net' = IF connected THEN At("clearing") ELSE None
    /\ UNCHANGED <<queue, timer, stray, sock, sockets, linkVars, io, gui, historyVars>>

OnDisconnectClears ==
    /\ net.at = "clearing"
    /\ queue' = <<>>
    /\ net' = None
    /\ UNCHANGED <<connected, timer, stray, sock, sockets, linkVars, io, gui, historyVars>>

TimerExpires ==
    /\ timer = "running"
    /\ timer' = "due"
    /\ UNCHANGED <<connected, queue, stray, sock, sockets, linkVars, io, gui, net, historyVars>>

\* on_close of the socket, which is removed.  An emit under way goes on with
\* a socket that is gone, and a handler of its timer is called on one: what
\* these do is anything, and here the GUI thread stops and the handler does
\* nothing.
RemoveSocket ==
    /\ sock # 0
    /\ sock' = 0
    /\ connected' = FALSE /\ queue' = <<>>
    /\ timer' = "off" /\ stray' = FALSE
    /\ gui' = IF gui = None THEN None ELSE At("dangling")
    /\ UNCHANGED <<sockets, link, links, acked, io, net, historyVars>>

\* timeout_connection, called by the timer or in spite of its being cancelled.
TimeoutConnection ==
    /\ NetFree
    /\ LostTimer
    /\ RemoveSocket
    /\ UNCHANGED asked

\* A "disconnect" packet of the server.
OnDisconnectPacket ==
    /\ NetFree /\ link # 0 /\ acked
    /\ RemoveSocket
    /\ asked' = FALSE

----------------------------------------------------------------------------
Gui == Emit \/ SendLooks \/ SendPushes \/ SendDrains \/ SendHeld \/ SendSelf

Net ==
    \/ SendImpl
    \/ ConnectedDrains \/ ConnectedSends
    \/ OnDisconnect \/ OnDisconnectClears
    \/ TimeoutConnection

Link == LinkOpens \/ OnConnected \/ LinkDrops \/ OnDisconnectPacket

Next == Gui \/ Net \/ Link \/ TimerExpires

Spec == Init /\ [][Next]_vars

\* The network thread and an emit under way go on, the client connects again
\* (DropIsRetried of SioConnection) and the server answers a CONNECT unless
\* the connection drops.
FairSpec ==
    /\ Spec
    /\ WF_vars(Net)
    /\ WF_vars(gui # None /\ Gui)
    /\ SF_vars(LinkOpens)
    /\ SF_vars(OnConnected)

----------------------------------------------------------------------------
(* What is to hold. *)

Steps == {"idle", "looking", "pushing", "draining", "holding", "sending", "dangling"}

\* Only a thread that holds a packet has one.
Takes(thread, last) == thread.event \in IF thread.at = "holding" THEN 1..last ELSE {0}

\* Every variable keeps its type; only an emit or a handler that has taken a
\* packet holds one, and no packet is taken or made that was not emitted.
SioSocketTypeOK ==
    /\ connected \in BOOLEAN /\ stray \in BOOLEAN
    /\ timer \in {"off", "running", "due"}
    /\ sockets \in 1..MaxSockets /\ sock \in {0, sockets}
    /\ links \in 0..MaxLinks /\ link \in {0, links}
    /\ asked \in BOOLEAN /\ acked \in BOOLEAN
    /\ emitted \in 0..MaxEmits /\ direct \subseteq 1..emitted
    /\ queue \in Seq(1..emitted) /\ io \in Seq(0..emitted) /\ sent \in Seq(1..emitted)
    /\ gui.at \in Steps
    /\ net.at \in {"idle", "draining", "holding", "dropping", "clearing"}
    /\ Takes(gui, emitted) /\ Takes(net, emitted)

\* The timer that would remove the socket for want of an answer to CONNECT
\* (send_connect) does not run beside a connected socket.
NoTimerWhileConnected == connected => timer = "off"

\* An emit that has found the socket not connected can push its packet after
\* on_connected has emptied the queue; but at most that one packet is left
\* behind in the queue of a connected socket that nobody is emptying.
StrandsAtMostOne ==
    connected /\ NetFree /\ gui.at \notin {"draining", "holding"} =>
        Len(queue) <= IF gui.at = "sending" THEN 0 ELSE 1

\* No event is written on a connection before the server has answered the
\* CONNECT sent on it, whatever m_connected was read on the GUI thread.
SentAfterAck == [][sent' # sent => link # 0 /\ acked]_vars

Queued(m) == m \in Range(queue)

\* An event queued while the socket is not connected does not stay there: it
\* is sent after the next answer to CONNECT or dropped with the socket or
\* the connection.
QueuedIsFlushed ==
    \A m \in Events :
        Queued(m) /\ ~connected ~> ~Queued(m) \/ (link = 0 /\ links = MaxLinks)

Held ==
    (IF gui.at \in Steps \ {"idle", "dangling"} THEN {emitted} ELSE {})
    \cup ({gui.event, net.event} \ {0})

waiting == Range(queue) \cup (Range(io) \ {CONNECT}) \cup Held

Channel == INSTANCE EventChannel

\* emit() keeps what EventChannel promises: an event is sent once at most, and
\* one that found the socket connected never overtakes an earlier one, though
\* two threads empty the queue.
ImplementsChannel == Channel!Spec

=============================================================================
