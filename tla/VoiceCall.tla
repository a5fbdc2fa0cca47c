----------------------------- MODULE VoiceCall -----------------------------
(***************************************************************************)
(* Voice calls between clients of the application: the QML window          *)
(* (qml/Main.qml and its popups), the WebRTC object (webrtc.cpp), the      *)
(* SignalManager (signalmanager.cpp), the signalling server they share and *)
(* libdatachannel as webrtc.cpp uses it.                                   *)
(*                                                                         *)
(* Each client has three kinds of threads.  The GUI thread runs the clicks *)
(* and the slots; signals raised elsewhere reach it through its event      *)
(* queue.  The socket.io thread receives the server's messages.  The       *)
(* threads of libdatachannel run the callbacks of the peer connections.    *)
(***************************************************************************)
EXTENDS Naturals, Sequences

CONSTANTS
    Users,      \* clients: processes of the application
    Names,      \* the names users register, never blank
    Blank,      \* what the name field holds after a reset
    Takes,      \* <<u, n>>: u may register the name n
    Dials,      \* <<u, n>>: u may dial the name n
    MayFail,    \* TRUE: the media path between two peers may break down
    MaxCalls,   \* bound on the calls a client starts
    MaxLinks,   \* bound on the connections a client makes to the server
    MaxMade,    \* bound on the peer connections a client makes
    NoName, NoSocket, NoSdp, NoConn

Keys == Names \cup {Blank}
Links == 1..MaxLinks
Sockets == Users \X Links

Pc == Users \X (1..MaxMade)                     \* the n-th peer connection of u
Sdp == [pc : Pc, kind : {"offer", "answer"}]    \* a description pc generated
Body == Sdp \cup {NoSdp}

\* A peer connection: local is the description it generates, gathered when the
\* callback has seen it complete, remote the description it was given, tracked
\* when m_peerTrack has been set to its track.
Conn == [id : 1..MaxMade, local : {"none", "offer", "answer"}, gathered : BOOLEAN,
         remote : Body, tracked : BOOLEAN,
         state : {"new", "connected", "failed", "closed"}]

Kinds == {"offer", "answer", "reject"}
Request == [kind : Kinds \cup {"register"}, to : Keys, body : Body]

Ops == {"offerReceived", "answerReceived", "rejectReceived", "offerIsReady",
        "answerIsReady", "connectionReady", "endConnection"}
Event == [op : Ops, peer : Keys, body : Body]

ASSUME CallAssumption ==
    /\ Takes \subseteq Users \X Names
    /\ Dials \subseteq Users \X Keys
    /\ Blank \notin Names
    /\ NoName \notin Keys
    /\ NoSocket \notin Sockets
    /\ NoSdp \notin Sdp
    /\ NoConn \notin Conn
    /\ MayFail \in BOOLEAN
    /\ MaxCalls \in Nat
    /\ MaxLinks \in Nat \ {0}
    /\ MaxMade \in Nat

VARIABLES
    status, peerIds, peerNames, inbox,  \* of the server
    \* SignalManager and its socket
    link,       \* how often u has connected; its socket is <<u, link[u]>>
    linked,     \* u is connected to the server
    up,         \* what u has emitted and the server has not handled
    \* WebRTC
    alive,      \* FALSE once the process has terminated
    gui,        \* the event queue of the GUI thread
    isOfferer, peerSdps, peerConnections,
    peerTrack,  \* the peer connection m_peerTrack belongs to, 0 for none
    made,       \* peer connections made so far
    mic,        \* AudioInput is open
    speaker,    \* AudioOutput is started
    \* QML
    username,   \* NoName while the registration popup is open
    button,     \* callButton: "call", "connecting" or "endCall"
    nameField,
    popup,      \* who the incoming call popup names, NoName when closed
    calls,      \* counts the calls u has started
    \* history
    agreed      \* whom u has called or accepted and not hung up on since

serverVars == <<status, peerIds, peerNames, inbox>>
linkVars == <<link, linked, up>>
audioVars == <<mic, speaker>>
pcVars == <<isOfferer, peerSdps, peerConnections, peerTrack, made>>
uiVars == <<username, button, nameField, popup, calls, agreed>>
vars == <<serverVars, linkVars, alive, gui, pcVars, audioVars, uiVars>>

Server == INSTANCE SignalingServer WITH Payloads <- Body

----------------------------------------------------------------------------
(* What the state says. *)

Socket(u) == <<u, link[u]>>

\* The peer connection pc is the live entry of its owner's map for name n.
Holds(pc, n) ==
    LET c == peerConnections[pc[1]][n] IN
    /\ alive[pc[1]]
    /\ c # NoConn
    /\ c.id = pc[2]
    /\ c.state # "closed"

Gone(pc) == \A n \in Keys : ~Holds(pc, n)

IsOpen(c) == c # NoConn /\ c.state # "closed"

\* c, held by u, and d have been given each other's description.
Matched(u, c, v, d) ==
    /\ c.remote # NoSdp /\ c.remote.pc = <<v, d.id>>
    /\ d.remote # NoSdp /\ d.remote.pc = <<u, c.id>>

----------------------------------------------------------------------------
(* Steps that several operations share. *)

Emit(u, kind, n, body) ==
    up' = [up EXCEPT ![u] = Append(@, [kind |-> kind, to |-> n, body |-> body])]

Queued(op, n, body) == <<[op |-> op, peer |-> n, body |-> body]>>

Post(u, events) == gui' = [gui EXCEPT ![u] = @ \o events]

\* Faulty variant: only the other side's close is noticed.
ClosedByNobody(c) == <<>>

\* The Closed callback of a peer connection that was open.
ClosedBy(c) == IF IsOpen(c) THEN Queued("endConnection", Blank, NoSdp) ELSE <<>>

\* addPeer: a new peer connection takes the place of the old one, which is
\* destroyed; its destructor closes it.
FreshConn(u, local, remote) ==
    [id |-> made[u] + 1, local |-> local, gathered |-> FALSE, remote |-> remote,
     tracked |-> local = "offer", state |-> "new"]

AddPeer(u, n, local, remote) ==
    /\ made[u] < MaxMade
    /\ made' = [made EXCEPT ![u] = @ + 1]
    /\ peerConnections' = [peerConnections EXCEPT ![u][n] = FreshConn(u, local, remote)]

Terminate(u) == alive' = [alive EXCEPT ![u] = FALSE]

\* Faulty variants: the window does not note whom it is connected to; it
\* leaves the field undefined.
ConnectedWithoutName(u, n) == button' = [button EXCEPT ![u] = "endCall"] /\ UNCHANGED nameField

ResetToUndefined(u) ==
    /\ button' = [button EXCEPT ![u] = "call"]
    /\ nameField' = [nameField EXCEPT ![u] = NoName]

\* callButton.connected() and callButton.reset()
Connected(u, n) ==
    /\ button' = [button EXCEPT ![u] = "endCall"]
    /\ nameField' = [nameField EXCEPT ![u] = n]

Reset(u) ==
    /\ button' = [button EXCEPT ![u] = "call"]
    /\ nameField' = [nameField EXCEPT ![u] = Blank]

----------------------------------------------------------------------------
(* Clicks.  The two popups are modal: the registration popup hides the      *)
(* window until a name is submitted, the call popup until it is answered.   *)

\* Faulty variant: the registration popup stays open.
ClickSubmitAgain(u, n) ==
    /\ alive[u]
    /\ username' = [username EXCEPT ![u] = n]
    /\ isOfferer' = [isOfferer EXCEPT ![u] = FALSE]
    /\ AddPeer(u, n, "none", NoSdp)
    /\ Emit(u, "register", n, NoSdp)
    /\ UNCHANGED <<serverVars, link, linked, alive, gui, peerSdps, peerTrack, audioVars,
                   button, nameField, popup, calls, agreed>>

\* registerName: also makes a peer connection under the user's own name,
\* which nothing uses.
ClickSubmit(u, n) ==
    /\ alive[u] /\ username[u] = NoName
    /\ username' = [username EXCEPT ![u] = n]
    /\ isOfferer' = [isOfferer EXCEPT ![u] = FALSE]
    /\ AddPeer(u, n, "none", NoSdp)
    /\ Emit(u, "register", n, NoSdp)
    /\ UNCHANGED <<serverVars, link, linked, alive, gui, peerSdps, peerTrack, audioVars,
                   button, nameField, popup, calls, agreed>>

MayClick(u) == alive[u] /\ username[u] # NoName /\ popup[u] = NoName

\* Faulty variant: a peer connection that exists is used again.
ClickCallReusing(u, n) ==
    /\ MayClick(u) /\ button[u] = "call"
    /\ calls[u] < MaxCalls
    /\ calls' = [calls EXCEPT ![u] = @ + 1]
    /\ isOfferer' = [isOfferer EXCEPT ![u] = TRUE]
    /\ IF peerConnections[u][n] = NoConn
       THEN AddPeer(u, n, "offer", NoSdp)
       ELSE /\ peerConnections' = [peerConnections EXCEPT ![u][n].gathered = FALSE]
            /\ UNCHANGED made
    /\ button' = [button EXCEPT ![u] = "connecting"]
    /\ nameField' = [nameField EXCEPT ![u] = n]
    /\ agreed' = [agreed EXCEPT ![u] = @ \cup {n}]
    /\ UNCHANGED <<serverVars, linkVars, alive, gui, peerSdps, peerTrack, audioVars,
                   username, popup>>

\* callButton while not pushed, with n typed in the field: startCall.
ClickCall(u, n) ==
    /\ MayClick(u) /\ button[u] = "call"
    /\ calls[u] < MaxCalls
    /\ calls' = [calls EXCEPT ![u] = @ + 1]
    /\ isOfferer' = [isOfferer EXCEPT ![u] = TRUE]
    /\ Post(u, ClosedBy(peerConnections[u][n]))
    /\ AddPeer(u, n, "offer", NoSdp)
    /\ peerTrack' = [peerTrack EXCEPT ![u] = made[u] + 1]
    /\ button' = [button EXCEPT ![u] = "connecting"]
    /\ nameField' = [nameField EXCEPT ![u] = n]
    /\ agreed' = [agreed EXCEPT ![u] = @ \cup {n}]
    /\ UNCHANGED <<serverVars, linkVars, alive, peerSdps, audioVars, username, popup>>

\* Faulty variant: the window forgets the call and does not close it.
ClickEndForgets(u) ==
    /\ MayClick(u) /\ button[u] = "endCall"
    /\ Reset(u)
    /\ agreed' = [agreed EXCEPT ![u] = @ \ {nameField[u]}]
    /\ UNCHANGED <<serverVars, linkVars, alive, gui, pcVars, audioVars, username, popup, calls>>

\* callButton while pushed: endCall looks the name up with operator[], which
\* yields a null pointer for a name without a peer connection.
ClickEnd(u) ==
    LET n == nameField[u]
        c == peerConnections[u][n] IN
    /\ MayClick(u) /\ button[u] = "endCall"
    /\ IF c = NoConn
       THEN /\ Terminate(u)
            /\ UNCHANGED <<gui, peerConnections, button, nameField, agreed>>
       ELSE /\ peerConnections' = [peerConnections EXCEPT ![u][n].state = "closed"]
            /\ Post(u, ClosedBy(c))
            /\ Reset(u)
            /\ agreed' = [agreed EXCEPT ![u] = @ \ {n}]
            /\ UNCHANGED alive
    /\ UNCHANGED <<serverVars, linkVars, isOfferer, peerSdps, peerTrack, made, audioVars,
                   username, popup, calls>>

\* The description d, typed as an offer, is set on the peer connection for n:
\* a new one unless u has the offerer's role and one exists, where the
\* library rolls back or renegotiates, and ignores it once closed.
AttachOffer(u, n, d) ==
    LET c == peerConnections[u][n] IN
    IF c = NoConn \/ ~isOfferer[u]
    THEN /\ AddPeer(u, n, "answer", d)
         /\ Post(u, ClosedBy(c))
    ELSE /\ peerConnections' =
                IF c.state = "closed" THEN peerConnections
                ELSE [peerConnections EXCEPT ![u][n].local = "answer",
                                             ![u][n].gathered = FALSE,
                                             ![u][n].remote = d]
         /\ UNCHANGED <<made, gui>>

\* The popup's Accept: acceptCall returns early without a stored description;
\* the popup closes and the window shows the call all the same.
ClickAccept(u) ==
    LET n == popup[u] IN
    /\ alive[u] /\ n # NoName
    /\ IF peerSdps[u][n] = NoSdp
       THEN UNCHANGED <<peerConnections, made, gui>>
       ELSE AttachOffer(u, n, peerSdps[u][n])
    /\ popup' = [popup EXCEPT ![u] = NoName]
    /\ Connected(u, n)
    /\ agreed' = [agreed EXCEPT ![u] = @ \cup {n}]
    /\ UNCHANGED <<serverVars, linkVars, alive, isOfferer, peerSdps, peerTrack, audioVars,
                   username, calls>>

\* Faulty variant: the caller is not told.
ClickRejectSilently(u) ==
    /\ alive[u] /\ popup[u] # NoName
    /\ popup' = [popup EXCEPT ![u] = NoName]
    /\ UNCHANGED <<serverVars, linkVars, alive, gui, pcVars, audioVars,
                   username, button, nameField, calls, agreed>>

\* The popup's Reject: rejectCall raises callRejected, sendReject runs at once.
ClickReject(u) ==
    LET n == popup[u] IN
    /\ alive[u] /\ n # NoName
    /\ Emit(u, "reject", n, NoSdp)
    /\ popup' = [popup EXCEPT ![u] = NoName]
    /\ UNCHANGED <<serverVars, link, linked, alive, gui, pcVars, audioVars,
                   username, button, nameField, calls, agreed>>

----------------------------------------------------------------------------
(* Slots that the GUI thread runs from its event queue. *)

NextEvent(u, op) ==
    /\ alive[u] /\ gui[u] # <<>>
    /\ Head(gui[u]).op = op

Consume(u) == gui' = [gui EXCEPT ![u] = Tail(@)]

\* Faulty variant: the user keeps the role it has.
OfferReceivedKeepsRole(u) ==
    LET e == Head(gui[u]) IN
    /\ NextEvent(u, "offerReceived") /\ Consume(u)
    /\ peerSdps' = [peerSdps EXCEPT ![u][e.peer] = e.body]
    /\ popup' = [popup EXCEPT ![u] = e.peer]
    /\ UNCHANGED <<serverVars, linkVars, alive, isOfferer, peerConnections, peerTrack, made,
                   audioVars, username, button, nameField, calls, agreed>>

OfferReceived(u) ==
    LET e == Head(gui[u]) IN
    /\ NextEvent(u, "offerReceived") /\ Consume(u)
    /\ peerSdps' = [peerSdps EXCEPT ![u][e.peer] = e.body]
    /\ isOfferer' = [isOfferer EXCEPT ![u] = FALSE]
    /\ popup' = [popup EXCEPT ![u] = e.peer]
    /\ UNCHANGED <<serverVars, linkVars, alive, peerConnections, peerTrack, made, audioVars,
                   username, button, nameField, calls, agreed>>

\* Whether the library takes a description typed as an answer: it throws
\* unless an offer of the connection is pending, it may throw when what the
\* description holds is an offer, and it ignores one for a closed connection.
\* addPeer, for a user without the offerer's role, leaves nothing pending.
\* Nothing catches the exception on its way out of the slot.
Pending(c) == c.local = "offer" /\ c.remote = NoSdp

MayTake(u, c) ==
    c # NoConn /\ isOfferer[u] /\ (c.state = "closed" \/ Pending(c))

MayThrow(u, c, d) ==
    (c # NoConn /\ isOfferer[u] /\ c.state # "closed") => (~Pending(c) \/ d.kind = "offer")

AnswerReceived(u) ==
    LET e == Head(gui[u])
        c == peerConnections[u][e.peer] IN
    /\ NextEvent(u, "answerReceived") /\ Consume(u)
    /\ peerSdps' = [peerSdps EXCEPT ![u][e.peer] = e.body]
    /\ \/ /\ MayThrow(u, c, e.body)
          /\ Terminate(u)
          /\ UNCHANGED <<peerConnections, button>>
       \/ /\ MayTake(u, c)
          /\ peerConnections' = IF c.state = "closed" THEN peerConnections
                                ELSE [peerConnections EXCEPT ![u][e.peer].remote = e.body]
          /\ button' = [button EXCEPT ![u] = "endCall"]
          /\ UNCHANGED alive
    /\ UNCHANGED <<serverVars, linkVars, isOfferer, peerTrack, made, audioVars,
                   username, nameField, popup, calls, agreed>>

\* rejectReceived goes straight from the SignalManager to the window.
RejectReceived(u) ==
    /\ NextEvent(u, "rejectReceived") /\ Consume(u)
    /\ Reset(u)
    /\ UNCHANGED <<serverVars, linkVars, alive, pcVars, audioVars, username, popup, calls, agreed>>

SendDescription(u, op, kind) ==
    /\ NextEvent(u, op) /\ Consume(u)
    /\ Emit(u, kind, Head(gui[u]).peer, Head(gui[u]).body)
    /\ UNCHANGED <<serverVars, link, linked, alive, pcVars, audioVars, uiVars>>

SendOffer(u) == SendDescription(u, "offerIsReady", "offer")
SendAnswer(u) == SendDescription(u, "answerIsReady", "answer")

ConnectionReady(u) ==
    /\ NextEvent(u, "connectionReady") /\ Consume(u)
    /\ IF isOfferer[u]
       THEN mic' = [mic EXCEPT ![u] = TRUE] /\ UNCHANGED speaker
       ELSE speaker' = [speaker EXCEPT ![u] = TRUE] /\ UNCHANGED mic
    /\ UNCHANGED <<serverVars, linkVars, alive, pcVars, uiVars>>

\* Faulty variants: the speaker is not stopped; the window is not told.
EndConnectionPlaysOn(u) ==
    /\ NextEvent(u, "endConnection") /\ Consume(u)
    /\ peerSdps' = [peerSdps EXCEPT ![u] = [n \in Keys |-> NoSdp]]
    /\ mic' = [mic EXCEPT ![u] = FALSE]
    /\ Reset(u)
    /\ UNCHANGED <<serverVars, linkVars, alive, isOfferer, peerConnections, peerTrack, made,
                   speaker, username, popup, calls, agreed>>

EndConnectionUnseen(u) ==
    /\ NextEvent(u, "endConnection") /\ Consume(u)
    /\ peerSdps' = [peerSdps EXCEPT ![u] = [n \in Keys |-> NoSdp]]
    /\ mic' = [mic EXCEPT ![u] = FALSE]
    /\ speaker' = [speaker EXCEPT ![u] = FALSE]
    /\ UNCHANGED <<serverVars, linkVars, alive, isOfferer, peerConnections, peerTrack, made, uiVars>>

EndConnection(u) ==
    /\ NextEvent(u, "endConnection") /\ Consume(u)
    /\ peerSdps' = [peerSdps EXCEPT ![u] = [n \in Keys |-> NoSdp]]
    /\ mic' = [mic EXCEPT ![u] = FALSE]
    /\ speaker' = [speaker EXCEPT ![u] = FALSE]
    /\ Reset(u)
    /\ UNCHANGED <<serverVars, linkVars, alive, isOfferer, peerConnections, peerTrack, made,
                   username, popup, calls, agreed>>

----------------------------------------------------------------------------
(* libdatachannel, on its own threads. *)

\* Faulty variant: every change of the gathering state sends the description
\* once more.
GatherDoneAgain(u, n) ==
    LET c == peerConnections[u][n] IN
    /\ alive[u] /\ IsOpen(c) /\ c.local # "none"
    /\ Post(u, Queued(IF isOfferer[u] THEN "offerIsReady" ELSE "answerIsReady", n,
                      [pc |-> <<u, c.id>>, kind |-> c.local]))
    /\ UNCHANGED <<serverVars, linkVars, alive, pcVars, audioVars, uiVars>>

\* onGatheringStateChange(Complete): whether the description goes out as an
\* offer or as an answer is the role the user has by now.
GatherDone(u, n) ==
    LET c == peerConnections[u][n] IN
    /\ alive[u] /\ IsOpen(c)
    /\ c.local # "none" /\ ~c.gathered
    /\ peerConnections' = [peerConnections EXCEPT ![u][n].gathered = TRUE]
    /\ Post(u, Queued(IF isOfferer[u] THEN "offerIsReady" ELSE "answerIsReady", n,
                      [pc |-> <<u, c.id>>, kind |-> c.local]))
    /\ UNCHANGED <<serverVars, linkVars, alive, isOfferer, peerSdps, peerTrack, made,
                   audioVars, uiVars>>

\* onTrack: the answerer's peer connection announces the offered track.
TrackReceived(u, n) ==
    LET c == peerConnections[u][n] IN
    /\ alive[u] /\ IsOpen(c)
    /\ c.remote # NoSdp /\ ~c.tracked
    /\ peerConnections' = [peerConnections EXCEPT ![u][n].tracked = TRUE]
    /\ peerTrack' = [peerTrack EXCEPT ![u] = c.id]
    /\ UNCHANGED <<serverVars, linkVars, alive, gui, isOfferer, peerSdps, made,
                   audioVars, uiVars>>

\* onStateChange(Connected): two peer connections that were given each
\* other's descriptions find each other.
PcConnected(u, n) ==
    LET c == peerConnections[u][n] IN
    /\ alive[u] /\ c # NoConn /\ c.state = "new"
    /\ \E v \in Users, m \in Keys :
          /\ alive[v] /\ peerConnections[v][m] # NoConn
          /\ peerConnections[v][m].state \in {"new", "connected"}
          /\ Matched(u, c, v, peerConnections[v][m])
    /\ peerConnections' = [peerConnections EXCEPT ![u][n].state = "connected"]
    /\ Post(u, Queued("connectionReady", Blank, NoSdp))
    /\ UNCHANGED <<serverVars, linkVars, alive, isOfferer, peerSdps, peerTrack, made,
                   audioVars, uiVars>>

\* onStateChange(Closed): the other side closed or destroyed its end.
PcClosed(u, n) ==
    LET c == peerConnections[u][n] IN
    /\ alive[u] /\ c # NoConn /\ c.state = "connected"
    /\ alive[c.remote.pc[1]] /\ Gone(c.remote.pc)
    /\ peerConnections' = [peerConnections EXCEPT ![u][n].state = "closed"]
    /\ Post(u, Queued("endConnection", Blank, NoSdp))
    /\ UNCHANGED <<serverVars, linkVars, alive, isOfferer, peerSdps, peerTrack, made,
                   audioVars, uiVars>>

\* onStateChange(Failed), which the callback does not look at.
PcFailed(u, n) ==
    LET c == peerConnections[u][n] IN
    /\ alive[u] /\ c # NoConn /\ c.state \in {"new", "connected"} /\ c.remote # NoSdp
    /\ \/ MayFail \/ ~alive[c.remote.pc[1]]
       \/ c.state = "new" /\ Gone(c.remote.pc)
    /\ peerConnections' = [peerConnections EXCEPT ![u][n].state = "failed"]
    /\ UNCHANGED <<serverVars, linkVars, alive, gui, isOfferer, peerSdps, peerTrack, made,
                   audioVars, uiVars>>

----------------------------------------------------------------------------
(* The socket.io thread and the way to the server and back. *)

clientVars == <<alive, pcVars, audioVars, uiVars>>

\* The client connects, or connects again; only registerName registers.
LinkUp(u) ==
    /\ alive[u] /\ username[u] # NoName
    /\ ~linked[u] /\ link[u] < MaxLinks
    /\ link' = [link EXCEPT ![u] = @ + 1]
    /\ linked' = [linked EXCEPT ![u] = TRUE]
    /\ Server!Connect(<<u, link[u] + 1>>)
    /\ UNCHANGED <<up, gui, clientVars>>

\* The connection breaks: what was queued or on its way is lost.
LinkLost(u) ==
    /\ alive[u] /\ linked[u] /\ link[u] < MaxLinks
    /\ linked' = [linked EXCEPT ![u] = FALSE]
    /\ up' = [up EXCEPT ![u] = <<>>]
    /\ UNCHANGED <<serverVars, link, gui, clientVars>>

\* The server learns of it, perhaps after the client is back.
ServerDisconnects(u, k) ==
    /\ k < link[u] \/ ~linked[u] \/ ~alive[u]
    /\ Server!Disconnect(<<u, k>>)
    /\ UNCHANGED <<linkVars, gui, clientVars>>

ServerHandles(u) ==
    LET m == Head(up[u]) IN
    /\ linked[u] /\ up[u] # <<>>
    /\ up' = [up EXCEPT ![u] = Tail(@)]
    /\ IF m.kind = "register"
       THEN Server!Register(Socket(u), m.to)
       ELSE Server!Relay(Socket(u), m.kind, m.to, m.body)
    /\ UNCHANGED <<link, linked, gui, clientVars>>

SlotOf == [offer |-> "offerReceived", answer |-> "answerReceived", reject |-> "rejectReceived"]

\* The handler of the message raises a signal of the SignalManager.  A
\* message of a sender without a name has no "from": the handler follows a
\* null pointer.
ClientHandles(u) ==
    /\ alive[u] /\ linked[u]
    /\ Server!Deliver(Socket(u))
    /\ LET m == Head(inbox[Socket(u)]) IN
       IF m.from = NoName
       THEN Terminate(u) /\ UNCHANGED gui
       ELSE Post(u, Queued(SlotOf[m.kind], m.from, m.body)) /\ UNCHANGED alive
    /\ UNCHANGED <<linkVars, pcVars, audioVars, uiVars>>

----------------------------------------------------------------------------
Init ==
    /\ Server!ServerInit
    /\ link = [u \in Users |-> 0]
    /\ linked = [u \in Users |-> FALSE]
    /\ up = [u \in Users |-> <<>>]
    /\ alive = [u \in Users |-> TRUE]
    /\ gui = [u \in Users |-> <<>>]
    /\ isOfferer = [u \in Users |-> FALSE]
    /\ peerSdps = [u \in Users |-> [n \in Keys |-> NoSdp]]
    /\ peerConnections = [u \in Users |-> [n \in Keys |-> NoConn]]
    /\ peerTrack = [u \in Users |-> 0]
    /\ made = [u \in Users |-> 0]
    /\ mic = [u \in Users |-> FALSE]
    /\ speaker = [u \in Users |-> FALSE]
    /\ username = [u \in Users |-> NoName]
    /\ button = [u \in Users |-> "call"]
    /\ nameField = [u \in Users |-> Blank]
    /\ popup = [u \in Users |-> NoName]
    /\ calls = [u \in Users |-> 0]
    /\ agreed = [u \in Users |-> {}]

Click(u) ==
    \/ \E n \in Names : <<u, n>> \in Takes /\ ClickSubmit(u, n)
    \/ \E n \in Keys : <<u, n>> \in Dials /\ ClickCall(u, n)
    \/ ClickEnd(u)
    \/ ClickAccept(u)
    \/ ClickReject(u)

Slot(u) ==
    \/ OfferReceived(u)
    \/ AnswerReceived(u)
    \/ RejectReceived(u)
    \/ SendOffer(u)
    \/ SendAnswer(u)
    \/ ConnectionReady(u)
    \/ EndConnection(u)

Media(u, n) ==
    \/ GatherDone(u, n)
    \/ TrackReceived(u, n)
    \/ PcConnected(u, n)
    \/ PcClosed(u, n)
    \/ PcFailed(u, n)

Network(u) ==
    \/ LinkUp(u)
    \/ LinkLost(u)
    \/ \E k \in Links : ServerDisconnects(u, k)
    \/ ServerHandles(u)
    \/ ClientHandles(u)

Next ==
    \E u \in Users :
        \/ Click(u)
        \/ Slot(u)
        \/ \E n \in Keys : Media(u, n)
        \/ Network(u)

Spec == Init /\ [][Next]_vars

\* The event loop of the GUI, the threads of the libraries and the server's
\* event loop go on running; a user answers a ringing call; the end of a peer
\* connection is noticed by the other end.  Nobody has to call or hang up.
Fairness ==
    \A u \in Users :
        /\ WF_vars(Slot(u))
        /\ WF_vars(ClickAccept(u) \/ ClickReject(u))
        /\ WF_vars(ServerHandles(u))
        /\ WF_vars(ClientHandles(u))
        /\ \A n \in Keys : WF_vars(GatherDone(u, n)) /\ WF_vars(PcClosed(u, n))

FairSpec == Spec /\ Fairness

----------------------------------------------------------------------------
(* Properties. *)

CallTypeOK ==
    /\ Server!ServerTypeOK
    /\ link \in [Users -> 0..MaxLinks]
    /\ linked \in [Users -> BOOLEAN]
    /\ up \in [Users -> Seq(Request)]
    /\ alive \in [Users -> BOOLEAN]
    /\ gui \in [Users -> Seq(Event)]
    /\ isOfferer \in [Users -> BOOLEAN]
    /\ peerSdps \in [Users -> [Keys -> Body]]
    /\ peerConnections \in [Users -> [Keys -> Conn \cup {NoConn}]]
    /\ peerTrack \in [Users -> 0..MaxMade]
    /\ made \in [Users -> 0..MaxMade]
    /\ mic \in [Users -> BOOLEAN]
    /\ speaker \in [Users -> BOOLEAN]
    /\ username \in [Users -> Names \cup {NoName}]
    /\ button \in [Users -> {"call", "connecting", "endCall"}]
    /\ nameField \in [Users -> Keys]
    /\ popup \in [Users -> Names \cup {NoName}]
    /\ calls \in [Users -> 0..MaxCalls]
    /\ agreed \in [Users -> SUBSET Keys]

\* u, under the name n, and v, under the name m, hear each other.
Talking(u, n, v, m) ==
    LET c == peerConnections[u][n]
        d == peerConnections[v][m] IN
    /\ alive[u] /\ c # NoConn /\ c.state = "connected"
    /\ alive[v] /\ d # NoConn /\ d.state = "connected"
    /\ Matched(u, c, v, d)

\* Two users hear each other only while each has called or accepted the
\* other, under the very name the other registered, and has not hung up
\* since: no order of offers, answers, lost links, stale callbacks and
\* replaced peer connections gets past the popup's "Accept".
Consent ==
    \A u, v \in Users : \A n, m \in Keys :
        Talking(u, n, v, m) =>
            /\ n \in agreed[u] /\ m \in agreed[v]
            /\ n = username[v] /\ m = username[u]

\* When a user rejects a call, no call with that caller is on: a caller that
\* asks again has let go of its end of the call before.
RejectLeavesNoCall ==
    [][\A u, v \in Users : \A m \in Keys :
          ClickReject(u) => ~Talking(u, popup[u], v, m)]_vars

\* The microphone is never opened again before it has been closed, although
\* the callbacks that open and close it come from different peer connections:
\* AudioInput::open makes a source each time and close stops only the newest.
OpenedOnce ==
    [][\A u \in Users : (ConnectionReady(u) /\ isOfferer[u]) => ~mic[u]]_vars

\* While the popup asks, the user is an answerer: accepting always makes a
\* new peer connection and never feeds the description to one that exists.
PopupMeansAnswerer ==
    \A u \in Users : popup[u] # NoName => ~isOfferer[u]

\* What the user says is sent: the microphone is open, dataReady finds the
\* offerer's role and m_peerTrack belongs to an open peer connection.
Sending(u) ==
    /\ alive[u] /\ mic[u] /\ isOfferer[u]
    /\ \E n \in Keys :
          /\ peerConnections[u][n] # NoConn
          /\ peerConnections[u][n].id = peerTrack[u]
          /\ peerConnections[u][n].state = "connected"

\* No null pointer is followed and no exception leaves a slot.
NobodyCrashes == \A u \in Users : alive[u]

\* The next message for u is of a sender without a name.
NamelessMessage(u) ==
    linked[u] /\ inbox[Socket(u)] # <<>> /\ Head(inbox[Socket(u)]).from = NoName

\* The window of a caller shows a later call, and the end of an earlier one
\* has blanked the name to hang up on.
HangsUpNothing(u) ==
    button[u] = "endCall" /\ calls[u] > 1 /\ peerConnections[u][nameField[u]] = NoConn

\* Where calls do not cross and nobody makes more than two, a client follows a
\* null pointer or lets an exception out of a slot in these two ways alone,
\* whatever is rejected, dialled again, lost with a connection or late: an
\* answer neither comes without its offer nor twice, one to an earlier offer is
\* never set beside the right one, and a first call is hung up on in peace.
DiesInTwoWays ==
    [][\A u \in Users :
          (alive[u] /\ ~alive'[u]) => NamelessMessage(u) \/ HangsUpNothing(u)]_vars

\* A window that shows a call has the peer connection to hang up on, and the
\* description of the other side is attached to it.
InCallHasPeer ==
    \A u \in Users :
        (alive[u] /\ button[u] = "endCall") =>
            LET c == peerConnections[u][nameField[u]] IN c # NoConn /\ c.remote # NoSdp

\* Offers travel as offers and answers as answers, as the report says,
\* whatever happened to the role while the description was being gathered.
SentAsGenerated ==
    \A u \in Users : \A i \in 1..Len(up[u]) :
        up[u][i].kind \in {"offer", "answer"} => up[u][i].kind = up[u][i].body.kind

\* A window that shows no call, with nothing left in its event queue, sends
\* no sound and plays none.
IdleIsSilent ==
    \A u \in Users :
        (button[u] = "call" /\ gui[u] = <<>>) => ~Sending(u) /\ ~speaker[u]

\* The window leaves the call it shows only when the peer connection of that
\* call is closed, by this user or by the other.
CallEndsWithItsPeer ==
    [][\A u \in Users :
          (button[u] = "endCall" /\ button'[u] # "endCall") =>
              LET c == peerConnections'[u][nameField[u]] IN
              c # NoConn /\ c.state = "closed"]_vars

\* A user who accepts a call has a fresh peer connection for the caller with
\* the caller's description attached.
AcceptAttachesOffer ==
    [][\A u \in Users :
          ClickAccept(u) =>
              LET c == peerConnections'[u][popup[u]] IN
              c # NoConn /\ c.state = "new" /\ c.remote # NoSdp]_vars

\* Whoever is connected to the server and has no registration under way has
\* a name there.
ConnectedPeersAreNamed ==
    \A u \in Users :
        (alive[u] /\ linked[u] /\ \A i \in 1..Len(up[u]) : up[u][i].kind # "register") =>
            peerNames[Socket(u)] # NoName

\* What the clients do to the server is what SignalingServer expects of its
\* clients: each connection registers at most once (connectToSignalingServer
\* emits "register" one time, and a new connection is a new socket), and only
\* clients that are connected are heard, whatever is lost on the way.
ServerOfCalls == Server!ServerSpec

\* The offer of u has reached the connection of a running client.
OfferArrived(u) ==
    \E v \in Users :
        /\ alive[v] /\ linked[v]
        /\ \E i \in 1..Len(inbox[Socket(v)]) :
              LET m == inbox[Socket(v)][i] IN m.kind = "offer" /\ m.body.pc[1] = u

\* When one side closes its end of a call, the other side's window leaves the
\* call and its microphone and speaker are released, unless that side's own
\* path fails: nothing looks at the state Failed (addPeer).
HangupHeard ==
    \A u \in Users : \A n \in Keys :
        LET c == peerConnections[u][n] IN
        (alive[u] /\ c # NoConn /\ c.state = "connected" /\ Gone(c.remote.pc))
            ~> \/ button[u] # "endCall" /\ ~mic[u] /\ ~speaker[u]
               \/ c # NoConn /\ c.state = "failed"

\* v accepted a call and hung up before its answer was complete.
LeftBeforeAnswering(v) ==
    \E n \in Keys :
        LET c == peerConnections[v][n] IN
        c # NoConn /\ c.local = "answer" /\ c.state = "closed" /\ ~c.gathered

\* A caller whose offer has arrived does not stay at "Connecting...", where
\* the button is disabled: an answer or a reject comes back through the popup,
\* two event queues, a gathering callback and the server.  A caller is
\* forgotten in one way when a single call is made: the callee accepts and
\* hangs up before the gathering is done.
CallerHearsBackUnlessLeft ==
    \A u \in Users :
        (button[u] = "connecting" /\ OfferArrived(u))
            ~> (button[u] # "connecting" \/ \E v \in Users : LeftBeforeAnswering(v))

=============================================================================
