-------------------------- MODULE VoiceOrderProofs --------------------------
(***************************************************************************)
(* What the clients do to the server, and the order in which descriptions  *)
(* arrive, for any number of users, names, calls and reconnections.        *)
(*                                                                         *)
(* The descriptions that v generates for the name n pass through four      *)
(* queues: the event queue of v, what v has emitted, the connection of the *)
(* user u who goes by n, and the event queue of u.  They stay in the order *)
(* of the peer connections they belong to; no description overtakes        *)
(* another, arrives twice or outlives the one that replaced it.            *)
(***************************************************************************)
EXTENDS VoiceCallProofs

\* Nobody else may take the name of a user.
NamesDistinct ==
    \A u, v \in Users : \A n \in Names :
        <<u, n>> \in Takes /\ <<v, n>> \in Takes => u = v

----------------------------------------------------------------------------
(* The server and its clients. *)

\* Nothing has happened on connections that are still to be made.
IsNew(s) == status[s] = "new" /\ peerNames[s] = NoName /\ inbox[s] = <<>>
FreshLinks == \A u \in Users : \A k \in Links : k > link[u] => IsNew(<<u, k>>)

\* A user without a name has done nothing.
Unnamed ==
    \A u \in Users : username[u] = NoName =>
        /\ link[u] = 0 /\ up[u] = <<>> /\ gui[u] = <<>> /\ popup[u] = NoName
        /\ \A n \in Keys : peerSdps[u][n] = NoSdp /\ peerConnections[u][n] = NoConn

\* "register" is the first thing a client emits, and its connection is not
\* registered before it.
RegistersFirst ==
    \A u \in Users : \A i \in 1..Len(up[u]) :
        up[u][i].kind = "register" =>
            /\ i = 1
            /\ \A k \in Links : k >= link[u] => peerNames[<<u, k>>] = NoName

\* Names are taken as Takes allows.
NamesTaken == \A u \in Users : username[u] # NoName => <<u, username[u]>> \in Takes

ClientInv == FreshLinks /\ Unnamed /\ RegistersFirst /\ NamesTaken

----------------------------------------------------------------------------
(* Descriptions under way. *)

InboxOf(u) == IF link[u] = 0 THEN <<>> ELSE inbox[Socket(u)]

\* The four queues from v to u, the one nearest to u first, and what counts
\* in each of them when u goes by n.
Queues(v, u) == <<gui[u], InboxOf(u), up[v], gui[v]>>

Heard(v) == {e \in Event : /\ e.op \in {"offerReceived", "answerReceived"}
                           /\ e.body # NoSdp /\ e.body.pc[1] = v}
Forwarded(v) == {m \in Server!Forward : /\ m.kind \in Described /\ m.from # NoName
                                        /\ m.body # NoSdp /\ m.body.pc[1] = v}
Requested(n) == {m \in Request : m.kind \in Described /\ m.body # NoSdp /\ m.to = n}
Ready(n) == {e \in Event : /\ e.op \in {"offerIsReady", "answerIsReady"}
                           /\ e.body # NoSdp /\ e.peer = n}

Items(v, n) == <<Heard(v), Forwarded(v), Requested(n), Ready(n)>>

\* The peer connection a description belongs to, by its number.
Number(m) == m.body.pc[2]

Precedes(s, i, t, j) == s < t \/ (s = t /\ i < j)

\* In the queues q the members of I stand in the order of their numbers.
Ordered(q, I) ==
    \A s, t \in 1..4 : \A i \in 1..Len(q[s]), j \in 1..Len(q[t]) :
        Precedes(s, i, t, j) /\ q[s][i] \in I[s] /\ q[t][j] \in I[t]
            => Number(q[s][i]) < Number(q[t][j])

\* The description number k is under way.
UnderWay(q, I, k) ==
    \E s \in 1..4 : \E i \in 1..Len(q[s]) : q[s][i] \in I[s] /\ Number(q[s][i]) = k

\* u has stored the description number k of v, or attached it.
Knows(u, v, k) ==
    \E n \in Keys :
        LET d == peerSdps[u][n]
            c == peerConnections[u][n] IN
        \/ d # NoSdp /\ d.pc = <<v, k>>
        \/ c # NoConn /\ c.remote # NoSdp /\ c.remote.pc = <<v, k>>

\* The description number k of v for n is of the peer connection v has now,
\* and has been gathered, or of one that it has replaced.
MadeBy(v, n, k) ==
    LET c == peerConnections[v][n] IN
    c # NoConn /\ k <= c.id /\ (k = c.id => c.gathered)

\* The descriptions of v for n reach u, who goes by n or has no name yet, in
\* the order in which their peer connections were made, each at most once.
Orderly(v, u, n) ==
    /\ Ordered(Queues(v, u), Items(v, n))
    /\ \A k \in 1..MaxMade :
          /\ UnderWay(Queues(v, u), Items(v, n), k) =>
                MadeBy(v, n, k) /\ \A j \in 1..MaxMade : Knows(u, v, j) => j < k
          /\ Knows(u, v, k) => MadeBy(v, n, k)

InOrder ==
    \A v, u \in Users : \A n \in Keys : username[u] \in {n, NoName} => Orderly(v, u, n)

\* The newest peer connection has the highest number.
Numbered ==
    \A u \in Users : \A n \in Keys :
        peerConnections[u][n] # NoConn => peerConnections[u][n].id <= made[u]

\* When the popup asks, the caller has made another peer connection since the
\* one that the callee's is attached to.
PopupIsNewer ==
    \A u \in Users : popup[u] # NoName =>
        LET c == peerConnections[u][popup[u]] IN
        c # NoConn /\ c.remote # NoSdp =>
            LET d == peerConnections[c.remote.pc[1]][username[u]] IN
            d # NoConn /\ c.remote.pc[2] < d.id

----------------------------------------------------------------------------
(* Steps of one user. *)

Acts(u) ==
    \/ Click(u)
    \/ Slot(u)
    \/ \E n \in Keys : Media(u, n)
    \/ Network(u)

\* What belongs to w stays.
Untouched(w) ==
    /\ link'[w] = link[w] /\ linked'[w] = linked[w] /\ up'[w] = up[w]
    /\ alive'[w] = alive[w] /\ gui'[w] = gui[w]
    /\ isOfferer'[w] = isOfferer[w] /\ peerSdps'[w] = peerSdps[w]
    /\ peerConnections'[w] = peerConnections[w]
    /\ peerTrack'[w] = peerTrack[w] /\ made'[w] = made[w]
    /\ mic'[w] = mic[w] /\ speaker'[w] = speaker[w]
    /\ username'[w] = username[w] /\ button'[w] = button[w]
    /\ nameField'[w] = nameField[w] /\ popup'[w] = popup[w]
    /\ calls'[w] = calls[w] /\ agreed'[w] = agreed[w]

LEMMA OthersUntouched ==
    ASSUME CallTypeOK, NEW u \in Users, Acts(u), NEW w \in Users, w # u
    PROVE  Untouched(w)
<1> USE DEF Untouched, CallTypeOK, linkVars, pcVars, audioVars, uiVars, clientVars
<1>1. ASSUME NEW n \in Names, ClickSubmit(u, n) PROVE Untouched(w)
  BY <1>1 DEF ClickSubmit, AddPeer, Emit
<1>2. ASSUME NEW n \in Keys, ClickCall(u, n) PROVE Untouched(w)
  BY <1>2 DEF ClickCall, AddPeer, Post
<1>3. CASE ClickEnd(u)
  BY <1>3 DEF ClickEnd, Post, Reset, Terminate
<1>4. CASE ClickAccept(u)
  BY <1>4 DEF ClickAccept, AttachOffer, AddPeer, Post, Connected
<1>5. CASE ClickReject(u)
  BY <1>5 DEF ClickReject, Emit
<1>6. CASE OfferReceived(u) \/ AnswerReceived(u) \/ RejectReceived(u)
  BY <1>6 DEF OfferReceived, AnswerReceived, RejectReceived, Consume, Reset, Terminate
<1>7. CASE SendOffer(u) \/ SendAnswer(u)
  BY <1>7 DEF SendOffer, SendAnswer, SendDescription, Consume, Emit
<1>8. CASE ConnectionReady(u) \/ EndConnection(u)
  BY <1>8 DEF ConnectionReady, EndConnection, Consume, Reset
<1>9. ASSUME NEW n \in Keys, Media(u, n) PROVE Untouched(w)
  BY <1>9 DEF Media, GatherDone, TrackReceived, PcConnected, PcClosed, PcFailed, Post
<1>10. CASE Network(u)
  BY <1>10 DEF Network, LinkUp, LinkLost, ServerDisconnects, ServerHandles, ClientHandles, Post,
               Terminate
<1> QED
  BY <1>1, <1>2, <1>3, <1>4, <1>5, <1>6, <1>7, <1>8, <1>9, <1>10 DEF Acts, Click, Slot

\* Only what goes over the network changes the server or the links.
LEMMA OffTheNetwork ==
    ASSUME NEW u \in Users, Click(u) \/ Slot(u) \/ \E n \in Keys : Media(u, n)
    PROVE  UNCHANGED <<serverVars, link, linked>>
<1> USE DEF linkVars
<1>1. CASE Click(u)
  BY <1>1 DEF Click, ClickSubmit, ClickCall, ClickEnd, ClickAccept, ClickReject
<1>2. CASE Slot(u)
  BY <1>2 DEF Slot, OfferReceived, AnswerReceived, RejectReceived, SendOffer, SendAnswer,
              SendDescription, ConnectionReady, EndConnection
<1>3. ASSUME NEW n \in Keys, Media(u, n) PROVE UNCHANGED <<serverVars, link, linked>>
  BY <1>3 DEF Media, GatherDone, TrackReceived, PcConnected, PcClosed, PcFailed
<1> QED
  BY <1>1, <1>2, <1>3

\* Names change only when the registration popup is answered.
LEMMA NamedOnce ==
    ASSUME NEW u \in Users, Acts(u)
    PROVE  \/ UNCHANGED username
           \/ \E n \in Names : <<u, n>> \in Takes /\ ClickSubmit(u, n)
<1> USE DEF uiVars, clientVars
<1>1. CASE Click(u)
  BY <1>1 DEF Click, ClickCall, ClickEnd, ClickAccept, ClickReject
<1>2. CASE Slot(u)
  BY <1>2 DEF Slot, OfferReceived, AnswerReceived, RejectReceived, SendOffer, SendAnswer,
              SendDescription, ConnectionReady, EndConnection
<1>3. ASSUME NEW n \in Keys, Media(u, n) PROVE UNCHANGED username
  BY <1>3 DEF Media, GatherDone, TrackReceived, PcConnected, PcClosed, PcFailed
<1>4. CASE Network(u)
  BY <1>4 DEF Network, LinkUp, LinkLost, ServerDisconnects, ServerHandles, ClientHandles
<1> QED
  BY <1>1, <1>2, <1>3, <1>4 DEF Acts

\* A user without a name can do nothing but take one.
LEMMA UnnamedSubmits ==
    ASSUME IInv, ClientInv, NEW u \in Users, Acts(u), username[u] = NoName
    PROVE  \E n \in Names : <<u, n>> \in Takes /\ ClickSubmit(u, n)
<1>1. /\ link[u] = 0 /\ ~linked[u] /\ up[u] = <<>> /\ gui[u] = <<>> /\ popup[u] = NoName
      /\ \A n \in Keys : peerConnections[u][n] = NoConn
  BY DEF ClientInv, Unnamed, IInv, LinkedByLink, Links
<1>2. \A k \in Links : status[<<u, k>>] = "new"
  BY <1>1 DEF ClientInv, FreshLinks, IsNew, Links
<1>3. ~Slot(u)
  BY <1>1 DEF Slot, OfferReceived, AnswerReceived, RejectReceived, SendOffer, SendAnswer,
              SendDescription, ConnectionReady, EndConnection, NextEvent
<1>4. ASSUME NEW n \in Keys PROVE ~Media(u, n)
  BY <1>1 DEF Media, GatherDone, TrackReceived, PcConnected, PcClosed, PcFailed, IsOpen
<1>5. ~Network(u)
  BY <1>1, <1>2 DEF Network, LinkUp, LinkLost, ServerDisconnects, ServerHandles, ClientHandles,
                    Server!Disconnect
<1> QED
  BY <1>1, <1>3, <1>4, <1>5 DEF Acts, Click, ClickCall, ClickEnd, ClickAccept, ClickReject, MayClick

LEMMA NamesTakenKept ==
    ASSUME IInv, ClientInv, NEW u \in Users, Acts(u)
    PROVE  NamesTaken'
<1>1. CASE UNCHANGED username
  BY <1>1 DEF ClientInv, NamesTaken
<1>2. ASSUME NEW n \in Names, <<u, n>> \in Takes, ClickSubmit(u, n)
      PROVE  NamesTaken'
  BY <1>2 DEF ClickSubmit, ClientInv, NamesTaken, IInv, CallTypeOK
<1> QED
  BY <1>1, <1>2, NamedOnce

LEMMA UnnamedKept ==
    ASSUME IInv, ClientInv, NEW u \in Users, Acts(u)
    PROVE  Unnamed'
<1> SUFFICES ASSUME NEW w \in Users, username'[w] = NoName
             PROVE  /\ link'[w] = 0 /\ up'[w] = <<>> /\ gui'[w] = <<>> /\ popup'[w] = NoName
                    /\ \A n \in Keys : peerSdps'[w][n] = NoSdp /\ peerConnections'[w][n] = NoConn
  BY DEF Unnamed
<1>1. CASE w = u
  <2>1. PICK n \in Names : ClickSubmit(u, n)
    <3>1. username[u] = NoName
      <4>1. CASE UNCHANGED username
        BY <1>1, <4>1
      <4>2. ASSUME NEW n \in Names, ClickSubmit(u, n) PROVE username[u] = NoName
        BY <4>2 DEF ClickSubmit
      <4> QED
        BY <4>1, <4>2, NamedOnce
    <3> QED
      BY <3>1, UnnamedSubmits
  <2>2. username'[u] = n /\ n # NoName
    BY <2>1, CallAssumption DEF ClickSubmit, IInv, CallTypeOK, Keys
  <2> QED
    BY <1>1, <2>2
<1>2. CASE w # u
  <2>1. Untouched(w)
    BY <1>2, OthersUntouched DEF IInv
  <2> QED
    BY <2>1 DEF Untouched, ClientInv, Unnamed
<1> QED
  BY <1>1, <1>2

\* What happens on other connections leaves a new one new.
LEMMA StaysNew ==
    ASSUME Server!ServerTypeOK, NEW s \in Sockets, IsNew(s), NEW t \in Sockets,
           \/ Server!Connect(t) /\ t # s
           \/ \E n \in Names : Server!Register(t, n)
           \/ \E kind, n, body : Server!Relay(t, kind, n, body)
           \/ Server!Disconnect(t)
           \/ Server!Deliver(t)
    PROVE  IsNew(s)'
<1> USE DEF IsNew, Server!ServerTypeOK
<1>1. CASE Server!Connect(t) /\ t # s
  BY <1>1 DEF Server!Connect
<1>2. ASSUME NEW n \in Names, Server!Register(t, n) PROVE IsNew(s)'
  BY <1>2 DEF Server!Register
<1>3. ASSUME NEW kind, NEW n, NEW body, Server!Relay(t, kind, n, body) PROVE IsNew(s)'
  BY <1>3 DEF Server!Relay, Server!Delivered
<1>4. CASE Server!Disconnect(t)
  BY <1>4 DEF Server!Disconnect
<1>5. CASE Server!Deliver(t)
  BY <1>5 DEF Server!Deliver
<1> QED
  BY <1>1, <1>2, <1>3, <1>4, <1>5

\* The step of a client over the network as a step of the server.
LEMMA ServerStep ==
    ASSUME IInv, NEW u \in Users, Network(u)
    PROVE  \/ UNCHANGED serverVars /\ UNCHANGED link
           \/ Server!Connect(<<u, link[u] + 1>>) /\ LinkUp(u) /\ link[u] + 1 \in Links
           \/ /\ UNCHANGED link
              /\ \E t \in Sockets :
                    \/ Server!Disconnect(t)
                    \/ Server!Deliver(t)
                    \/ \E n \in Names : Server!Register(t, n)
                    \/ \E kind, n, body : Server!Relay(t, kind, n, body)
<1>1. CASE LinkUp(u)
  <2>1. link[u] \in 0..MaxLinks /\ link[u] < MaxLinks /\ MaxLinks \in Nat
    BY <1>1, CallAssumption DEF LinkUp, IInv, CallTypeOK
  <2> QED
    BY <1>1, <2>1 DEF LinkUp, Links
<1>2. CASE LinkLost(u)
  BY <1>2 DEF LinkLost
<1>3. ASSUME NEW k \in Links, ServerDisconnects(u, k)
      PROVE  UNCHANGED link /\ <<u, k>> \in Sockets /\ Server!Disconnect(<<u, k>>)
  BY <1>3 DEF ServerDisconnects, linkVars, Sockets
<1>4. ASSUME linked[u] PROVE Socket(u) \in Sockets
  BY <1>4 DEF Socket, Sockets, IInv, LinkedByLink
<1>5. CASE ServerHandles(u)
  <2> DEFINE m == Head(up[u])
  <2>1. m \in Request /\ GoodRequest(u, username[u], m)
    <3>1. up[u] \in Seq(Request) /\ up[u] # <<>>
      BY <1>5 DEF ServerHandles, IInv, CallTypeOK
    <3>2. m \in Request /\ 1 \in 1..Len(up[u]) /\ m = up[u][1]
      BY <3>1, TailElements, Zenon
    <3> QED
      BY <3>2 DEF IInv, Requests
  <2>2. m.kind = "register" => m.to \in Names
    BY <2>1, CallAssumption DEF GoodRequest, Request, IInv, CallTypeOK, Keys
  <2>3. Socket(u) \in Sockets /\ UNCHANGED link
    BY <1>4, <1>5 DEF ServerHandles
  <2> QED
    BY <1>5, <2>2, <2>3 DEF ServerHandles
<1>6. CASE ClientHandles(u)
  BY <1>4, <1>6 DEF ClientHandles, linkVars
<1> QED
  BY <1>1, <1>2, <1>3, <1>5, <1>6 DEF Network

LEMMA FreshLinksKept ==
    ASSUME IInv, ClientInv, NEW u \in Users, Acts(u)
    PROVE  FreshLinks'
<1> SUFFICES ASSUME NEW w \in Users, NEW k \in Links, k > link'[w]
             PROVE  IsNew(<<w, k>>)'
  BY DEF FreshLinks, IsNew
<1> DEFINE s == <<w, k>>
<1>1. k \in Nat /\ link[w] \in Nat /\ link[u] \in Nat /\ s \in Sockets /\ Server!ServerTypeOK
  BY CallAssumption DEF Links, Sockets, IInv, CallTypeOK
<1>2. ASSUME k > link[w] PROVE IsNew(s)
  BY <1>2 DEF ClientInv, FreshLinks
<1>3. CASE UNCHANGED <<serverVars, link>>
  BY <1>2, <1>3 DEF serverVars, IsNew
<1>4. CASE Server!Connect(<<u, link[u] + 1>>) /\ LinkUp(u) /\ link[u] + 1 \in Links
  <2>1. k > link[w] /\ s # <<u, link[u] + 1>>
    BY <1>1, <1>4 DEF LinkUp, IInv, CallTypeOK
  <2>2. <<u, link[u] + 1>> \in Sockets
    BY <1>4 DEF Sockets
  <2> QED
    BY <1>1, <1>2, <1>4, <2>1, <2>2, StaysNew
<1>5. ASSUME UNCHANGED link, NEW t \in Sockets,
             \/ Server!Disconnect(t)
             \/ Server!Deliver(t)
             \/ \E n \in Names : Server!Register(t, n)
             \/ \E kind, n, body : Server!Relay(t, kind, n, body)
      PROVE  IsNew(s)'
  BY <1>1, <1>2, <1>5, StaysNew
<1> QED
  BY <1>3, <1>4, <1>5, ServerStep, OffTheNetwork DEF Acts

\* What happens to the requests of u.
LEMMA UpSteps ==
    ASSUME NEW u \in Users, Acts(u)
    PROVE  \/ UNCHANGED up /\ ~ServerHandles(u)
           \/ ServerHandles(u)
           \/ LinkLost(u)
           \/ \E n \in Names : ClickSubmit(u, n)
           \/ \E kind \in Kinds : \E n, body : Emit(u, kind, n, body) /\ UNCHANGED serverVars /\ UNCHANGED link
<1> USE DEF linkVars
<1>1. CASE Click(u) /\ ~(\E n \in Names : ClickSubmit(u, n))
  <2>1. CASE ClickReject(u)
    <3>1. Emit(u, "reject", popup[u], NoSdp) /\ UNCHANGED serverVars /\ UNCHANGED link
      BY <2>1 DEF ClickReject
    <3> QED
      BY <3>1 DEF Kinds
  <2>2. CASE UNCHANGED up
    BY <2>2
  <2> QED
    BY <1>1, <2>1, <2>2 DEF Click, ClickCall, ClickEnd, ClickAccept
<1>2. CASE Slot(u)
  <2>1. ASSUME NEW op, NEW kind \in Kinds, SendDescription(u, op, kind)
        PROVE  \E n, body : Emit(u, kind, n, body) /\ UNCHANGED serverVars /\ UNCHANGED link
    BY <2>1 DEF SendDescription
  <2>2. CASE SendOffer(u) \/ SendAnswer(u)
    BY <2>1, <2>2 DEF SendOffer, SendAnswer, Kinds
  <2>3. CASE UNCHANGED up
    BY <2>3
  <2> QED
    BY <1>2, <2>2, <2>3
       DEF Slot, OfferReceived, AnswerReceived, RejectReceived, ConnectionReady, EndConnection
<1>3. ASSUME NEW n \in Keys, Media(u, n) PROVE UNCHANGED up
  BY <1>3 DEF Media, GatherDone, TrackReceived, PcConnected, PcClosed, PcFailed
<1>4. CASE Network(u)
  BY <1>4 DEF Network, LinkUp, LinkLost, ServerDisconnects, ClientHandles
<1> QED
  BY <1>1, <1>2, <1>3, <1>4 DEF Acts, Click

\* A connection gets its name from the "register" of its client.
LEMMA NamedByRegister ==
    ASSUME IInv, NEW u \in Users, Acts(u), NEW w \in Users, NEW k \in Links
    PROVE  \/ peerNames'[<<w, k>>] \in {NoName, peerNames[<<w, k>>]}
           \/ w = u /\ ServerHandles(u)
<1> DEFINE s == <<w, k>>
<1>1. s \in Sockets /\ peerNames \in [Sockets -> Names \cup {NoName}]
  BY DEF Sockets, IInv, CallTypeOK, Server!ServerTypeOK
<1>2. CASE UNCHANGED serverVars
  BY <1>2 DEF serverVars
<1>3. CASE LinkUp(u) \/ ClientHandles(u)
  BY <1>3 DEF LinkUp, ClientHandles, Server!Connect, Server!Deliver
<1>4. ASSUME NEW j \in Links, ServerDisconnects(u, j)
      PROVE  peerNames'[s] \in {NoName, peerNames[s]}
  BY <1>1, <1>4 DEF ServerDisconnects, Server!Disconnect
<1>5. CASE ServerHandles(u) /\ w # u
  <2>1. s # Socket(u)
    BY <1>5 DEF Socket
  <2>2. peerNames'[s] = peerNames[s]
    BY <1>1, <1>5, <2>1 DEF ServerHandles, Server!Register, Server!Relay
  <2> QED
    BY <2>2
<1> QED
  BY <1>2, <1>3, <1>4, <1>5, OffTheNetwork DEF Acts, Network, LinkLost

LEMMA LinkGrows ==
    ASSUME IInv, NEW u \in Users, Acts(u), NEW w \in Users
    PROVE  link'[w] \in Nat /\ link'[w] >= link[w]
<1>1. link \in [Users -> 0..MaxLinks] /\ MaxLinks \in Nat
  BY CallAssumption DEF IInv, CallTypeOK
<1>2. CASE UNCHANGED link
  BY <1>1, <1>2
<1>3. CASE LinkUp(u)
  BY <1>1, <1>3 DEF LinkUp
<1> QED
  BY <1>2, <1>3, OffTheNetwork
     DEF Acts, Network, LinkLost, ServerDisconnects, ServerHandles, ClientHandles, linkVars

LEMMA RegistersFirstKept ==
    ASSUME IInv, ClientInv, NEW u \in Users, Acts(u)
    PROVE  RegistersFirst'
<1> SUFFICES ASSUME NEW w \in Users, NEW i \in 1..Len(up'[w]), up'[w][i].kind = "register"
             PROVE  i = 1 /\ \A k \in Links : k >= link'[w] => peerNames'[<<w, k>>] = NoName
  BY DEF RegistersFirst
<1>1. up \in [Users -> Seq(Request)] /\ link[w] \in Nat /\ link'[w] \in Nat /\ link'[w] >= link[w]
  <2>1. link \in [Users -> 0..MaxLinks] /\ up \in [Users -> Seq(Request)]
    BY DEF IInv, CallTypeOK
  <2>2. link[w] \in Nat
    BY <2>1, CallAssumption
  <2> QED
    BY <2>1, <2>2, LinkGrows
<1>2. ASSUME i \in 1..Len(up[w]), up[w][i].kind = "register", ~(w = u /\ ServerHandles(u))
      PROVE  i = 1 /\ \A k \in Links : k >= link'[w] => peerNames'[<<w, k>>] = NoName
  <2>1. i = 1 /\ \A k \in Links : k >= link[w] => peerNames[<<w, k>>] = NoName
    BY <1>2 DEF ClientInv, RegistersFirst
  <2>2. ASSUME NEW k \in Links, k >= link'[w] PROVE peerNames'[<<w, k>>] = NoName
    <3>1. k >= link[w]
      BY <1>1, <2>2 DEF Links
    <3> QED
      BY <1>2, <2>1, <3>1, NamedByRegister
  <2> QED
    BY <2>1, <2>2
<1>3. CASE w # u
  <2>1. up'[w] = up[w]
    BY <1>3, OthersUntouched DEF IInv, Untouched
  <2> QED
    BY <1>2, <1>3, <2>1
<1>4. CASE w = u
  <2>1. CASE UNCHANGED up /\ ~ServerHandles(u)
    BY <1>2, <2>1
  <2>2. CASE ServerHandles(u)
    <3>1. up[u] # <<>> /\ up'[u] = Tail(up[u]) /\ up[u] \in Seq(Request)
      BY <1>1, <2>2 DEF ServerHandles
    <3>2. i + 1 \in 1..Len(up[u]) /\ up'[u][i] = up[u][i + 1]
      BY <1>4, <3>1
    <3>3. i + 1 = 1
      BY <1>4, <3>2 DEF ClientInv, RegistersFirst
    <3> QED
      BY <3>3
  <2>3. CASE LinkLost(u)
    <3>1. up'[u] = <<>>
      BY <1>1, <2>3 DEF LinkLost
    <3> QED
      BY <1>4, <3>1
  <2>4. ASSUME NEW n \in Names, ClickSubmit(u, n)
        PROVE  i = 1 /\ \A k \in Links : k >= link'[w] => peerNames'[<<w, k>>] = NoName
    <3>1. username[u] = NoName /\ UNCHANGED peerNames
      BY <2>4 DEF ClickSubmit, serverVars
    <3>2. up[u] = <<>>
      BY <3>1 DEF ClientInv, Unnamed
    <3>3. Len(up'[u]) = 1
      BY <1>1, <2>4, <3>2 DEF ClickSubmit, Emit
    <3> QED
      BY <1>4, <3>1, <3>3 DEF IInv, Stamped
  <2>5. ASSUME NEW kind \in Kinds, NEW n, NEW body, Emit(u, kind, n, body),
               UNCHANGED serverVars, UNCHANGED link
        PROVE  i = 1 /\ \A k \in Links : k >= link'[w] => peerNames'[<<w, k>>] = NoName
    <3> DEFINE m == [kind |-> kind, to |-> n, body |-> body]
    <3>1. m.kind # "register"
      BY DEF Kinds
    <3>2. up'[u] = Append(up[u], m) /\ up[u] \in Seq(Request)
      BY <1>1, <2>5 DEF Emit
    <3> HIDE DEF m
    <3>3. i \in 1..Len(up[u]) /\ up'[u][i] = up[u][i]
      <4>1. i \in 1..(Len(up[u]) + 1) /\ Len(up[u]) \in Nat
        BY <1>4, <3>2
      <4>2. CASE i = Len(up[u]) + 1
        <5>1. up'[u][i] = m
          BY <3>2, <4>2
        <5> QED
          BY <1>4, <3>1, <5>1
      <4>3. CASE i # Len(up[u]) + 1
        <5>1. i \in 1..Len(up[u])
          BY <4>1, <4>3
        <5> QED
          BY <3>2, <5>1
      <4> QED
        BY <4>2, <4>3
    <3>4. \A k \in Links : k >= link[u] => peerNames[<<u, k>>] = NoName /\ i = 1
      BY <1>4, <3>3 DEF ClientInv, RegistersFirst
    <3>5. i = 1
      BY <1>4, <3>3 DEF ClientInv, RegistersFirst
    <3> QED
      BY <1>4, <2>5, <3>4, <3>5 DEF serverVars
  <2> QED
    BY <2>1, <2>2, <2>3, <2>4, <2>5, UpSteps
<1> QED
  BY <1>3, <1>4

LEMMA ClientInvInit == Init => ClientInv
<1> SUFFICES ASSUME Init PROVE ClientInv
  OBVIOUS
<1>1. FreshLinks /\ RegistersFirst /\ NamesTaken
  BY DEF Init, Server!ServerInit, FreshLinks, IsNew, Sockets, RegistersFirst, NamesTaken
<1>2. Unnamed
  BY DEF Init, Unnamed
<1> QED
  BY <1>1, <1>2 DEF ClientInv

LEMMA ClientInvKept == IInv /\ ClientInv /\ [Next]_vars => ClientInv'
<1> SUFFICES ASSUME IInv, ClientInv, [Next]_vars PROVE ClientInv'
  OBVIOUS
<1>1. CASE UNCHANGED vars
  <2>1. FreshLinks' /\ RegistersFirst' /\ NamesTaken'
    BY <1>1 DEF ClientInv, FreshLinks, IsNew, RegistersFirst, NamesTaken,
                vars, serverVars, linkVars, uiVars
  <2>2. Unnamed'
    BY <1>1 DEF ClientInv, Unnamed, vars, linkVars, pcVars, uiVars
  <2> QED
    BY <2>1, <2>2 DEF ClientInv
<1>2. ASSUME NEW u \in Users, Acts(u) PROVE ClientInv'
  BY <1>2, FreshLinksKept, UnnamedKept, RegistersFirstKept, NamesTakenKept DEF ClientInv
<1> QED
  BY <1>1, <1>2 DEF Next, Acts

\* A step of the composition is a step of SignalingServer or none.
LEMMA ServerStepsAreServers ==
    IInv /\ ClientInv /\ [Next]_vars => [Server!ServerNext]_(Server!serverVars)
<1> SUFFICES ASSUME IInv, ClientInv, NEW u \in Users, Acts(u), ~UNCHANGED serverVars
             PROVE  Server!ServerNext
  BY DEF Next, Acts, vars, serverVars, Server!serverVars
<1>1. CASE LinkUp(u)
  <2>1. link[u] \in 0..MaxLinks /\ link[u] < MaxLinks /\ MaxLinks \in Nat
    BY <1>1, CallAssumption DEF LinkUp, IInv, CallTypeOK
  <2>2. <<u, link[u] + 1>> \in Sockets
    BY <2>1 DEF Sockets, Links
  <2> QED
    BY <1>1, <2>2 DEF LinkUp, Server!ServerNext
<1>2. ASSUME NEW k \in Links, ServerDisconnects(u, k) PROVE Server!ServerNext
  BY <1>2 DEF ServerDisconnects, Sockets, Server!ServerNext
<1>3. ASSUME linked[u] PROVE Socket(u) \in Sockets /\ link[u] \in Links
  BY <1>3 DEF Socket, Sockets, IInv, LinkedByLink
<1>4. CASE ClientHandles(u)
  BY <1>3, <1>4 DEF ClientHandles, Server!ServerNext
<1>5. CASE ServerHandles(u)
  <2> DEFINE m == Head(up[u])
             s == Socket(u)
  <2>1. up[u] \in Seq(Request) /\ up[u] # <<>>
    BY <1>5 DEF ServerHandles, IInv, CallTypeOK
  <2>2. m \in Request /\ 1 \in 1..Len(up[u]) /\ m = up[u][1]
    BY <2>1, TailElements, Zenon
  <2>3. s \in Sockets /\ link[u] \in Links
    BY <1>3, <1>5 DEF ServerHandles
  <2>4. CASE m.kind = "register"
    <3>1. GoodRequest(u, username[u], m)
      BY <2>2 DEF IInv, Requests
    <3>2. m.to \in Names
      BY <2>2, <2>4, <3>1, CallAssumption DEF GoodRequest, Request, IInv, CallTypeOK, Keys
    <3>3. peerNames[<<u, link[u]>>] = NoName
      BY <2>2, <2>3, <2>4 DEF ClientInv, RegistersFirst, Links
    <3>4. Server!Register(s, m.to) /\ peerNames[s] = NoName
      BY <1>5, <2>4, <3>3 DEF ServerHandles, Socket
    <3> QED
      BY <2>3, <3>2, <3>4 DEF Server!ServerNext
  <2>5. CASE m.kind # "register"
    <3>1. Server!Relay(s, m.kind, m.to, m.body)
      BY <1>5, <2>5 DEF ServerHandles
    <3>2. m.kind \in Server!Kinds /\ m.body \in Body /\ m.to \in Keys
      BY <2>2, <2>5 DEF Request, Kinds, Server!Kinds
    <3>3. m.to \in Names
      BY <3>1, <3>2 DEF Server!Relay, Server!Delivered, Server!Target, serverVars, Keys
    <3> QED
      BY <2>3, <3>1, <3>2, <3>3 DEF Server!ServerNext
  <2> QED
    BY <2>4, <2>5
<1>6. Network(u) /\ ~LinkLost(u)
  <2>1. LinkLost(u) => UNCHANGED serverVars
    BY DEF LinkLost
  <2> QED
    BY <2>1, OffTheNetwork DEF Acts
<1> QED
  BY <1>1, <1>2, <1>4, <1>5, <1>6 DEF Network

\* The clients use the server as SignalingServer lets them: a connection
\* registers at most once and nothing is relayed for clients that are gone,
\* however often connections break and whatever is lost with them.
THEOREM ClientsUseTheServer == Spec => ServerOfCalls
<1>1. Init => Server!ServerInit
  BY DEF Init
<1> QED
  BY <1>1, InitGood, StepGood, ClientInvInit, ClientInvKept, ServerStepsAreServers, PTL
     DEF Spec, ServerOfCalls, Server!ServerSpec

ServerProofs == INSTANCE SignalingServerProofs WITH Payloads <- Body

\* Also among these clients every name in the directory leads to a client that
\* is connected and goes by it: the theorem about the server carries over.
THEOREM DirectoryStaysLive == Spec => []Server!DirectoryLive
<1>1. ServerProofs!ServerAssumption
  BY CallAssumption DEF ServerProofs!ServerAssumption, Keys
<1>2. ServerProofs!ServerSpec => []ServerProofs!DirectoryLive
  BY <1>1, ServerProofs!DirectoryIsLive
<1>3. Server!ServerInit => ServerProofs!ServerInit
  BY DEF Server!ServerInit, ServerProofs!ServerInit
<1>4. [Server!ServerNext]_(Server!serverVars) => [ServerProofs!ServerNext]_(ServerProofs!serverVars)
  BY DEF Server!ServerNext, ServerProofs!ServerNext, Server!serverVars, ServerProofs!serverVars,
         Server!Connect, ServerProofs!Connect, Server!Register, ServerProofs!Register,
         Server!Relay, ServerProofs!Relay, Server!Delivered, ServerProofs!Delivered,
         Server!Target, ServerProofs!Target, Server!Disconnect, ServerProofs!Disconnect,
         Server!NamesOf, ServerProofs!NamesOf, Server!Deliver, ServerProofs!Deliver,
         Server!Kinds, ServerProofs!Kinds
<1>5. ServerProofs!DirectoryLive => Server!DirectoryLive
  BY DEF Server!DirectoryLive, ServerProofs!DirectoryLive
<1> QED
  BY <1>2, <1>3, <1>4, <1>5, ClientsUseTheServer, PTL
     DEF ServerOfCalls, Server!ServerSpec, ServerProofs!ServerSpec

----------------------------------------------------------------------------
(* Four queues in a row. *)

\* y holds what x holds from the position c + 1 on, as far as J is concerned.
Rest(x, y, J, c) ==
    \A i \in 1..Len(y) : y[i] \in J => i + c \in 1..Len(x) /\ y[i] = x[i + c]

\* y holds what x holds and, at its end, what the head of z was.
Handed(x, y, J, z, K) ==
    /\ z # <<>>
    /\ \A i \in 1..Len(y) : y[i] \in J =>
          \/ i \in 1..Len(x) /\ y[i] = x[i]
          \/ i = Len(y) /\ Head(z) \in K /\ Number(y[i]) = Number(Head(z))

\* One step of the row: in each queue the head leaves, for the next queue or
\* for good, or everything stays.
Shifted(q, r, I) ==
    \E cut \in [1..4 -> {0, 1}] : \A s \in 1..4 :
        \/ Rest(q[s], r[s], I[s], cut[s])
        \/ s # 4 /\ cut[s] = 0 /\ cut[s + 1] = 1 /\ Handed(q[s], r[s], I[s], q[s + 1], I[s + 1])

Row(q) == \A s \in 1..4 : \E S : q[s] \in Seq(S)

LEMMA RestFacts ==
    ASSUME NEW S, NEW x \in Seq(S), NEW J
    PROVE  /\ Rest(x, x, J, 0)
           /\ Rest(x, <<>>, J, 0)
           /\ x # <<>> => Rest(x, Tail(x), J, 1)
  BY DEF Rest

LEMMA RestAppend ==
    ASSUME NEW S, NEW x \in Seq(S), NEW J, NEW e \in S, e \notin J
    PROVE  Rest(x, Append(x, e), J, 0)
  BY DEF Rest

LEMMA RestConcat ==
    ASSUME NEW S, NEW x \in Seq(S), NEW y \in Seq(S), NEW J, \A i \in 1..Len(y) : y[i] \notin J
    PROVE  Rest(x, x \o y, J, 0)
<1>1. /\ x \o y \in Seq(S)
      /\ \A i \in 1..Len(x \o y) :
            \/ i \in 1..Len(x) /\ (x \o y)[i] = x[i]
            \/ i - Len(x) \in 1..Len(y) /\ (x \o y)[i] = y[i - Len(x)]
  BY ConcatElements
<1>2. ASSUME NEW i \in 1..Len(x \o y), (x \o y)[i] \in J
      PROVE  i \in 1..Len(x) /\ (x \o y)[i] = x[i]
  BY <1>1, <1>2
<1>3. \A i \in 1..Len(x \o y) : i \in Nat
  BY <1>1
<1> QED
  BY <1>2, <1>3 DEF Rest

LEMMA HandedAppend ==
    ASSUME NEW S, NEW x \in Seq(S), NEW J, NEW e \in S, NEW z, NEW K, z # <<>>,
           e \in J => Head(z) \in K /\ Number(e) = Number(Head(z))
    PROVE  Handed(x, Append(x, e), J, z, K)
<1>1. \A i \in 1..Len(Append(x, e)) :
          \/ i \in 1..Len(x) /\ Append(x, e)[i] = x[i]
          \/ i = Len(Append(x, e)) /\ Append(x, e)[i] = e
  OBVIOUS
<1> QED
  BY <1>1 DEF Handed

\* A step of the row keeps the order and brings nothing new.
LEMMA ShiftKeepsOrder ==
    ASSUME NEW q, NEW r, NEW I, Row(q), Row(r), Shifted(q, r, I), Ordered(q, I)
    PROVE  Ordered(r, I) /\ \A k : UnderWay(r, I, k) => UnderWay(q, I, k)
<1>1. PICK cut \in [1..4 -> {0, 1}] : \A s \in 1..4 :
          \/ Rest(q[s], r[s], I[s], cut[s])
          \/ s # 4 /\ cut[s] = 0 /\ cut[s + 1] = 1
                /\ Handed(q[s], r[s], I[s], q[s + 1], I[s + 1])
  BY DEF Shifted
<1>2. ASSUME NEW s \in 1..4 PROVE Len(q[s]) \in Nat /\ Len(r[s]) \in Nat
  BY DEF Row
<1>3. ASSUME NEW s \in 1..4, q[s] # <<>>
      PROVE  1 \in 1..Len(q[s]) /\ Head(q[s]) = q[s][1]
  BY <1>3 DEF Row
<1> DEFINE Stays(s, i) == /\ i + cut[s] \in 1..Len(q[s]) /\ r[s][i] = q[s][i + cut[s]]
                          /\ q[s][i + cut[s]] \in I[s]
           Comes(s, i) == /\ s \in 1..3 /\ i = Len(r[s]) /\ cut[s + 1] = 1
                          /\ 1 \in 1..Len(q[s + 1]) /\ q[s + 1][1] \in I[s + 1]
                          /\ Number(r[s][i]) = Number(q[s + 1][1])
<1>4. ASSUME NEW s \in 1..4, NEW i \in 1..Len(r[s]), r[s][i] \in I[s]
      PROVE  Stays(s, i) \/ Comes(s, i)
  <2>1. CASE Rest(q[s], r[s], I[s], cut[s])
    BY <1>4, <2>1 DEF Rest
  <2>2. CASE /\ s # 4 /\ cut[s] = 0 /\ cut[s + 1] = 1
             /\ Handed(q[s], r[s], I[s], q[s + 1], I[s + 1])
    <3>1. s + 1 \in 1..4 /\ s \in 1..3 /\ i + cut[s] = i /\ q[s + 1] # <<>>
      BY <1>2, <2>2 DEF Handed
    <3>2. 1 \in 1..Len(q[s + 1]) /\ Head(q[s + 1]) = q[s + 1][1]
      BY <1>3, <3>1
    <3> QED
      BY <1>4, <2>2, <3>1, <3>2 DEF Handed
  <2> QED
    BY <1>1, <2>1, <2>2
<1>5. ASSUME NEW k, UnderWay(r, I, k) PROVE UnderWay(q, I, k)
  <2>1. PICK s \in 1..4 : \E i \in 1..Len(r[s]) : r[s][i] \in I[s] /\ Number(r[s][i]) = k
    BY <1>5 DEF UnderWay
  <2>2. PICK i \in 1..Len(r[s]) : r[s][i] \in I[s] /\ Number(r[s][i]) = k
    BY <2>1
  <2>3. CASE Stays(s, i)
    BY <2>2, <2>3 DEF UnderWay
  <2>4. CASE Comes(s, i)
    BY <2>2, <2>4 DEF UnderWay
  <2> QED
    BY <1>4, <2>2, <2>3, <2>4
<1>6. ASSUME NEW s \in 1..4, NEW t \in 1..4, NEW i \in 1..Len(r[s]), NEW j \in 1..Len(r[t]),
             Precedes(s, i, t, j), r[s][i] \in I[s], r[t][j] \in I[t]
      PROVE  Number(r[s][i]) < Number(r[t][j])
  <2>1. /\ Stays(s, i) \/ Comes(s, i)
        /\ Stays(t, j) \/ Comes(t, j)
    BY <1>4, <1>6
  <2>2. ASSUME NEW x \in 1..4, NEW y \in 1..4, NEW m \in 1..Len(q[x]), NEW n \in 1..Len(q[y]),
               Precedes(x, m, y, n), q[x][m] \in I[x], q[y][n] \in I[y]
        PROVE  Number(q[x][m]) < Number(q[y][n])
    BY <2>2 DEF Ordered
  <2>3. i \in Nat /\ j \in Nat /\ cut[s] \in {0, 1} /\ cut[t] \in {0, 1}
    BY <1>2
  <2>4. CASE Stays(s, i) /\ Stays(t, j)
    <3>1. Precedes(s, i + cut[s], t, j + cut[t])
      BY <1>6, <2>3 DEF Precedes
    <3> QED
      BY <2>2, <2>4, <3>1
  <2>5. CASE Stays(s, i) /\ Comes(t, j)
    <3>1. Precedes(s, i + cut[s], t + 1, 1) /\ t + 1 \in 1..4
      BY <1>6, <2>5 DEF Precedes
    <3> QED
      BY <2>2, <2>5, <3>1
  <2>6. CASE Comes(s, i) /\ Stays(t, j)
    <3>1. s # t
      BY <1>2, <1>6, <2>6 DEF Precedes
    <3>2. s + 1 = t => cut[t] = 1
      BY <2>6
    <3>3. Precedes(s + 1, 1, t, j + cut[t]) /\ s + 1 \in 1..4
      BY <1>6, <2>3, <2>6, <3>1, <3>2 DEF Precedes
    <3> QED
      BY <2>2, <2>6, <3>3
  <2>7. CASE Comes(s, i) /\ Comes(t, j)
    <3>1. s # t
      BY <1>6, <2>3, <2>7 DEF Precedes
    <3>2. Precedes(s + 1, 1, t + 1, 1) /\ s + 1 \in 1..4 /\ t + 1 \in 1..4
      BY <1>6, <2>7, <3>1 DEF Precedes
    <3> QED
      BY <2>2, <2>7, <3>2
  <2> QED
    BY <2>1, <2>4, <2>5, <2>6, <2>7
<1>7. Ordered(r, I)
  BY <1>6 DEF Ordered
<1> QED
  BY <1>5, <1>7

\* A newer description may join the end of the row.
LEMMA JoinKeepsOrder ==
    ASSUME NEW q, NEW r, NEW I, NEW k, Row(q), Row(r), Ordered(q, I),
           \A s \in 1..3 : Rest(q[s], r[s], I[s], 0),
           \A i \in 1..Len(r[4]) : r[4][i] \in I[4] =>
               \/ i \in 1..Len(q[4]) /\ r[4][i] = q[4][i]
               \/ i = Len(r[4]) /\ Number(r[4][i]) = k,
           \A s \in 1..4 : \A i \in 1..Len(q[s]) : q[s][i] \in I[s] => Number(q[s][i]) < k
    PROVE  Ordered(r, I) /\ \A j : UnderWay(r, I, j) => j = k \/ UnderWay(q, I, j)
<1>1. ASSUME NEW s \in 1..4 PROVE Len(q[s]) \in Nat /\ Len(r[s]) \in Nat
  BY DEF Row
<1>2. ASSUME NEW s \in 1..4, NEW i \in 1..Len(r[s]), r[s][i] \in I[s]
      PROVE  \/ i \in 1..Len(q[s]) /\ r[s][i] = q[s][i]
             \/ s = 4 /\ i = Len(r[s]) /\ Number(r[s][i]) = k
  <2>1. CASE s = 4
    BY <1>2, <2>1
  <2>2. CASE s # 4
    <3>1. Rest(q[s], r[s], I[s], 0) /\ i + 0 = i
      BY <1>1, <2>2
    <3> QED
      BY <1>2, <3>1 DEF Rest
  <2> QED
    BY <2>1, <2>2
<1>3. ASSUME NEW s \in 1..4, NEW t \in 1..4, NEW i \in 1..Len(r[s]), NEW j \in 1..Len(r[t]),
             Precedes(s, i, t, j), r[s][i] \in I[s], r[t][j] \in I[t]
      PROVE  Number(r[s][i]) < Number(r[t][j])
  <2>1. CASE i \in 1..Len(q[s]) /\ r[s][i] = q[s][i]
    <3>1. CASE j \in 1..Len(q[t]) /\ r[t][j] = q[t][j]
      BY <1>3, <2>1, <3>1 DEF Ordered
    <3>2. CASE Number(r[t][j]) = k
      BY <1>3, <2>1, <3>2
    <3> QED
      BY <1>2, <1>3, <3>1, <3>2
  <2>2. CASE s = 4 /\ i = Len(r[s])
    BY <1>1, <1>3, <2>2 DEF Precedes
  <2> QED
    BY <1>2, <1>3, <2>1, <2>2
<1>4. Ordered(r, I)
  BY <1>3 DEF Ordered
<1>5. ASSUME NEW j, UnderWay(r, I, j) PROVE j = k \/ UnderWay(q, I, j)
  <2>1. PICK s \in 1..4 : \E i \in 1..Len(r[s]) : r[s][i] \in I[s] /\ Number(r[s][i]) = j
    BY <1>5 DEF UnderWay
  <2>2. PICK i \in 1..Len(r[s]) : r[s][i] \in I[s] /\ Number(r[s][i]) = j
    BY <2>1
  <2> QED
    BY <1>2, <2>2 DEF UnderWay
<1> QED
  BY <1>4, <1>5

----------------------------------------------------------------------------
(* Peer connections and what they were given. *)

\* A peer connection is replaced only by one with a higher number.
Grows ==
    \A u \in Users : \A n \in Keys :
        LET c == peerConnections[u][n]
            d == peerConnections'[u][n] IN
        c # NoConn => /\ d # NoConn
                      /\ \/ d.id = c.id /\ (c.gathered => d.gathered)
                         \/ c.id < d.id

\* What a step does to the map of u: an entry is new, or an entry that exists
\* keeps its number.
Replaces(u) ==
    \/ UNCHANGED peerConnections /\ UNCHANGED made
    \/ \E n \in Keys : \E local \in {"none", "offer", "answer"} : \E remote \in Body :
          /\ AddPeer(u, n, local, remote)
          /\ remote # NoSdp => remote = peerSdps[u][n]
    \/ /\ UNCHANGED made
       /\ \E n \in Keys : \E c \in Conn :
             LET b == peerConnections[u][n] IN
             /\ b # NoConn /\ c.id = b.id /\ (b.gathered => c.gathered)
             /\ peerConnections' = [peerConnections EXCEPT ![u][n] = c]
             /\ \/ c.remote = b.remote
                \/ AnswerReceived(u) /\ c.remote = Head(gui[u]).body

LEMMA EntrySteps ==
    ASSUME IInv, NEW u \in Users, Acts(u)
    PROVE  Replaces(u)
<1>0. peerConnections \in [Users -> [Keys -> Conn \cup {NoConn}]] /\ NoSdp \in Body
  BY DEF IInv, CallTypeOK, Body
<1>1. ASSUME NEW n \in Names, ClickSubmit(u, n) PROVE Replaces(u)
  <2>1. AddPeer(u, n, "none", NoSdp) /\ n \in Keys
    BY <1>1 DEF ClickSubmit, Keys
  <2> QED
    BY <1>0, <2>1 DEF Replaces
<1>2. ASSUME NEW n \in Keys, ClickCall(u, n) PROVE Replaces(u)
  <2>1. AddPeer(u, n, "offer", NoSdp)
    BY <1>2 DEF ClickCall
  <2> QED
    BY <1>0, <2>1 DEF Replaces
<1>3. ASSUME NEW n \in Keys, NEW s \in {"connected", "closed", "failed"},
             peerConnections[u][n] # NoConn, UNCHANGED made,
             peerConnections' = [peerConnections EXCEPT ![u][n].state = s]
      PROVE  Replaces(u)
  <2> DEFINE b == peerConnections[u][n]
             c == [b EXCEPT !.state = s]
  <2>0. b \in Conn
    BY <1>0, <1>3
  <2>1. c \in Conn /\ c.id = b.id /\ c.gathered = b.gathered /\ c.remote = b.remote
    BY <2>0 DEF Conn
  <2>2. peerConnections' = [peerConnections EXCEPT ![u][n] = c]
    BY <1>0, <1>3
  <2> HIDE DEF c
  <2> QED
    BY <1>3, <2>1, <2>2 DEF Replaces
<1>4. CASE ClickEnd(u)
  <2>1. nameField[u] \in Keys
    BY DEF IInv, CallTypeOK
  <2>2. CASE peerConnections[u][nameField[u]] = NoConn
    BY <1>4, <2>2 DEF ClickEnd, Replaces
  <2>3. CASE peerConnections[u][nameField[u]] # NoConn
    BY <1>3, <1>4, <2>1, <2>3 DEF ClickEnd
  <2> QED
    BY <2>2, <2>3
<1>5. CASE ClickAccept(u)
  <2> DEFINE n == popup[u]
  <2>1. n \in Keys /\ ~isOfferer[u] /\ peerSdps[u][n] \in Body
    BY <1>5 DEF ClickAccept, IInv, PopupMeansAnswerer, CallTypeOK, Keys
  <2>2. CASE peerSdps[u][n] = NoSdp
    BY <1>5, <2>2 DEF ClickAccept, Replaces
  <2>3. CASE peerSdps[u][n] # NoSdp
    <3>1. AddPeer(u, n, "answer", peerSdps[u][n])
      BY <1>5, <2>1, <2>3 DEF ClickAccept, AttachOffer
    <3> HIDE DEF n
    <3> QED
      BY <2>1, <3>1 DEF Replaces
  <2> QED
    BY <2>2, <2>3
<1>6. CASE AnswerReceived(u)
  <2> DEFINE e == Head(gui[u])
             b == peerConnections[u][e.peer]
             c == [b EXCEPT !.remote = e.body]
  <2>1. gui[u] \in Seq(Event) /\ gui[u] # <<>>
    BY <1>6 DEF AnswerReceived, NextEvent, IInv, CallTypeOK
  <2>2. e \in Event
    BY <2>1, TailElements
  <2>3. CASE UNCHANGED peerConnections
    BY <1>6, <2>3 DEF AnswerReceived, Replaces
  <2>4. CASE ~UNCHANGED peerConnections
    <3>1. /\ MayTake(u, b)
          /\ peerConnections' = [peerConnections EXCEPT ![u][e.peer].remote = e.body]
      BY <1>6, <2>4 DEF AnswerReceived
    <3>2. e.peer \in Keys /\ e.body \in Body /\ b # NoConn /\ b \in Conn
      BY <1>0, <2>2, <3>1 DEF MayTake, Event
    <3>3. c \in Conn /\ c.id = b.id /\ c.gathered = b.gathered /\ c.remote = e.body
      BY <3>2 DEF Conn
    <3>4. peerConnections' = [peerConnections EXCEPT ![u][e.peer] = c]
      BY <1>0, <3>1, <3>2
    <3>5. UNCHANGED made
      BY <1>6 DEF AnswerReceived
    <3> HIDE DEF c
    <3> QED
      BY <1>6, <3>2, <3>3, <3>4, <3>5 DEF Replaces
  <2> QED
    BY <2>3, <2>4
<1>7. CASE UNCHANGED peerConnections /\ UNCHANGED made
  BY <1>7 DEF Replaces
<1>8. ASSUME NEW n \in Keys, Media(u, n) PROVE Replaces(u)
  <2> DEFINE b == peerConnections[u][n]
  <2>1. b # NoConn /\ b \in Conn /\ UNCHANGED made
    BY <1>0, <1>8 DEF Media, GatherDone, TrackReceived, PcConnected, PcClosed, PcFailed, IsOpen
  <2>2. CASE GatherDone(u, n)
    <3> DEFINE c == [b EXCEPT !.gathered = TRUE]
    <3>1. c \in Conn /\ c.id = b.id /\ c.gathered /\ c.remote = b.remote
      BY <2>1 DEF Conn
    <3>2. peerConnections' = [peerConnections EXCEPT ![u][n] = c]
      BY <1>0, <2>2 DEF GatherDone
    <3> HIDE DEF c
    <3> QED
      BY <2>1, <3>1, <3>2 DEF Replaces
  <2>3. CASE TrackReceived(u, n)
    <3> DEFINE c == [b EXCEPT !.tracked = TRUE]
    <3>1. c \in Conn /\ c.id = b.id /\ c.gathered = b.gathered /\ c.remote = b.remote
      BY <2>1 DEF Conn
    <3>2. peerConnections' = [peerConnections EXCEPT ![u][n] = c]
      BY <1>0, <2>3 DEF TrackReceived
    <3> HIDE DEF c
    <3> QED
      BY <2>1, <3>1, <3>2 DEF Replaces
  <2>4. CASE PcConnected(u, n) \/ PcClosed(u, n) \/ PcFailed(u, n)
    BY <1>3, <2>1, <2>4 DEF PcConnected, PcClosed, PcFailed
  <2> QED
    BY <1>8, <2>2, <2>3, <2>4 DEF Media
<1>9. CASE ClickReject(u) \/ Network(u)
  BY <1>7, <1>9 DEF ClickReject, Network, LinkUp, LinkLost, ServerDisconnects, ServerHandles,
                    ClientHandles, clientVars, pcVars
<1>10. CASE Slot(u) /\ ~AnswerReceived(u)
  BY <1>7, <1>10 DEF Slot, OfferReceived, RejectReceived, SendOffer, SendAnswer, SendDescription,
                     ConnectionReady, EndConnection, pcVars
<1> QED
  BY <1>1, <1>2, <1>4, <1>5, <1>6, <1>8, <1>9, <1>10 DEF Acts, Click

LEMMA ConnsGrow ==
    ASSUME IInv, Numbered, NEW u \in Users, Acts(u)
    PROVE  Grows /\ Numbered'
<1> USE DEF Grows, Numbered
<1>1. /\ peerConnections \in [Users -> [Keys -> Conn \cup {NoConn}]]
      /\ made \in [Users -> 0..MaxMade] /\ MaxMade \in Nat
  BY CallAssumption DEF IInv, CallTypeOK
<1>2. \A w \in Users : \A n \in Keys :
          peerConnections[w][n] # NoConn => peerConnections[w][n].id \in Nat
  BY <1>1 DEF Conn
<1>3. CASE UNCHANGED peerConnections /\ UNCHANGED made
  BY <1>3 DEF Keys
<1>4. ASSUME NEW n \in Keys, NEW local \in {"none", "offer", "answer"}, NEW remote \in Body,
             AddPeer(u, n, local, remote)
      PROVE  Grows /\ Numbered'
  <2> DEFINE f == FreshConn(u, local, remote)
  <2>1. f # NoConn /\ f.id = made[u] + 1
    BY <1>4, FreshConnTyped, CallAssumption DEF FreshConn, IInv
  <2>2. /\ peerConnections' = [peerConnections EXCEPT ![u][n] = f]
        /\ made' = [made EXCEPT ![u] = made[u] + 1]
    BY <1>4 DEF AddPeer
  <2> HIDE DEF f
  <2>3. Grows
    BY <1>1, <1>2, <2>1, <2>2
  <2>4. Numbered'
    <3>1. ASSUME NEW w \in Users, NEW m \in Keys, peerConnections'[w][m] # NoConn
          PROVE  peerConnections'[w][m].id <= made'[w]
      BY <1>1, <1>2, <2>1, <2>2, <3>1
    <3> QED
      BY <3>1 DEF Keys
  <2> QED
    BY <2>3, <2>4
<1>5. ASSUME NEW n \in Keys, NEW c \in Conn, UNCHANGED made, peerConnections[u][n] # NoConn,
             c.id = peerConnections[u][n].id, peerConnections[u][n].gathered => c.gathered,
             peerConnections' = [peerConnections EXCEPT ![u][n] = c]
      PROVE  Grows /\ Numbered'
  <2>1. c # NoConn
    BY CallAssumption
  <2>2. Grows
    BY <1>1, <1>2, <1>5, <2>1
  <2>3. ASSUME NEW w \in Users, NEW m \in Keys, peerConnections'[w][m] # NoConn
        PROVE  peerConnections'[w][m].id <= made'[w]
    BY <1>1, <1>2, <1>5, <2>1, <2>3
  <2> QED
    BY <2>2, <2>3 DEF Keys
<1> QED
  BY <1>3, <1>4, <1>5, EntrySteps DEF Replaces

\* A user comes to know a description by the slots that receive one.
LEMMA KnownByReceiving ==
    ASSUME IInv, NEW u \in Users, Acts(u), NEW w \in Users, NEW v \in Users, NEW k \in 1..MaxMade,
           Knows(w, v, k)'
    PROVE  \/ Knows(w, v, k)
           \/ /\ w = u /\ (OfferReceived(u) \/ AnswerReceived(u))
              /\ Head(gui[u]).body.pc = <<v, k>>
<1>1. /\ peerConnections \in [Users -> [Keys -> Conn \cup {NoConn}]]
      /\ peerSdps \in [Users -> [Keys -> Body]]
  BY DEF IInv, CallTypeOK
<1>2. PICK n \in Keys :
          \/ peerSdps'[w][n] # NoSdp /\ peerSdps'[w][n].pc = <<v, k>>
          \/ LET c == peerConnections'[w][n] IN
             c # NoConn /\ c.remote # NoSdp /\ c.remote.pc = <<v, k>>
  BY DEF Knows, Keys
<1> DEFINE Hears == /\ w = u /\ (OfferReceived(u) \/ AnswerReceived(u))
                    /\ Head(gui[u]).body.pc = <<v, k>>
<1>3. ASSUME peerSdps'[w][n] # NoSdp, peerSdps'[w][n].pc = <<v, k>>
      PROVE  Knows(w, v, k) \/ Hears
  <2>1. CASE peerSdps'[w][n] = peerSdps[w][n]
    BY <1>3, <2>1 DEF Knows
  <2>2. CASE (OfferReceived(u) \/ AnswerReceived(u)) /\ peerSdps'[w][n] # peerSdps[w][n]
    <3>1. w = u /\ peerSdps'[w][n] = Head(gui[u]).body
      BY <1>1, <2>2 DEF OfferReceived, AnswerReceived
    <3> QED
      BY <1>3, <2>2, <3>1
  <2>3. CASE EndConnection(u)
    <3>1. peerSdps'[w][n] = NoSdp \/ peerSdps'[w][n] = peerSdps[w][n]
      BY <1>1, <2>3 DEF EndConnection
    <3> QED
      BY <1>3, <2>1, <3>1
  <2>4. CASE ~(OfferReceived(u) \/ AnswerReceived(u) \/ EndConnection(u))
    <3>1. UNCHANGED peerSdps
      <4>1. CASE Click(u)
        BY <4>1 DEF Click, ClickSubmit, ClickCall, ClickEnd, ClickAccept, ClickReject, pcVars
      <4>2. CASE Slot(u)
        BY <2>4, <4>2 DEF Slot, RejectReceived, SendOffer, SendAnswer, SendDescription,
                          ConnectionReady, pcVars
      <4>3. ASSUME NEW m \in Keys, Media(u, m) PROVE UNCHANGED peerSdps
        BY <4>3 DEF Media, GatherDone, TrackReceived, PcConnected, PcClosed, PcFailed
      <4>4. CASE Network(u)
        BY <4>4 DEF Network, LinkUp, LinkLost, ServerDisconnects, ServerHandles, ClientHandles,
                    clientVars, pcVars
      <4> QED
        BY <4>1, <4>2, <4>3, <4>4 DEF Acts
    <3> QED
      BY <2>1, <3>1
  <2> QED
    BY <2>1, <2>2, <2>3, <2>4
<1>4. ASSUME peerConnections'[w][n] # NoConn, peerConnections'[w][n].remote # NoSdp,
             peerConnections'[w][n].remote.pc = <<v, k>>
      PROVE  Knows(w, v, k) \/ Hears
  <2>1. CASE peerConnections'[w][n] = peerConnections[w][n]
    BY <1>4, <2>1 DEF Knows
  <2>2. ASSUME NEW m \in Keys, NEW local, NEW remote \in Body, AddPeer(u, m, local, remote),
               remote # NoSdp => remote = peerSdps[u][m],
               peerConnections'[w][n] # peerConnections[w][n]
        PROVE  Knows(w, v, k)
    <3>1. w = u /\ n = m /\ peerConnections'[w][n].remote = remote
      BY <1>1, <2>2 DEF AddPeer, FreshConn
    <3> QED
      BY <1>4, <2>2, <3>1 DEF Knows
  <2>3. ASSUME NEW m \in Keys, NEW c \in Conn, peerConnections[u][m] # NoConn,
               peerConnections' = [peerConnections EXCEPT ![u][m] = c],
               \/ c.remote = peerConnections[u][m].remote
               \/ AnswerReceived(u) /\ c.remote = Head(gui[u]).body,
               peerConnections'[w][n] # peerConnections[w][n]
        PROVE  Knows(w, v, k) \/ Hears
    <3>1. w = u /\ n = m /\ peerConnections'[w][n] = c
      BY <1>1, <2>3
    <3> QED
      BY <1>4, <2>3, <3>1 DEF Knows
  <2> QED
    BY <2>1, <2>2, <2>3, EntrySteps DEF Replaces
<1> QED
  BY <1>2, <1>3, <1>4

----------------------------------------------------------------------------
(* Each step as a step of the four queues. *)

LEMMA FourShifted ==
    ASSUME NEW x1, NEW x2, NEW x3, NEW x4, NEW y1, NEW y2, NEW y3, NEW y4,
           NEW J1, NEW J2, NEW J3, NEW J4,
           NEW c1 \in {0, 1}, NEW c2 \in {0, 1}, NEW c3 \in {0, 1}, NEW c4 \in {0, 1},
           Rest(x1, y1, J1, c1) \/ (c1 = 0 /\ c2 = 1 /\ Handed(x1, y1, J1, x2, J2)),
           Rest(x2, y2, J2, c2) \/ (c2 = 0 /\ c3 = 1 /\ Handed(x2, y2, J2, x3, J3)),
           Rest(x3, y3, J3, c3) \/ (c3 = 0 /\ c4 = 1 /\ Handed(x3, y3, J3, x4, J4)),
           Rest(x4, y4, J4, c4)
    PROVE  Shifted(<<x1, x2, x3, x4>>, <<y1, y2, y3, y4>>, <<J1, J2, J3, J4>>)
<1> DEFINE cut == <<c1, c2, c3, c4>>
           x == <<x1, x2, x3, x4>>
           y == <<y1, y2, y3, y4>>
           J == <<J1, J2, J3, J4>>
<1>1. cut \in [1..4 -> {0, 1}]
  OBVIOUS
<1>2. ASSUME NEW s \in 1..4
      PROVE  \/ Rest(x[s], y[s], J[s], cut[s])
             \/ s # 4 /\ cut[s] = 0 /\ cut[s + 1] = 1 /\ Handed(x[s], y[s], J[s], x[s + 1], J[s + 1])
  <2>1. CASE s = 1
    BY <2>1
  <2>2. CASE s = 2
    BY <2>2
  <2>3. CASE s = 3
    BY <2>3
  <2>4. CASE s = 4
    BY <2>4
  <2> QED
    BY <2>1, <2>2, <2>3, <2>4
<1> QED
  BY <1>1, <1>2 DEF Shifted

LEMMA SocketOfLink ==
    ASSUME IInv, NEW u \in Users, link[u] # 0
    PROVE  Socket(u) \in Sockets /\ link[u] \in Links
<1>1. link[u] \in 0..MaxLinks /\ MaxLinks \in Nat
  BY CallAssumption DEF IInv, CallTypeOK
<1>2. link[u] \in Links
  BY <1>1 DEF Links
<1> QED
  BY <1>2 DEF Socket, Sockets

LEMMA QueuesTyped ==
    ASSUME IInv, NEW v \in Users, NEW u \in Users
    PROVE  /\ gui[u] \in Seq(Event) /\ gui[v] \in Seq(Event) /\ up[v] \in Seq(Request)
           /\ InboxOf(u) \in Seq(Server!Forward)
           /\ Row(Queues(v, u))
<1>1. gui[u] \in Seq(Event) /\ gui[v] \in Seq(Event) /\ up[v] \in Seq(Request)
  BY DEF IInv, CallTypeOK
<1>2. InboxOf(u) \in Seq(Server!Forward)
  <2>1. CASE link[u] = 0
    BY <2>1 DEF InboxOf
  <2>2. CASE link[u] # 0
    <3>1. Socket(u) \in Sockets
      BY <2>2, SocketOfLink
    <3> QED
      BY <2>2, <3>1 DEF InboxOf, IInv, CallTypeOK, Server!ServerTypeOK
  <2> QED
    BY <2>1, <2>2
<1>3. Row(Queues(v, u))
  <2>1. ASSUME NEW s \in 1..4 PROVE \E S : Queues(v, u)[s] \in Seq(S)
    <3>1. CASE s = 1
      BY <1>1, <3>1 DEF Queues
    <3>2. CASE s = 2
      BY <1>2, <3>2 DEF Queues
    <3>3. CASE s = 3
      BY <1>1, <3>3 DEF Queues
    <3>4. CASE s = 4
      BY <1>1, <3>4 DEF Queues
    <3> QED
      BY <3>1, <3>2, <3>3, <3>4
  <2> QED
    BY <2>1 DEF Row
<1> QED
  BY <1>1, <1>2, <1>3

\* Items have numbers of peer connections.
LEMMA ItemsNumbered ==
    ASSUME NEW v \in Users, NEW n, NEW s \in 1..4, NEW m \in Items(v, n)[s]
    PROVE  Number(m) \in 1..MaxMade
<1>1. m.body \in Sdp
  <2>1. CASE s = 1
    BY <2>1 DEF Items, Heard, Event, Body
  <2>2. CASE s = 2
    BY <2>2 DEF Items, Forwarded, Server!Forward, Body
  <2>3. CASE s = 3
    BY <2>3 DEF Items, Requested, Request, Body
  <2>4. CASE s = 4
    BY <2>4 DEF Items, Ready, Event, Body
  <2> QED
    BY <2>1, <2>2, <2>3, <2>4
<1> QED
  BY <1>1 DEF Number, Sdp, Pc

\* An event without a description.
Plain(e) == e.op \notin {"offerReceived", "answerReceived", "offerIsReady", "answerIsReady"}

LEMMA PlainPosted ==
    ASSUME CallTypeOK, NEW a \in Users, NEW es \in Seq(Event), Post(a, es),
           \A i \in 1..Len(es) : Plain(es[i]), NEW w \in Users, NEW v, NEW n
    PROVE  Rest(gui[w], gui'[w], Heard(v), 0) /\ Rest(gui[w], gui'[w], Ready(n), 0)
<1>1. gui \in [Users -> Seq(Event)] /\ gui' = [gui EXCEPT ![a] = gui[a] \o es]
  BY DEF CallTypeOK, Post
<1>2. gui[w] \in Seq(Event) /\ gui[a] \in Seq(Event)
  BY <1>1
<1>3. \A i \in 1..Len(es) : es[i] \notin Heard(v) /\ es[i] \notin Ready(n)
  BY DEF Plain, Heard, Ready
<1>4. CASE w = a
  <2>1. gui'[w] = gui[a] \o es
    BY <1>1, <1>4
  <2> QED
    BY <1>2, <1>3, <1>4, <2>1, RestConcat
<1>5. CASE w # a
  <2>1. gui'[w] = gui[w]
    BY <1>1, <1>5
  <2> QED
    BY <1>2, <2>1, RestFacts
<1> QED
  BY <1>4, <1>5

LEMMA PlainQueued ==
    ASSUME NEW op \in {"endConnection", "connectionReady", "rejectReceived"},
           NEW n \in Keys, NEW body \in Body
    PROVE  /\ Queued(op, n, body) \in Seq(Event)
           /\ \A i \in 1..Len(Queued(op, n, body)) : Plain(Queued(op, n, body)[i])
<1> DEFINE e == [op |-> op, peer |-> n, body |-> body]
<1>1. e \in Event /\ Plain(e)
  BY DEF Event, Ops, Plain
<1> HIDE DEF e
<1>2. <<e>> \in Seq(Event) /\ \A i \in 1..Len(<<e>>) : <<e>>[i] = e
  BY <1>1
<1> QED
  BY <1>1, <1>2 DEF e, Queued

LEMMA PlainClosed ==
    ASSUME NEW c
    PROVE  ClosedBy(c) \in Seq(Event) /\ \A i \in 1..Len(ClosedBy(c)) : Plain(ClosedBy(c)[i])
<1>1. CASE IsOpen(c)
  BY <1>1, PlainQueued DEF ClosedBy, Keys, Body
<1>2. CASE ~IsOpen(c)
  BY <1>2 DEF ClosedBy
<1> QED
  BY <1>1, <1>2

LEMMA GuiConsumed ==
    ASSUME CallTypeOK, NEW a \in Users, gui[a] # <<>>, Consume(a), NEW w \in Users, NEW J
    PROVE  Rest(gui[w], gui'[w], J, IF w = a THEN 1 ELSE 0)
<1>1. gui \in [Users -> Seq(Event)] /\ gui' = [gui EXCEPT ![a] = Tail(gui[a])]
  BY DEF CallTypeOK, Consume
<1>2. gui[w] \in Seq(Event)
  BY <1>1
<1>3. CASE w = a
  <2>1. gui'[w] = Tail(gui[w])
    BY <1>1, <1>3
  <2> QED
    BY <1>2, <1>3, <2>1, RestFacts
<1>4. CASE w # a
  <2>1. gui'[w] = gui[w]
    BY <1>1, <1>4
  <2> QED
    BY <1>2, <1>4, <2>1, RestFacts
<1> QED
  BY <1>3, <1>4

\* Posting events without descriptions, emitting requests without one.
LEMMA QuietShift ==
    ASSUME IInv, NEW a \in Users, UNCHANGED <<serverVars, link>>,
           \/ UNCHANGED gui
           \/ \E es \in Seq(Event) : Post(a, es) /\ \A i \in 1..Len(es) : Plain(es[i]),
           \/ UNCHANGED up
           \/ \E kind \in {"register", "reject"} : \E n \in Keys : Emit(a, kind, n, NoSdp),
           NEW v \in Users, NEW u \in Users, NEW n
    PROVE  Shifted(Queues(v, u), Queues(v, u)', Items(v, n))
<1>1. /\ gui[u] \in Seq(Event) /\ gui[v] \in Seq(Event) /\ up[v] \in Seq(Request)
      /\ InboxOf(u) \in Seq(Server!Forward)
  BY QueuesTyped
<1>2. Rest(gui[u], gui'[u], Heard(v), 0) /\ Rest(gui[v], gui'[v], Ready(n), 0)
  BY <1>1, RestFacts, PlainPosted DEF IInv
<1>3. InboxOf(u)' = InboxOf(u)
  BY DEF InboxOf, Socket, serverVars
<1>4. Rest(InboxOf(u), InboxOf(u)', Forwarded(v), 0)
  BY <1>1, <1>3, RestFacts
<1>5. Rest(up[v], up'[v], Requested(n), 0)
  <2>1. CASE UNCHANGED up
    BY <1>1, <2>1, RestFacts
  <2>2. ASSUME NEW kind \in {"register", "reject"}, NEW m \in Keys, Emit(a, kind, m, NoSdp)
        PROVE  Rest(up[v], up'[v], Requested(n), 0)
    <3> DEFINE e == [kind |-> kind, to |-> m, body |-> NoSdp]
    <3>1. e \in Request /\ e \notin Requested(n)
      BY DEF Request, Requested, Described, Kinds, Body
    <3>2. up \in [Users -> Seq(Request)] /\ up' = [up EXCEPT ![a] = Append(up[a], e)]
      BY <2>2 DEF Emit, IInv, CallTypeOK
    <3> HIDE DEF e
    <3>3. up'[v] = up[v] \/ up'[v] = Append(up[v], e)
      BY <3>2
    <3> QED
      BY <1>1, <3>1, <3>3, RestFacts, RestAppend
  <2> QED
    BY <2>1, <2>2
<1> QED
  BY <1>2, <1>4, <1>5, FourShifted DEF Queues, Items

\* A slot that sends nothing.
LEMMA ConsumeShift ==
    ASSUME IInv, NEW a \in Users, UNCHANGED <<serverVars, link, up>>, gui[a] # <<>>, Consume(a),
           NEW v \in Users, NEW u \in Users, NEW n
    PROVE  Shifted(Queues(v, u), Queues(v, u)', Items(v, n))
<1>1. up[v] \in Seq(Request) /\ InboxOf(u) \in Seq(Server!Forward)
  BY QueuesTyped
<1>2. /\ Rest(gui[u], gui'[u], Heard(v), IF u = a THEN 1 ELSE 0)
      /\ Rest(gui[v], gui'[v], Ready(n), IF v = a THEN 1 ELSE 0)
  BY GuiConsumed DEF IInv
<1>3. InboxOf(u)' = InboxOf(u)
  BY DEF InboxOf, Socket, serverVars
<1>4. Rest(InboxOf(u), InboxOf(u)', Forwarded(v), 0) /\ Rest(up[v], up'[v], Requested(n), 0)
  BY <1>1, <1>3, RestFacts
<1> QED
  BY <1>2, <1>4, FourShifted DEF Queues, Items

\* sendOffer and sendAnswer: from the event queue to what has been emitted.
LEMMA SendShift ==
    ASSUME IInv, NEW a \in Users, NEW op \in {"offerIsReady", "answerIsReady"},
           NEW kind \in Kinds, SendDescription(a, op, kind),
           NEW v \in Users, NEW u \in Users, NEW n
    PROVE  Shifted(Queues(v, u), Queues(v, u)', Items(v, n))
<1> DEFINE e == Head(gui[a])
           m == [kind |-> kind, to |-> e.peer, body |-> e.body]
<1>1. up[v] \in Seq(Request) /\ up[a] \in Seq(Request) /\ InboxOf(u) \in Seq(Server!Forward)
  BY QueuesTyped
<1>2. gui[a] \in Seq(Event) /\ gui[a] # <<>> /\ e.op = op /\ Consume(a) /\ Emit(a, kind, e.peer, e.body)
  BY QueuesTyped DEF SendDescription, NextEvent
<1>3. e \in Event
  BY <1>2, TailElements
<1>4. m \in Request /\ (m \in Requested(n) => e \in Ready(n) /\ Number(m) = Number(e))
  BY <1>2, <1>3 DEF Event, Request, Requested, Ready, Number
<1>5. up' = [up EXCEPT ![a] = Append(up[a], m)] /\ up \in [Users -> Seq(Request)]
  BY <1>2 DEF Emit, IInv, CallTypeOK
<1>6. /\ Rest(gui[u], gui'[u], Heard(v), IF u = a THEN 1 ELSE 0)
      /\ Rest(gui[v], gui'[v], Ready(n), IF v = a THEN 1 ELSE 0)
  BY <1>2, GuiConsumed DEF IInv
<1>7. InboxOf(u)' = InboxOf(u)
  BY DEF SendDescription, InboxOf, Socket, serverVars
<1>8. Rest(InboxOf(u), InboxOf(u)', Forwarded(v), 0)
  BY <1>1, <1>7, RestFacts
<1> HIDE DEF e, m
<1>9. CASE v = a
  <2>1. up'[v] = Append(up[v], m)
    BY <1>5, <1>9
  <2>2. Handed(up[v], up'[v], Requested(n), gui[v], Ready(n))
    BY <1>1, <1>2, <1>4, <1>9, <2>1, HandedAppend DEF e
  <2> QED
    BY <1>6, <1>8, <1>9, <2>2, FourShifted DEF Queues, Items
<1>10. CASE v # a
  <2>1. up'[v] = up[v]
    BY <1>5, <1>10
  <2>2. Rest(up[v], up'[v], Requested(n), 0)
    BY <1>1, <2>1, RestFacts
  <2> QED
    BY <1>6, <1>8, <1>10, <2>2, FourShifted DEF Queues, Items
<1> QED
  BY <1>9, <1>10

\* The connection of a user who comes back is a new one.
LEMMA LinkUpShift ==
    ASSUME IInv, ClientInv, NEW a \in Users, LinkUp(a),
           NEW v \in Users, NEW u \in Users, NEW n
    PROVE  Shifted(Queues(v, u), Queues(v, u)', Items(v, n))
<1>1. /\ gui[u] \in Seq(Event) /\ gui[v] \in Seq(Event) /\ up[v] \in Seq(Request)
      /\ InboxOf(u) \in Seq(Server!Forward)
  BY QueuesTyped
<1>2. UNCHANGED <<gui, up, inbox>> /\ link' = [link EXCEPT ![a] = link[a] + 1]
  BY DEF LinkUp, Server!Connect
<1>3. link \in [Users -> 0..MaxLinks] /\ MaxLinks \in Nat /\ link[a] < MaxLinks
  BY CallAssumption DEF LinkUp, IInv, CallTypeOK
<1>4. Rest(InboxOf(u), InboxOf(u)', Forwarded(v), 0)
  <2>1. CASE u = a
    <3>1. link'[u] = link[u] + 1 /\ link[u] + 1 \in Links /\ link[u] + 1 # 0 /\ link[u] + 1 > link[u]
      BY <1>2, <1>3, <2>1 DEF Links
    <3>2. IsNew(<<u, link[u] + 1>>)
      BY <3>1 DEF ClientInv, FreshLinks
    <3>3. InboxOf(u)' = <<>>
      BY <1>2, <3>1, <3>2 DEF InboxOf, Socket, IsNew
    <3> QED
      BY <1>1, <3>3, RestFacts
  <2>2. CASE u # a
    <3>1. link'[u] = link[u]
      BY <1>2, <1>3, <2>2
    <3>2. InboxOf(u)' = InboxOf(u)
      BY <1>2, <3>1 DEF InboxOf, Socket
    <3> QED
      BY <1>1, <3>2, RestFacts
  <2> QED
    BY <2>1, <2>2
<1>5. /\ Rest(gui[u], gui'[u], Heard(v), 0) /\ Rest(gui[v], gui'[v], Ready(n), 0)
      /\ Rest(up[v], up'[v], Requested(n), 0)
  BY <1>1, <1>2, RestFacts
<1> QED
  BY <1>4, <1>5, FourShifted DEF Queues, Items

\* What a broken connection loses.
LEMMA LossShift ==
    ASSUME IInv, NEW a \in Users, LinkLost(a) \/ \E k \in Links : ServerDisconnects(a, k),
           NEW v \in Users, NEW u \in Users, NEW n
    PROVE  Shifted(Queues(v, u), Queues(v, u)', Items(v, n))
<1>1. /\ gui[u] \in Seq(Event) /\ gui[v] \in Seq(Event) /\ up[v] \in Seq(Request)
      /\ InboxOf(u) \in Seq(Server!Forward)
  BY QueuesTyped
<1>2. UNCHANGED <<gui, link>>
  BY DEF LinkLost, ServerDisconnects, linkVars
<1>3. up'[v] = up[v] \/ up'[v] = <<>>
  BY DEF LinkLost, ServerDisconnects, linkVars, IInv, CallTypeOK
<1>4. InboxOf(u)' = InboxOf(u) \/ InboxOf(u)' = <<>>
  <2>1. CASE LinkLost(a)
    BY <2>1 DEF LinkLost, InboxOf, Socket, serverVars
  <2>2. ASSUME NEW k \in Links, ServerDisconnects(a, k)
        PROVE  InboxOf(u)' = InboxOf(u) \/ InboxOf(u)' = <<>>
    <3>1. \A s \in Sockets : inbox'[s] = inbox[s] \/ inbox'[s] = <<>>
      BY <2>2 DEF ServerDisconnects, Server!Disconnect, IInv, CallTypeOK, Server!ServerTypeOK
    <3>2. link[u] # 0 => Socket(u) \in Sockets
      BY SocketOfLink
    <3> QED
      BY <1>2, <3>1, <3>2 DEF InboxOf, Socket
  <2> QED
    BY <2>1, <2>2
<1>5. /\ Rest(gui[u], gui'[u], Heard(v), 0) /\ Rest(gui[v], gui'[v], Ready(n), 0)
      /\ Rest(up[v], up'[v], Requested(n), 0)
      /\ Rest(InboxOf(u), InboxOf(u)', Forwarded(v), 0)
  BY <1>1, <1>2, <1>3, <1>4, RestFacts
<1> QED
  BY <1>5, FourShifted DEF Queues, Items

\* The client takes a message from its connection into its event queue.
LEMMA DeliverShift ==
    ASSUME IInv, NEW a \in Users, ClientHandles(a),
           NEW v \in Users, NEW u \in Users, NEW n
    PROVE  Shifted(Queues(v, u), Queues(v, u)', Items(v, n))
<1> DEFINE m == Head(InboxOf(a))
           e == [op |-> SlotOf[m.kind], peer |-> m.from, body |-> m.body]
<1>1. /\ gui[u] \in Seq(Event) /\ gui[v] \in Seq(Event) /\ up[v] \in Seq(Request)
      /\ InboxOf(u) \in Seq(Server!Forward) /\ InboxOf(a) \in Seq(Server!Forward)
  BY QueuesTyped
<1>2. link[a] \in Links /\ link[a] # 0 /\ Socket(a) \in Sockets
  BY DEF ClientHandles, IInv, LinkedByLink, Links, Socket, Sockets
<1>3. /\ InboxOf(a) = inbox[Socket(a)] /\ InboxOf(a) # <<>>
      /\ inbox' = [inbox EXCEPT ![Socket(a)] = Tail(inbox[Socket(a)])]
      /\ UNCHANGED <<link, up>>
  BY <1>2 DEF ClientHandles, InboxOf, Server!Deliver, linkVars
<1>4. m \in Server!Forward /\ GoodForward(m)
  <2>1. m \in Server!Forward /\ 1 \in 1..Len(InboxOf(a)) /\ m = InboxOf(a)[1]
    BY <1>1, <1>3, TailElements
  <2> QED
    BY <1>2, <1>3, <2>1 DEF IInv, Forwards
<1>5. Rest(InboxOf(u), InboxOf(u)', Forwarded(v), IF u = a THEN 1 ELSE 0)
  <2>1. inbox \in [Sockets -> Seq(Server!Forward)]
    BY DEF IInv, CallTypeOK, Server!ServerTypeOK
  <2>2. CASE u = a
    <3>1. InboxOf(u)' = Tail(InboxOf(u))
      BY <1>2, <1>3, <2>1, <2>2 DEF InboxOf, Socket
    <3> QED
      BY <1>1, <1>3, <2>2, <3>1, RestFacts
  <2>3. CASE u # a
    <3>1. Socket(u) # Socket(a)
      BY <2>3 DEF Socket
    <3>2. link[u] # 0 => Socket(u) \in Sockets
      BY SocketOfLink
    <3>3. InboxOf(u)' = InboxOf(u)
      BY <1>3, <2>1, <3>1, <3>2 DEF InboxOf, Socket
    <3> QED
      BY <1>1, <2>3, <3>3, RestFacts
  <2> QED
    BY <2>2, <2>3
<1>6. Rest(up[v], up'[v], Requested(n), 0)
  BY <1>1, <1>3, RestFacts
<1>7. CASE m.from = NoName
  <2>1. UNCHANGED gui
    BY <1>3, <1>7 DEF ClientHandles
  <2>2. Rest(gui[u], gui'[u], Heard(v), 0) /\ Rest(gui[v], gui'[v], Ready(n), 0)
    BY <1>1, <2>1, RestFacts
  <2> QED
    BY <1>5, <1>6, <2>2, FourShifted DEF Queues, Items
<1>8. CASE m.from # NoName
  <2>1. m.from \in Names /\ m.body \in Body /\ m.kind \in Kinds
    BY <1>4, <1>8 DEF Server!Forward, GoodForward
  <2>2. /\ SlotOf[m.kind] \in Ops \ {"offerIsReady", "answerIsReady"}
        /\ SlotOf[m.kind] \in {"offerReceived", "answerReceived"} => m.kind \in Described
    BY <2>1 DEF Kinds, SlotOf, Ops, Described
  <2>3. e \in Event /\ e \notin Ready(n)
    BY <2>1, <2>2 DEF Event, Keys, Ready
  <2>4. e \in Heard(v) => m \in Forwarded(v) /\ Number(e) = Number(m)
    BY <1>4, <1>8, <2>2 DEF Heard, Forwarded, Number
  <2>5. Post(a, <<e>>)
    BY <1>3, <1>8 DEF ClientHandles, Queued
  <2> HIDE DEF e, m
  <2>6. gui' = [gui EXCEPT ![a] = gui[a] \o <<e>>] /\ gui \in [Users -> Seq(Event)]
    BY <2>5 DEF Post, IInv, CallTypeOK
  <2>7. gui[a] \o <<e>> = Append(gui[a], e)
    BY <2>3, <2>6
  <2>8. Rest(gui[v], gui'[v], Ready(n), 0)
    <3>1. gui'[v] = gui[v] \/ gui'[v] = Append(gui[v], e)
      BY <2>6, <2>7
    <3> QED
      BY <1>1, <2>3, <3>1, RestFacts, RestAppend
  <2>9. CASE u = a
    <3>1. gui'[u] = Append(gui[u], e)
      BY <2>6, <2>7, <2>9
    <3>2. Handed(gui[u], gui'[u], Heard(v), InboxOf(u), Forwarded(v))
      BY <1>1, <1>3, <2>3, <2>4, <2>9, <3>1, HandedAppend DEF m
    <3> QED
      BY <1>5, <1>6, <2>8, <2>9, <3>2, FourShifted DEF Queues, Items
  <2>10. CASE u # a
    <3>1. gui'[u] = gui[u]
      BY <2>6, <2>10
    <3>2. Rest(gui[u], gui'[u], Heard(v), 0)
      BY <1>1, <3>1, RestFacts
    <3> QED
      BY <1>5, <1>6, <2>8, <2>10, <3>2, FourShifted DEF Queues, Items
  <2> QED
    BY <2>9, <2>10
<1> QED
  BY <1>7, <1>8

\* The server takes a request and relays it, to the user who goes by the name.
LEMMA RelayShift ==
    ASSUME IInv, Server!DirectoryLive, NEW a \in Users, ServerHandles(a),
           NEW v \in Users, NEW u \in Users, NEW n \in Keys, username[u] \in {n, NoName}
    PROVE  Shifted(Queues(v, u), Queues(v, u)', Items(v, n))
<1> DEFINE m == Head(up[a])
           f == [kind |-> m.kind, from |-> peerNames[Socket(a)], body |-> m.body]
           t == Server!Target(m.to)
<1>1. /\ gui[u] \in Seq(Event) /\ gui[v] \in Seq(Event) /\ up[v] \in Seq(Request)
      /\ InboxOf(u) \in Seq(Server!Forward) /\ up[a] \in Seq(Request)
  BY QueuesTyped
<1>2. /\ up[a] # <<>> /\ UNCHANGED <<link, gui>>
      /\ up' = [up EXCEPT ![a] = Tail(up[a])] /\ up \in [Users -> Seq(Request)]
      /\ Socket(a) \in Sockets
  BY DEF ServerHandles, IInv, CallTypeOK, LinkedByLink, Socket, Sockets
<1>3. m \in Request /\ GoodRequest(a, username[a], m)
  <2>1. m \in Request /\ 1 \in 1..Len(up[a]) /\ m = up[a][1]
    BY <1>1, <1>2, TailElements
  <2> QED
    BY <2>1 DEF IInv, Requests
<1>4. Rest(up[v], up'[v], Requested(n), IF v = a THEN 1 ELSE 0)
  <2>1. CASE v = a
    <3>1. up'[v] = Tail(up[v])
      BY <1>2, <2>1
    <3> QED
      BY <1>1, <1>2, <2>1, <3>1, RestFacts
  <2>2. CASE v # a
    <3>1. up'[v] = up[v]
      BY <1>2, <2>2
    <3> QED
      BY <1>1, <2>2, <3>1, RestFacts
  <2> QED
    BY <2>1, <2>2
<1>5. Rest(gui[u], gui'[u], Heard(v), 0) /\ Rest(gui[v], gui'[v], Ready(n), 0)
  BY <1>1, <1>2, RestFacts
<1>6. CASE InboxOf(u)' = InboxOf(u)
  <2>1. Rest(InboxOf(u), InboxOf(u)', Forwarded(v), 0)
    BY <1>1, <1>6, RestFacts
  <2> QED
    BY <1>4, <1>5, <2>1, FourShifted DEF Queues, Items
<1>7. CASE InboxOf(u)' # InboxOf(u)
  <2>1. m.kind # "register"
    <3>1. CASE m.kind = "register"
      <4>1. UNCHANGED <<inbox, link>>
        BY <3>1 DEF ServerHandles, Server!Register
      <4> QED
        BY <1>7, <4>1 DEF InboxOf, Socket
    <3> QED
      BY <3>1
  <2>2. Server!Relay(Socket(a), m.kind, m.to, m.body)
    BY <2>1 DEF ServerHandles
  <2>3. /\ inbox' = [inbox EXCEPT ![t] = Append(inbox[t], f)]
        /\ m.to \in Names /\ t = peerIds[m.to] /\ t # NoSocket
    BY <1>2, <1>7, <2>2
       DEF Server!Relay, Server!Delivered, Server!Target, InboxOf, Socket
  <2>4. inbox \in [Sockets -> Seq(Server!Forward)] /\ peerNames \in [Sockets -> Names \cup {NoName}]
    BY DEF IInv, CallTypeOK, Server!ServerTypeOK
  <2>5. link[u] # 0 /\ t = Socket(u) /\ InboxOf(u)' = Append(InboxOf(u), f) /\ Socket(u) \in Sockets
    <3>1. link[u] # 0
      BY <1>2, <1>7 DEF InboxOf
    <3>2. Socket(u) \in Sockets
      BY <3>1, SocketOfLink
    <3>3. InboxOf(u) = inbox[Socket(u)] /\ InboxOf(u)' = inbox'[Socket(u)]
      BY <1>2, <3>1 DEF InboxOf, Socket
    <3>4. t = Socket(u)
      BY <1>7, <2>3, <2>4, <3>2, <3>3
    <3> QED
      BY <2>3, <2>4, <3>1, <3>2, <3>3, <3>4
  <2>6. peerNames[Socket(u)] = m.to
    BY <2>3, <2>5 DEF Server!DirectoryLive
  <2>7. username[u] = m.to /\ m.to = n
    <3>1. link[u] \in Links
      BY <2>5 DEF Socket, Sockets
    <3>2. m.to # NoName
      BY <2>3, CallAssumption DEF Keys
    <3> QED
      BY <2>6, <3>1, <3>2 DEF IInv, Stamped, Socket
  <2>8. f \in Server!Forward
    BY <1>2, <1>3, <2>1, <2>4 DEF Request, Kinds, Server!Kinds, Server!Forward
  <2>9. f \in Forwarded(v) => v = a /\ m \in Requested(n) /\ Number(f) = Number(m)
    BY <1>3, <2>7 DEF Forwarded, Requested, GoodRequest, Number
  <2> HIDE DEF f, m, t
  <2>10. CASE v = a
    <3>1. Handed(InboxOf(u), InboxOf(u)', Forwarded(v), up[v], Requested(n))
      BY <1>1, <1>2, <2>5, <2>8, <2>9, <2>10, HandedAppend DEF m
    <3> QED
      BY <1>4, <1>5, <2>10, <3>1, FourShifted DEF Queues, Items
  <2>11. CASE v # a
    <3>1. Rest(InboxOf(u), InboxOf(u)', Forwarded(v), 0)
      BY <1>1, <2>5, <2>8, <2>9, <2>11, RestAppend
    <3> QED
      BY <1>4, <1>5, <2>11, <3>1, FourShifted DEF Queues, Items
  <2> QED
    BY <2>10, <2>11
<1> QED
  BY <1>6, <1>7

----------------------------------------------------------------------------
(* Descriptions stay in order. *)

\* Orderly after a step, from what holds of the queues after it.
LEMMA OrderlyAfter ==
    ASSUME NEW v \in Users, NEW u \in Users, NEW n \in Keys,
           Ordered(Queues(v, u)', Items(v, n)),
           \A k \in 1..MaxMade :
              /\ UnderWay(Queues(v, u)', Items(v, n), k) =>
                    /\ MadeBy(v, n, k)'
                    /\ \A j \in 1..MaxMade : Knows(u, v, j)' => j < k
              /\ Knows(u, v, k)' => MadeBy(v, n, k)'
    PROVE  Orderly(v, u, n)'
<1>1. Items(v, n)' = Items(v, n)
  BY DEF Items, Heard, Forwarded, Requested, Ready, Event, Request, Server!Forward, Server!Kinds,
         Described, Kinds, Keys, Ops, Body, Sdp, Pc
<1>2. Ordered(Queues(v, u), Items(v, n))'
  BY <1>1 DEF Ordered, Precedes, Number
<1>3. \A k \in 1..MaxMade :
          UnderWay(Queues(v, u), Items(v, n), k)' = UnderWay(Queues(v, u)', Items(v, n), k)
  BY <1>1 DEF UnderWay, Number
<1> QED
  BY <1>2, <1>3 DEF Orderly

LEMMA MadeByKept ==
    ASSUME IInv, Grows, IInv', NEW v \in Users, NEW n \in Keys, NEW k \in 1..MaxMade, MadeBy(v, n, k)
    PROVE  MadeBy(v, n, k)'
<1> DEFINE c == peerConnections[v][n]
           d == peerConnections'[v][n]
<1>1. c \in Conn /\ c # NoConn /\ k <= c.id /\ (k = c.id => c.gathered)
  BY DEF MadeBy, IInv, CallTypeOK
<1>2. d # NoConn /\ ((d.id = c.id /\ (c.gathered => d.gathered)) \/ c.id < d.id)
  BY <1>1 DEF Grows
<1>3. peerConnections' \in [Users -> [Keys -> Conn \cup {NoConn}]]
  BY DEF IInv, CallTypeOK, Keys, Conn, Body, Sdp, Pc
<1>4. d \in Conn
  BY <1>2, <1>3
<1>5. c.id \in Nat /\ d.id \in Nat
  BY <1>1, <1>4 DEF Conn
<1> QED
  BY <1>1, <1>2, <1>5 DEF MadeBy

LEMMA RowsTyped ==
    ASSUME IInv, IInv', NEW v \in Users, NEW u \in Users
    PROVE  Row(Queues(v, u)) /\ Row(Queues(v, u)')
<1>1. /\ gui' \in [Users -> Seq(Event)] /\ up' \in [Users -> Seq(Request)]
      /\ link' \in [Users -> 0..MaxLinks] /\ MaxLinks \in Nat
      /\ inbox' \in [Sockets -> Seq(Server!Forward)]
  BY CallAssumption DEF IInv, CallTypeOK, Server!ServerTypeOK
<1>2. link'[u] # 0 => <<u, link'[u]>> \in Sockets
  BY <1>1 DEF Sockets, Links
<1>3. InboxOf(u)' \in Seq(Server!Forward)
  BY <1>1, <1>2 DEF InboxOf, Socket
<1>4. ASSUME NEW s \in 1..4 PROVE \E S : Queues(v, u)'[s] \in Seq(S)
  <2>1. CASE s = 1
    BY <1>1, <2>1 DEF Queues
  <2>2. CASE s = 2
    BY <1>3, <2>2 DEF Queues
  <2>3. CASE s = 3
    BY <1>1, <2>3 DEF Queues
  <2>4. CASE s = 4
    BY <1>1, <2>4 DEF Queues
  <2> QED
    BY <2>1, <2>2, <2>3, <2>4
<1> QED
  BY <1>4, QueuesTyped DEF Row

\* A step of the four queues, unless it is the slot of a description of v.
LEMMA ShiftOrderly ==
    ASSUME IInv, IInv', Grows, NEW a \in Users, Acts(a),
           NEW v \in Users, NEW u \in Users, NEW n \in Keys,
           Orderly(v, u, n), Shifted(Queues(v, u), Queues(v, u)', Items(v, n)),
           \A k \in 1..MaxMade : Knows(u, v, k)' => Knows(u, v, k)
    PROVE  Orderly(v, u, n)'
<1>2. /\ Ordered(Queues(v, u)', Items(v, n))
      /\ \A k : UnderWay(Queues(v, u)', Items(v, n), k) => UnderWay(Queues(v, u), Items(v, n), k)
  BY RowsTyped, ShiftKeepsOrder DEF Orderly
<1> QED
  BY <1>2, MadeByKept, OrderlyAfter DEF Orderly

\* GatherDone: the description of the newest peer connection joins the end.
LEMMA GatherOrderly ==
    ASSUME IInv, IInv', Grows, NEW a \in Users, NEW m \in Keys, GatherDone(a, m), Acts(a),
           NEW v \in Users, NEW u \in Users, NEW n \in Keys, Orderly(v, u, n),
           \A k \in 1..MaxMade : Knows(u, v, k)' => Knows(u, v, k)
    PROVE  Orderly(v, u, n)'
<1> DEFINE c == peerConnections[a][m]
           e == [op   |-> IF isOfferer[a] THEN "offerIsReady" ELSE "answerIsReady",
                 peer |-> m, body |-> [pc |-> <<a, c.id>>, kind |-> c.local]]
           q == Queues(v, u)
           r == Queues(v, u)'
           I == Items(v, n)
<1>0. c \in Conn /\ c # NoConn /\ ~c.gathered /\ c.local # "none"
  BY DEF GatherDone, IsOpen, IInv, CallTypeOK
<1>1. /\ c \in Conn /\ c # NoConn /\ ~c.gathered
      /\ c.local \in {"offer", "answer"} /\ c.id \in 1..MaxMade
  BY <1>0 DEF Conn
<1>2. e \in Event /\ Number(e) = c.id /\ e \notin Heard(v)
  BY <1>1 DEF Event, Ops, Body, Sdp, Pc, Number, Heard
<1>3. /\ gui[u] \in Seq(Event) /\ gui[v] \in Seq(Event) /\ up[v] \in Seq(Request)
      /\ InboxOf(u) \in Seq(Server!Forward)
  BY QueuesTyped
<1>4. gui' = [gui EXCEPT ![a] = Append(gui[a], e)] /\ gui \in [Users -> Seq(Event)]
  <2>1. gui' = [gui EXCEPT ![a] = gui[a] \o <<e>>]
    BY DEF GatherDone, Post, Queued
  <2>2. gui \in [Users -> Seq(Event)]
    BY DEF IInv, CallTypeOK
  <2> HIDE DEF e
  <2>3. gui[a] \o <<e>> = Append(gui[a], e)
    BY <1>2, <2>2
  <2> QED
    BY <2>1, <2>2, <2>3
<1>5. UNCHANGED <<serverVars, link, up>>
  BY DEF GatherDone, linkVars
<1> HIDE DEF e
<1>6. /\ Rest(InboxOf(u), InboxOf(u)', Forwarded(v), 0) /\ Rest(up[v], up'[v], Requested(n), 0)
      /\ Rest(gui[u], gui'[u], Heard(v), 0)
  <2>1. InboxOf(u)' = InboxOf(u)
    BY <1>5 DEF InboxOf, Socket, serverVars
  <2>2. gui'[u] = gui[u] \/ gui'[u] = Append(gui[u], e)
    BY <1>4
  <2> QED
    BY <1>2, <1>3, <1>5, <2>1, <2>2, RestFacts, RestAppend
<1>7. CASE v = a /\ n = m
  <2>1. gui'[v] = Append(gui[v], e)
    BY <1>4, <1>7
  <2>2. \A i \in 1..Len(gui'[v]) : gui'[v][i] \in Ready(n) =>
            \/ i \in 1..Len(gui[v]) /\ gui'[v][i] = gui[v][i]
            \/ i = Len(gui'[v]) /\ Number(gui'[v][i]) = c.id
    BY <1>2, <1>3, <2>1
  <2>3. ASSUME NEW k \in 1..MaxMade, MadeBy(v, n, k) PROVE k < c.id
    BY <1>1, <1>7, <2>3 DEF MadeBy
  <2>4. ASSUME NEW s \in 1..4, NEW i \in 1..Len(q[s]), q[s][i] \in I[s]
        PROVE  Number(q[s][i]) < c.id
    <3>1. Number(q[s][i]) \in 1..MaxMade
      BY <2>4, ItemsNumbered
    <3>2. UnderWay(q, I, Number(q[s][i]))
      BY <2>4 DEF UnderWay
    <3> QED
      BY <2>3, <3>1, <3>2 DEF Orderly
  <2>5. \A s \in 1..3 : Rest(q[s], r[s], I[s], 0)
    <3>1. Rest(q[1], r[1], I[1], 0) /\ Rest(q[2], r[2], I[2], 0) /\ Rest(q[3], r[3], I[3], 0)
      BY <1>6 DEF Queues, Items
    <3> QED
      BY <3>1
  <2>6. \A i \in 1..Len(r[4]) : r[4][i] \in I[4] =>
            \/ i \in 1..Len(q[4]) /\ r[4][i] = q[4][i]
            \/ i = Len(r[4]) /\ Number(r[4][i]) = c.id
    BY <2>2 DEF Queues, Items
  <2>7. Row(q) /\ Row(r) /\ Ordered(q, I)
    BY RowsTyped DEF Orderly
  <2> HIDE DEF q, r, I
  <2>8. Ordered(r, I) /\ \A j : UnderWay(r, I, j) => j = c.id \/ UnderWay(q, I, j)
    BY <2>4, <2>5, <2>6, <2>7, JoinKeepsOrder
  <2>9. PICK h \in 1..MaxMade : h = c.id /\ MadeBy(v, n, h)'
    <3>0. PICK h \in 1..MaxMade : h = c.id
      BY <1>1
    <3>1. peerConnections'[v][n] = [c EXCEPT !.gathered = TRUE]
      BY <1>7 DEF GatherDone, IInv, CallTypeOK
    <3>2. /\ peerConnections'[v][n] \in Conn
          /\ peerConnections'[v][n].id = c.id /\ peerConnections'[v][n].gathered
      BY <1>1, <3>1 DEF Conn
    <3>3. h <= h /\ peerConnections'[v][n] # NoConn
      BY <3>2, CallAssumption
    <3>4. MadeBy(v, n, h)'
      BY <3>0, <3>2, <3>3 DEF MadeBy
    <3> QED
      BY <3>0, <3>4
  <2>10. ASSUME NEW k \in 1..MaxMade
         PROVE  /\ UnderWay(r, I, k) =>
                      /\ MadeBy(v, n, k)'
                      /\ \A j \in 1..MaxMade : Knows(u, v, j)' => j < k
                /\ Knows(u, v, k)' => MadeBy(v, n, k)'
    <3>1. UnderWay(r, I, k) => k = c.id \/ UnderWay(q, I, k)
      BY <2>8
    <3>2. UnderWay(q, I, k) => MadeBy(v, n, k) /\ \A j \in 1..MaxMade : Knows(u, v, j) => j < k
      BY DEF Orderly, q, I
    <3>3. \A j \in 1..MaxMade : Knows(u, v, j) => MadeBy(v, n, j) /\ j < c.id
      BY <2>3 DEF Orderly
    <3>4. MadeBy(v, n, k) => MadeBy(v, n, k)'
      BY MadeByKept
    <3>5. UnderWay(r, I, k) => MadeBy(v, n, k)'
      BY <2>9, <3>1, <3>2, <3>4
    <3>6. ASSUME UnderWay(r, I, k), NEW j \in 1..MaxMade, Knows(u, v, j)' PROVE j < k
      <4>1. Knows(u, v, j)
        BY <3>6
      <4>2. CASE k = c.id
        BY <3>3, <4>1, <4>2
      <4>3. CASE UnderWay(q, I, k)
        BY <3>2, <4>1, <4>3
      <4> QED
        BY <3>1, <3>6, <4>2, <4>3
    <3>7. Knows(u, v, k)' => MadeBy(v, n, k)'
      BY <3>3, <3>4
    <3> QED
      BY <3>5, <3>6, <3>7
  <2> QED
    BY <2>8, <2>10, OrderlyAfter DEF q, r, I
<1>8. CASE ~(v = a /\ n = m)
  <2>1. Rest(gui[v], gui'[v], Ready(n), 0)
    <3>1. CASE v = a
      <4>1. gui'[v] = Append(gui[v], e) /\ e \notin Ready(n)
        BY <1>4, <1>8, <3>1 DEF Ready, e
      <4> QED
        BY <1>2, <1>3, <4>1, RestAppend
    <3>2. CASE v # a
      <4>1. gui'[v] = gui[v]
        BY <1>4, <3>2
      <4> QED
        BY <1>3, <4>1, RestFacts
    <3> QED
      BY <3>1, <3>2
  <2>2. Shifted(Queues(v, u), Queues(v, u)', Items(v, n))
    BY <1>6, <2>1, FourShifted DEF Queues, Items
  <2> QED
    BY <2>2, ShiftOrderly
<1> QED
  BY <1>7, <1>8

\* The slots of offers and answers: what leaves the row is older than the rest.
LEMMA HeadIsOldest ==
    ASSUME NEW q, NEW r, NEW I, Row(q), Row(r), Ordered(q, I), NEW c \in [1..4 -> {0, 1}],
           c[1] = 1, \A s \in 1..4 : Rest(q[s], r[s], I[s], c[s]),
           q[1] # <<>>, Head(q[1]) \in I[1], NEW k, UnderWay(r, I, k)
    PROVE  Number(Head(q[1])) < k
<1>1. 1 \in 1..Len(q[1]) /\ Head(q[1]) = q[1][1]
  BY DEF Row
<1>2. PICK s \in 1..4 : \E i \in 1..Len(r[s]) : r[s][i] \in I[s] /\ Number(r[s][i]) = k
  BY DEF UnderWay
<1>3. PICK i \in 1..Len(r[s]) : r[s][i] \in I[s] /\ Number(r[s][i]) = k
  BY <1>2
<1>4. i \in Nat /\ i >= 1
  BY DEF Row
<1>5. i + c[s] \in 1..Len(q[s]) /\ r[s][i] = q[s][i + c[s]]
  BY <1>3 DEF Rest
<1>6. Precedes(1, 1, s, i + c[s])
  BY <1>4 DEF Precedes
<1>7. 1 \in 1..4 /\ q[1][1] \in I[1] /\ q[s][i + c[s]] \in I[s]
  BY <1>1, <1>3, <1>5
<1>8. Number(q[1][1]) < Number(q[s][i + c[s]])
  BY <1>1, <1>5, <1>6, <1>7 DEF Ordered
<1> QED
  BY <1>1, <1>3, <1>5, <1>8

LEMMA ReceiveOrderly ==
    ASSUME IInv, IInv', Grows, NEW a \in Users, OfferReceived(a) \/ AnswerReceived(a), Acts(a),
           NEW v \in Users, NEW u \in Users, NEW n \in Keys, Orderly(v, u, n)
    PROVE  Orderly(v, u, n)'
<1> DEFINE e == Head(gui[a])
<1>1. /\ gui[a] # <<>> /\ Consume(a) /\ UNCHANGED <<serverVars, link, up>>
      /\ e.op \in {"offerReceived", "answerReceived"} /\ UNCHANGED username
  BY DEF OfferReceived, AnswerReceived, NextEvent, linkVars
<1>2. Shifted(Queues(v, u), Queues(v, u)', Items(v, n))
  BY <1>1, ConsumeShift
<1>3. CASE \A k \in 1..MaxMade : Knows(u, v, k)' => Knows(u, v, k)
  BY <1>2, <1>3, ShiftOrderly
<1>4. CASE ~(\A k \in 1..MaxMade : Knows(u, v, k)' => Knows(u, v, k))
  <2> DEFINE q == Queues(v, u)
             r == Queues(v, u)'
             I == Items(v, n)
             h == Number(e)
             c == <<1, 0, 0, IF v = a THEN 1 ELSE 0>>
  <2>1. u = a /\ e.body.pc[1] = v
    BY <1>4, KnownByReceiving
  <2>2. e \in Event /\ GoodEvent(a, e)
    BY <1>1, TailElements, QueuesTyped DEF IInv, Events
  <2>3. e \in Heard(v) /\ e.body \in Sdp /\ h \in 1..MaxMade /\ e.body.pc = <<v, h>>
    <3>1. e.body \in Sdp
      BY <1>1, <2>2 DEF GoodEvent
    <3>2. e.body # NoSdp
      BY <3>1, CallAssumption
    <3>3. e.body.pc[2] \in 1..MaxMade /\ e.body.pc = <<v, e.body.pc[2]>>
      BY <2>1, <3>1 DEF Sdp, Pc
    <3> QED
      BY <1>1, <2>1, <2>2, <3>1, <3>2, <3>3 DEF Heard, Number
  <2>4. Row(q) /\ Row(r) /\ Ordered(q, I)
    BY RowsTyped DEF Orderly
  <2>5. q[1] = gui[a] /\ Head(q[1]) = e /\ e \in I[1] /\ q[1] # <<>>
    BY <1>1, <2>1, <2>3 DEF Queues, Items
  <2>6. c \in [1..4 -> {0, 1}] /\ c[1] = 1 /\ \A s \in 1..4 : Rest(q[s], r[s], I[s], c[s])
    <3>1. Rest(gui[u], gui'[u], Heard(v), 1)
      <4>1. Rest(gui[u], gui'[u], Heard(v), IF u = a THEN 1 ELSE 0)
        BY <1>1, GuiConsumed DEF IInv
      <4> QED
        BY <2>1, <4>1
    <3>2. Rest(gui[v], gui'[v], Ready(n), IF v = a THEN 1 ELSE 0)
      BY <1>1, GuiConsumed DEF IInv
    <3>3. InboxOf(u)' = InboxOf(u)
      BY <1>1 DEF InboxOf, Socket, serverVars
    <3>4. Rest(InboxOf(u), InboxOf(u)', Forwarded(v), 0) /\ Rest(up[v], up'[v], Requested(n), 0)
      BY <1>1, <3>3, QueuesTyped, RestFacts
    <3>5. /\ Rest(q[1], r[1], I[1], c[1]) /\ Rest(q[2], r[2], I[2], c[2])
          /\ Rest(q[3], r[3], I[3], c[3]) /\ Rest(q[4], r[4], I[4], c[4])
      BY <3>1, <3>2, <3>4 DEF Queues, Items
    <3>6. c \in [1..4 -> {0, 1}] /\ c[1] = 1
      OBVIOUS
    <3> HIDE DEF q, r, I, c
    <3>7. \A s \in 1..4 : Rest(q[s], r[s], I[s], c[s])
      BY <3>5
    <3> QED
      BY <3>6, <3>7
  <2>7. MadeBy(v, n, h) /\ UnderWay(q, I, h)
    <3>1. 1 \in 1..Len(q[1]) /\ e = q[1][1]
      BY <2>5, <1>1, QueuesTyped
    <3>2. UnderWay(q, I, h)
      BY <2>5, <3>1 DEF UnderWay
    <3> QED
      BY <2>3, <3>2 DEF Orderly
  <2>8. Ordered(r, I) /\ \A k : UnderWay(r, I, k) => UnderWay(q, I, k)
    BY <1>2, <2>4, ShiftKeepsOrder
  <2>9. \A k : UnderWay(r, I, k) => h < k
    <3> HIDE DEF q, r, I, c
    <3>1. ASSUME NEW k, UnderWay(r, I, k) PROVE Number(Head(q[1])) < k
      BY <2>4, <2>5, <2>6, <3>1, HeadIsOldest
    <3> QED
      BY <2>5, <3>1
  <2>10. \A k \in 1..MaxMade : Knows(u, v, k)' => Knows(u, v, k) \/ k = h
    <3>1. ASSUME NEW k \in 1..MaxMade, Knows(u, v, k)', ~Knows(u, v, k) PROVE k = h
      <4>1. e.body.pc = <<v, k>>
        BY <3>1, KnownByReceiving
      <4> QED
        BY <2>3, <4>1
    <3> QED
      BY <3>1
  <2>11. ASSUME NEW k \in 1..MaxMade
         PROVE  /\ UnderWay(r, I, k) =>
                      /\ MadeBy(v, n, k)'
                      /\ \A j \in 1..MaxMade : Knows(u, v, j)' => j < k
                /\ Knows(u, v, k)' => MadeBy(v, n, k)'
    <3>1. UnderWay(r, I, k) => UnderWay(q, I, k) /\ h < k
      BY <2>8, <2>9
    <3>2. UnderWay(q, I, k) => MadeBy(v, n, k) /\ \A j \in 1..MaxMade : Knows(u, v, j) => j < k
      BY DEF Orderly
    <3>3. Knows(u, v, k) => MadeBy(v, n, k)
      BY DEF Orderly
    <3>4. MadeBy(v, n, k) => MadeBy(v, n, k)'
      BY MadeByKept
    <3> HIDE DEF q, r, I, h
    <3> QED
      BY <2>7, <2>10, <3>1, <3>2, <3>3, <3>4
  <2> QED
    BY <2>8, <2>11, OrderlyAfter
<1> QED
  BY <1>3, <1>4

LEMMA ClickShift ==
    ASSUME IInv, NEW a \in Users, Click(a), NEW v \in Users, NEW u \in Users, NEW n
    PROVE  Shifted(Queues(v, u), Queues(v, u)', Items(v, n))
<1>1. UNCHANGED <<serverVars, link>>
  BY OffTheNetwork
<1>2. ASSUME NEW m \in Names, ClickSubmit(a, m)
      PROVE  Shifted(Queues(v, u), Queues(v, u)', Items(v, n))
  <2>1. UNCHANGED gui /\ Emit(a, "register", m, NoSdp) /\ m \in Keys
    BY <1>2 DEF ClickSubmit, Keys
  <2> QED
    BY <1>1, <2>1, QuietShift
<1>3. ASSUME NEW m \in Keys, ClickCall(a, m)
      PROVE  Shifted(Queues(v, u), Queues(v, u)', Items(v, n))
  <2>1. UNCHANGED up /\ Post(a, ClosedBy(peerConnections[a][m]))
    BY <1>3 DEF ClickCall, linkVars
  <2> QED
    BY <1>1, <2>1, QuietShift, PlainClosed
<1>4. CASE ClickEnd(a)
  <2>1. UNCHANGED up
    BY <1>4 DEF ClickEnd, linkVars
  <2>2. UNCHANGED gui \/ Post(a, ClosedBy(peerConnections[a][nameField[a]]))
    BY <1>4 DEF ClickEnd
  <2> QED
    BY <1>1, <2>1, <2>2, QuietShift, PlainClosed
<1>5. CASE ClickAccept(a)
  <2>1. UNCHANGED up
    BY <1>5 DEF ClickAccept, linkVars
  <2>2. UNCHANGED gui \/ Post(a, ClosedBy(peerConnections[a][popup[a]]))
    BY <1>5 DEF ClickAccept, AttachOffer
  <2> QED
    BY <1>1, <2>1, <2>2, QuietShift, PlainClosed
<1>6. CASE ClickReject(a)
  <2>1. UNCHANGED gui /\ Emit(a, "reject", popup[a], NoSdp) /\ popup[a] \in Keys
    BY <1>6 DEF ClickReject, IInv, CallTypeOK, Keys
  <2> QED
    BY <1>1, <2>1, QuietShift
<1> QED
  BY <1>2, <1>3, <1>4, <1>5, <1>6 DEF Click

LEMMA SlotShift ==
    ASSUME IInv, NEW a \in Users, Slot(a), NEW v \in Users, NEW u \in Users, NEW n
    PROVE  Shifted(Queues(v, u), Queues(v, u)', Items(v, n))
<1>1. CASE SendOffer(a) \/ SendAnswer(a)
  BY <1>1, SendShift DEF SendOffer, SendAnswer, Kinds
<1>2. CASE ~(SendOffer(a) \/ SendAnswer(a))
  <2>1. gui[a] # <<>> /\ Consume(a) /\ UNCHANGED <<serverVars, link, up>>
    BY <1>2 DEF Slot, OfferReceived, AnswerReceived, RejectReceived, ConnectionReady,
                EndConnection, NextEvent, linkVars
  <2> QED
    BY <2>1, ConsumeShift
<1> QED
  BY <1>1, <1>2

LEMMA MediaShift ==
    ASSUME IInv, NEW a \in Users, NEW m \in Keys, Media(a, m), ~GatherDone(a, m),
           NEW v \in Users, NEW u \in Users, NEW n
    PROVE  Shifted(Queues(v, u), Queues(v, u)', Items(v, n))
<1>1. UNCHANGED <<serverVars, link, up>>
  BY DEF Media, TrackReceived, PcConnected, PcClosed, PcFailed, linkVars
<1>2. CASE UNCHANGED gui
  BY <1>1, <1>2, QuietShift
<1>3. ASSUME NEW op \in {"connectionReady", "endConnection"}, Post(a, Queued(op, Blank, NoSdp))
      PROVE  Shifted(Queues(v, u), Queues(v, u)', Items(v, n))
  <2>1. Blank \in Keys /\ NoSdp \in Body
    BY DEF Keys, Body
  <2>2. /\ Queued(op, Blank, NoSdp) \in Seq(Event)
        /\ \A i \in 1..Len(Queued(op, Blank, NoSdp)) : Plain(Queued(op, Blank, NoSdp)[i])
    BY <2>1, PlainQueued
  <2> QED
    BY <1>1, <1>3, <2>2, QuietShift
<1> QED
  BY <1>2, <1>3 DEF Media, TrackReceived, PcConnected, PcClosed, PcFailed

LEMMA OrderlyKept ==
    ASSUME IInv, IInv', ClientInv, Numbered, Server!DirectoryLive, NEW a \in Users, Acts(a),
           NEW v \in Users, NEW u \in Users, NEW n \in Keys, username[u] \in {n, NoName},
           Orderly(v, u, n)
    PROVE  Orderly(v, u, n)'
<1>1. Grows
  BY ConnsGrow
<1>2. CASE OfferReceived(a) \/ AnswerReceived(a)
  BY <1>1, <1>2, ReceiveOrderly
<1>3. CASE ~(OfferReceived(a) \/ AnswerReceived(a))
  <2>1. \A k \in 1..MaxMade : Knows(u, v, k)' => Knows(u, v, k)
    BY <1>3, KnownByReceiving
  <2>2. ASSUME NEW m \in Keys, GatherDone(a, m) PROVE Orderly(v, u, n)'
    BY <1>1, <2>1, <2>2, GatherOrderly
  <2>3. CASE Shifted(Queues(v, u), Queues(v, u)', Items(v, n))
    BY <1>1, <2>1, <2>3, ShiftOrderly
  <2>4. CASE Network(a)
    BY <2>3, <2>4, LinkUpShift, LossShift, DeliverShift, RelayShift DEF Network
  <2>5. ASSUME NEW m \in Keys, Media(a, m) PROVE Orderly(v, u, n)'
    BY <2>2, <2>3, <2>5, MediaShift
  <2> QED
    BY <2>3, <2>4, <2>5, ClickShift, SlotShift DEF Acts
<1> QED
  BY <1>2, <1>3

LEMMA InOrderInit == Init => Numbered /\ InOrder
<1> SUFFICES ASSUME Init PROVE Numbered /\ InOrder
  OBVIOUS
<1>1. Numbered
  BY DEF Init, Numbered
<1>2. ASSUME NEW v \in Users, NEW u \in Users, NEW n \in Keys PROVE Orderly(v, u, n)
  <2>1. \A s \in 1..4 : Queues(v, u)[s] = <<>>
    <3>1. gui[u] = <<>> /\ InboxOf(u) = <<>> /\ up[v] = <<>> /\ gui[v] = <<>>
      BY DEF Init, InboxOf
    <3> QED
      BY <3>1 DEF Queues
  <2>2. Ordered(Queues(v, u), Items(v, n))
    BY <2>1 DEF Ordered
  <2>3. \A k : ~UnderWay(Queues(v, u), Items(v, n), k)
    BY <2>1 DEF UnderWay
  <2>4. \A k : ~Knows(u, v, k)
    BY DEF Init, Knows
  <2> QED
    BY <2>2, <2>3, <2>4 DEF Orderly
<1> QED
  BY <1>1, <1>2 DEF InOrder

LEMMA InOrderKept ==
    IInv /\ IInv' /\ ClientInv /\ Server!DirectoryLive /\ Numbered /\ InOrder /\ [Next]_vars
        => Numbered' /\ InOrder'
<1> SUFFICES ASSUME IInv, IInv', ClientInv, Server!DirectoryLive, Numbered, InOrder, [Next]_vars
             PROVE  Numbered' /\ InOrder'
  OBVIOUS
<1>1. CASE UNCHANGED vars
  <2>1. Numbered'
    BY <1>1 DEF Numbered, vars, pcVars
  <2>2. ASSUME NEW v \in Users, NEW u \in Users, NEW n \in Keys, Orderly(v, u, n)
        PROVE  Orderly(v, u, n)'
    <3>1. Queues(v, u)' = Queues(v, u)
      BY <1>1 DEF vars, serverVars, linkVars, Queues, InboxOf, Socket
    <3>2. \A k : MadeBy(v, n, k) => MadeBy(v, n, k)'
      BY <1>1 DEF vars, pcVars, MadeBy
    <3>3. \A k : Knows(u, v, k)' => Knows(u, v, k)
      BY <1>1 DEF vars, pcVars, Knows, Keys
    <3> QED
      BY <2>2, <3>1, <3>2, <3>3, OrderlyAfter DEF Orderly
  <2>3. InOrder'
    BY <1>1, <2>2 DEF InOrder, vars, uiVars, Keys
  <2> QED
    BY <2>1, <2>3
<1>2. ASSUME NEW a \in Users, Acts(a) PROVE Numbered' /\ InOrder'
  <2>1. ASSUME NEW v \in Users, NEW u \in Users, NEW n \in Keys, username'[u] \in {n, NoName}
        PROVE  Orderly(v, u, n)'
    <3>1. username[u] \in {n, NoName}
      <4>1. CASE UNCHANGED username
        BY <2>1, <4>1
      <4>2. ASSUME NEW m \in Names, ClickSubmit(a, m) PROVE username[u] \in {n, NoName}
        BY <2>1, <4>2 DEF ClickSubmit, IInv, CallTypeOK
      <4> QED
        BY <1>2, <4>1, <4>2, NamedOnce
    <3>2. Orderly(v, u, n)
      BY <3>1 DEF InOrder
    <3> QED
      BY <1>2, <3>1, <3>2, OrderlyKept
  <2>2. InOrder'
    BY <2>1 DEF InOrder, Keys
  <2>3. Numbered'
    BY <1>2, ConnsGrow
  <2> QED
    BY <2>2, <2>3
<1> QED
  BY <1>1, <1>2 DEF Next, Acts

----------------------------------------------------------------------------
(* A user who is asked has no call with the caller. *)

\* Descriptions known under one name come from one user.
LEMMA OneOwner ==
    ASSUME NamesDistinct, IInv, ClientInv, NEW d \in Sdp, NEW e \in Sdp, NEW n \in Names,
           username[d.pc[1]] = n, username[e.pc[1]] = n
    PROVE  d.pc[1] = e.pc[1] /\ d.pc[1] \in Users
<1>1. d.pc[1] \in Users /\ e.pc[1] \in Users /\ n # NoName
  BY CallAssumption DEF Sdp, Pc, Keys
<1>2. <<d.pc[1], n>> \in Takes /\ <<e.pc[1], n>> \in Takes
  BY <1>1 DEF ClientInv, NamesTaken
<1> QED
  BY <1>1, <1>2 DEF NamesDistinct

LEMMA SdpParts ==
    ASSUME NEW d \in Sdp
    PROVE  /\ d.pc[1] \in Users /\ d.pc[2] \in 1..MaxMade /\ d.pc[2] \in Nat
           /\ d.pc = <<d.pc[1], d.pc[2]>>
<1>1. PICK w \in Users, k \in 1..MaxMade : d.pc = <<w, k>>
  BY DEF Sdp, Pc
<1>2. k \in Nat
  BY CallAssumption
<1> QED
  BY <1>1, <1>2

LEMMA ConnNumber ==
    ASSUME NEW c \in Conn
    PROVE  c.id \in Nat
<1>1. PICK k \in 1..MaxMade : c.id = k
  BY DEF Conn
<1> QED
  BY <1>1, CallAssumption

\* Numbers of peer connections, the last one newest.
LEMMA Newer ==
    ASSUME NEW j \in Nat, NEW k \in Nat, NEW l \in Nat,
           \/ j < k /\ (k <= l \/ l = k \/ k < l)
           \/ j <= k /\ k < l
    PROVE  j < l
  OBVIOUS

LEMMA PopupSteps ==
    ASSUME IInv, NEW a \in Users, Acts(a), NEW w \in Users
    PROVE  popup'[w] \in {NoName, popup[w]} \/ (w = a /\ OfferReceived(a))
<1>0. popup \in [Users -> Names \cup {NoName}]
  BY DEF IInv, CallTypeOK
<1>1. CASE Click(a)
  BY <1>0, <1>1 DEF Click, ClickSubmit, ClickCall, ClickEnd, ClickAccept, ClickReject
<1>2. CASE OfferReceived(a)
  BY <1>0, <1>2 DEF OfferReceived
<1>3. CASE Slot(a) /\ ~OfferReceived(a)
  BY <1>3 DEF Slot, AnswerReceived, RejectReceived, SendOffer, SendAnswer, SendDescription,
              ConnectionReady, EndConnection, uiVars
<1>4. ASSUME NEW m \in Keys, Media(a, m) PROVE UNCHANGED popup
  BY <1>4 DEF Media, GatherDone, TrackReceived, PcConnected, PcClosed, PcFailed, uiVars
<1>5. CASE Network(a)
  BY <1>5 DEF Network, LinkUp, LinkLost, ServerDisconnects, ServerHandles, ClientHandles,
              clientVars, uiVars
<1> QED
  BY <1>1, <1>2, <1>3, <1>4, <1>5 DEF Acts

\* While the popup asks, its user gives no peer connection a description.
LEMMA NothingAttachedMeanwhile ==
    ASSUME IInv, ClientInv, NEW a \in Users, Acts(a), NEW w \in Users,
           popup[w] # NoName, popup'[w] # NoName, NEW n \in Keys,
           peerConnections'[w][n] # NoConn, peerConnections'[w][n].remote # NoSdp
    PROVE  /\ peerConnections[w][n] # NoConn
           /\ peerConnections[w][n].remote = peerConnections'[w][n].remote
<1>0. peerConnections \in [Users -> [Keys -> Conn \cup {NoConn}]] /\ made \in [Users -> 0..MaxMade]
  BY DEF IInv, CallTypeOK
<1>1. CASE w # a
  BY <1>1, OthersUntouched DEF IInv, Untouched
<1>2. CASE w = a
  <2>1. UNCHANGED made
    <3>1. ~(\E m \in Names : ClickSubmit(a, m))
      BY <1>2 DEF ClickSubmit, ClientInv, Unnamed
    <3>2. ~(\E m \in Keys : ClickCall(a, m))
      BY <1>2 DEF ClickCall, MayClick
    <3>3. ~ClickAccept(a)
      BY <1>2 DEF ClickAccept, IInv, CallTypeOK
    <3>4. CASE ClickEnd(a) \/ ClickReject(a)
      BY <3>4 DEF ClickEnd, ClickReject, pcVars
    <3>5. CASE Slot(a)
      BY <3>5 DEF Slot, OfferReceived, AnswerReceived, RejectReceived, SendOffer, SendAnswer,
                  SendDescription, ConnectionReady, EndConnection, pcVars
    <3>6. ASSUME NEW m \in Keys, Media(a, m) PROVE UNCHANGED made
      BY <3>6 DEF Media, GatherDone, TrackReceived, PcConnected, PcClosed, PcFailed
    <3>7. CASE Network(a)
      BY <3>7 DEF Network, LinkUp, LinkLost, ServerDisconnects, ServerHandles, ClientHandles,
                  clientVars, pcVars
    <3> QED
      BY <3>1, <3>2, <3>3, <3>4, <3>5, <3>6, <3>7 DEF Acts, Click
  <2>2. ~(\E m \in Keys : \E local, remote : AddPeer(a, m, local, remote))
    <3>1. made[a] + 1 # made[a]
      BY <1>0, CallAssumption
    <3> QED
      BY <1>0, <2>1, <3>1 DEF AddPeer
  <2>3. AnswerReceived(a) => UNCHANGED peerConnections
    BY <1>2 DEF AnswerReceived, MayTake, IInv, PopupMeansAnswerer
  <2>4. CASE UNCHANGED peerConnections
    BY <2>4
  <2>5. ASSUME NEW m \in Keys, NEW c \in Conn, peerConnections[a][m] # NoConn,
               peerConnections' = [peerConnections EXCEPT ![a][m] = c],
               c.remote = peerConnections[a][m].remote
        PROVE  /\ peerConnections[w][n] # NoConn
               /\ peerConnections[w][n].remote = peerConnections'[w][n].remote
    BY <1>0, <1>2, <2>5
  <2> QED
    BY <2>2, <2>3, <2>4, <2>5, EntrySteps DEF Replaces
<1> QED
  BY <1>1, <1>2

\* An offer that is shown is newer than what its caller sent before.
LEMMA OfferIsNewer ==
    ASSUME NamesDistinct, IInv, ClientInv, InOrder, NEW u \in Users, OfferReceived(u),
           peerConnections[u][popup'[u]] # NoConn, peerConnections[u][popup'[u]].remote # NoSdp
    PROVE  LET r == peerConnections[u][popup'[u]].remote
               d == peerConnections[r.pc[1]][username[u]] IN
           d # NoConn /\ r.pc[2] < d.id
<1> DEFINE e == Head(gui[u])
           c == peerConnections[u][e.peer]
           r == c.remote
           v == r.pc[1]
           n == username[u]
           h == Number(e)
           d == peerConnections[v][n]
<1>1. /\ gui[u] \in Seq(Event) /\ gui[u] # <<>> /\ e.op = "offerReceived"
      /\ popup' = [popup EXCEPT ![u] = e.peer] /\ popup \in [Users -> Names \cup {NoName}]
  BY DEF OfferReceived, NextEvent, IInv, CallTypeOK
<1>2. e \in Event /\ 1 \in 1..Len(gui[u]) /\ e = gui[u][1] /\ GoodEvent(u, e)
  <2>1. e \in Event /\ 1 \in 1..Len(gui[u]) /\ e = gui[u][1]
    BY <1>1, TailElements
  <2> QED
    BY <2>1 DEF IInv, Events
<1>3. e.peer \in Names /\ e.body \in Sdp /\ username[e.body.pc[1]] = e.peer /\ popup'[u] = e.peer
  BY <1>1, <1>2 DEF GoodEvent
<1>4. c \in Conn /\ GoodConn(u, e.peer, c) /\ r \in Sdp /\ username[v] = e.peer
  <2>1. c \in Conn /\ GoodConn(u, e.peer, c) /\ r # NoSdp
    BY <1>3 DEF IInv, CallTypeOK, Attached, Keys
  <2> QED
    BY <2>1 DEF Conn, Body, GoodConn
<1>5. v = e.body.pc[1] /\ v \in Users
  BY <1>3, <1>4, OneOwner
<1>6. n \in Keys
  BY <1>1 DEF ClientInv, Unnamed, IInv, CallTypeOK, Keys
<1>7. Orderly(v, u, n)
  BY <1>5, <1>6 DEF InOrder
<1>8. /\ e \in Heard(v) /\ h \in 1..MaxMade /\ h \in Nat
      /\ r.pc[2] \in 1..MaxMade /\ r.pc[2] \in Nat /\ r.pc = <<v, r.pc[2]>>
  <2>1. e.body # NoSdp
    BY <1>3, CallAssumption
  <2>2. e \in Heard(v)
    BY <1>1, <1>2, <1>5, <2>1 DEF Heard
  <2> QED
    BY <1>3, <1>4, <1>5, <2>2, SdpParts DEF Number
<1>9. UnderWay(Queues(v, u), Items(v, n), h)
  <2> DEFINE q == Queues(v, u)
             I == Items(v, n)
  <2>1. q[1] = gui[u] /\ I[1] = Heard(v)
    BY DEF Queues, Items
  <2>2. q[1][1] = e /\ e \in I[1] /\ Number(e) = h /\ 1 \in 1..Len(q[1])
    <3> HIDE DEF q, I, e, v
    <3> QED
      BY <1>2, <1>8, <2>1 DEF h
  <2> HIDE DEF q, I, h, e, v
  <2>3. UnderWay(q, I, h)
    BY <2>2 DEF UnderWay
  <2> QED
    BY <2>3 DEF q, I, h
<1>10. Knows(u, v, r.pc[2])
  BY <1>3, <1>8 DEF Knows, Keys
<1>11. MadeBy(v, n, h) /\ r.pc[2] < h
  BY <1>7, <1>8, <1>9, <1>10 DEF Orderly
<1>12. d # NoConn /\ h <= d.id /\ d.id \in Nat
  <2>1. d # NoConn /\ h <= d.id
    BY <1>11 DEF MadeBy
  <2>2. peerConnections \in [Users -> [Keys -> Conn \cup {NoConn}]]
    BY DEF IInv, CallTypeOK
  <2>3. d \in Conn
    BY <1>5, <1>6, <2>1, <2>2
  <2> QED
    BY <2>1, <2>3, ConnNumber
<1>13. r.pc[2] < d.id
  BY <1>8, <1>11, <1>12, Newer
<1> QED
  BY <1>3, <1>12, <1>13

LEMMA PopupIsNewerKept ==
    ASSUME NamesDistinct, IInv, ClientInv, Numbered, InOrder, PopupIsNewer,
           IInv', NEW a \in Users, Acts(a)
    PROVE  PopupIsNewer'
<1> SUFFICES ASSUME NEW w \in Users, popup'[w] # NoName,
                    peerConnections'[w][popup'[w]] # NoConn,
                    peerConnections'[w][popup'[w]].remote # NoSdp
             PROVE  LET r == peerConnections'[w][popup'[w]].remote
                        d == peerConnections'[r.pc[1]][username'[w]] IN
                    d # NoConn /\ r.pc[2] < d.id
  BY DEF PopupIsNewer
<1>1. CASE w = a /\ OfferReceived(a)
  <2>1. UNCHANGED <<peerConnections, username>>
    BY <1>1 DEF OfferReceived
  <2> QED
    BY <1>1, <2>1, OfferIsNewer
<1>2. CASE popup'[w] = popup[w]
  <2> DEFINE n == popup[w]
             r == peerConnections[w][n].remote
             d == peerConnections[r.pc[1]][username[w]]
             x == peerConnections'[r.pc[1]][username[w]]
  <2>1. n \in Keys /\ n \in Names
    BY <1>2 DEF IInv, CallTypeOK, Keys
  <2>2. peerConnections[w][n] # NoConn /\ r = peerConnections'[w][n].remote
    BY <1>2, <2>1, NothingAttachedMeanwhile
  <2>3. username[w] # NoName /\ username[w] \in Keys
    BY <1>2 DEF ClientInv, Unnamed, IInv, CallTypeOK, Keys
  <2>4. username'[w] = username[w]
    <3>1. ASSUME NEW m \in Names, ClickSubmit(a, m) PROVE username'[w] = username[w]
      BY <2>3, <3>1 DEF ClickSubmit, IInv, CallTypeOK
    <3> QED
      BY <3>1, NamedOnce
  <2>5. d # NoConn /\ r.pc[2] < d.id
    BY <1>2, <2>2 DEF PopupIsNewer
  <2>6. r.pc[1] \in Users /\ r.pc[2] \in Nat
    <3>1. peerConnections[w][n] \in Conn /\ r # NoSdp
      BY <1>2, <2>1, <2>2 DEF IInv, CallTypeOK
    <3>2. r \in Sdp
      BY <3>1 DEF Conn, Body
    <3> QED
      BY <3>2, SdpParts
  <2>7. Grows /\ Numbered'
    BY ConnsGrow
  <2>8. x # NoConn /\ (x.id = d.id \/ d.id < x.id)
    BY <2>3, <2>5, <2>6, <2>7 DEF Grows
  <2>9. d.id \in Nat /\ x.id \in Nat
    <3>1. /\ peerConnections \in [Users -> [Keys -> Conn \cup {NoConn}]]
          /\ peerConnections' \in [Users -> [Keys -> Conn \cup {NoConn}]]
      BY DEF IInv, CallTypeOK
    <3>2. \A v \in Users : \A k \in Keys :
             /\ peerConnections[v][k] \in Conn \cup {NoConn}
             /\ peerConnections'[v][k] \in Conn \cup {NoConn}
      BY <3>1
    <3>3. d \in Conn \cup {NoConn} /\ x \in Conn \cup {NoConn}
      BY <2>3, <2>6, <3>2
    <3> QED
      BY <2>5, <2>8, <3>3, ConnNumber
  <2>10. r.pc[2] < x.id
    BY <2>5, <2>6, <2>8, <2>9, Newer
  <2> QED
    BY <1>2, <2>2, <2>4, <2>8, <2>10
<1> QED
  BY <1>1, <1>2, PopupSteps

LEMMA ConversationInit == Init => PopupIsNewer
  BY DEF Init, PopupIsNewer

LEMMA RejectIsSilent ==
    ASSUME IInv, PopupIsNewer, NEW u \in Users, ClickReject(u), NEW v \in Users, NEW m \in Keys
    PROVE  ~Talking(u, popup[u], v, m)
<1> SUFFICES ASSUME Talking(u, popup[u], v, m) PROVE FALSE
  OBVIOUS
<1> DEFINE c == peerConnections[u][popup[u]]
           d == peerConnections[v][m]
<1>1. /\ c # NoConn /\ c.remote # NoSdp /\ c.remote.pc = <<v, d.id>>
      /\ d # NoConn /\ d.remote # NoSdp /\ d.remote.pc = <<u, c.id>>
  BY DEF Talking, Matched
<1>2. d \in Conn /\ GoodConn(v, m, d)
  BY <1>1 DEF IInv, Attached, CallTypeOK
<1>3. m = username[u]
  BY <1>1, <1>2 DEF GoodConn
<1>4. popup[u] # NoName
  BY DEF ClickReject
<1>5. c.remote.pc[1] = v /\ c.remote.pc[2] = d.id
  BY <1>1
<1>6. c.remote.pc[2] < peerConnections[c.remote.pc[1]][username[u]].id
  BY <1>1, <1>4 DEF PopupIsNewer
<1>7. d.id < d.id /\ d.id \in Nat
  BY <1>2, <1>3, <1>5, <1>6, ConnNumber
<1> QED
  BY <1>7

\* Descriptions of a user for another one arrive in the order in which their
\* peer connections were made and each at most once, through two event
\* queues, two connections and the server, whatever is lost on the way, and
\* the receiver never knows one that the sender's newest peer connection has
\* not gathered (webrtc.cpp, addPeer and setRemoteDescription; server.js).
THEOREM DescriptionsInOrder == Spec => []InOrder
  BY InitGood, StepGood, ClientInvInit, ClientInvKept, InOrderInit, InOrderKept,
     DirectoryStaysLive, PTL DEF Spec

\* Where no two users take the same name, a user who rejects a call has no
\* call with that caller: the caller made another peer connection for the
\* offer that the popup shows.
THEOREM RejectedCallersAreNotHeard ==
    ASSUME NamesDistinct
    PROVE  Spec => RejectLeavesNoCall
<1>1. IInv /\ IInv' /\ ClientInv /\ Numbered /\ InOrder /\ PopupIsNewer /\ [Next]_vars => PopupIsNewer'
  <2>1. CASE UNCHANGED vars
    BY <2>1 DEF PopupIsNewer, vars, pcVars, uiVars
  <2>2. CASE Next
    BY <2>2, PopupIsNewerKept DEF Next, Acts
  <2> QED
    BY <2>1, <2>2
<1>2. IInv /\ PopupIsNewer =>
          [\A u, v \in Users : \A m \in Keys : ClickReject(u) => ~Talking(u, popup[u], v, m)]_vars
  BY RejectIsSilent
<1> QED
  BY <1>1, <1>2, InitGood, StepGood, ClientInvInit, ClientInvKept, InOrderInit, InOrderKept,
     DirectoryStaysLive, ConversationInit, PTL DEF Spec, RejectLeavesNoCall

=============================================================================
