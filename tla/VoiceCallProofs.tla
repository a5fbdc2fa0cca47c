-------------------------- MODULE VoiceCallProofs --------------------------
(***************************************************************************)
(* Consent for any number of users, names, calls and reconnections.        *)
(*                                                                         *)
(* A peer connection knows the other side only through the description it  *)
(* was given.  The inductive invariant follows a description on its way:   *)
(* whoever hears of it hears of it under the name its owner registered,    *)
(* because the server stamps the sender's name on what it relays.          *)
(***************************************************************************)
EXTENDS VoiceCall, TLAPS

Described == {"offer", "answer"}

\* What u, registered as n, has emitted: its own name and its descriptions.
GoodRequest(u, n, m) ==
    /\ m.kind = "register" => m.to = n
    /\ m.kind \in Described => m.body \in Sdp /\ m.body.pc[1] = u

\* What waits for a client: a description comes from whom "from" names.
GoodForward(m) ==
    /\ m.kind \in Kinds
    /\ (m.kind \in Described /\ m.from # NoName) =>
           m.body \in Sdp /\ username[m.body.pc[1]] = m.from

\* What waits in the event queue of u.
GoodEvent(u, e) ==
    /\ e.op \in {"offerReceived", "answerReceived"} =>
           e.peer \in Names /\ e.body \in Sdp /\ username[e.body.pc[1]] = e.peer
    /\ e.op \in {"offerIsReady", "answerIsReady"} => e.body \in Sdp /\ e.body.pc[1] = u

\* The entry of u for n.
GoodConn(u, n, c) ==
    /\ c.remote # NoSdp => username[c.remote.pc[1]] = n /\ c.local # "none"
    /\ (c.local # "none" /\ c.state # "closed") => n \in agreed[u]

Requests == \A u \in Users : \A i \in 1..Len(up[u]) : GoodRequest(u, username[u], up[u][i])
Forwards == \A s \in Sockets : \A i \in 1..Len(inbox[s]) : GoodForward(inbox[s][i])
Events == \A u \in Users : \A i \in 1..Len(gui[u]) : GoodEvent(u, gui[u][i])
Stored ==
    \A u \in Users, n \in Keys :
        peerSdps[u][n] # NoSdp => username[peerSdps[u][n].pc[1]] = n
Attached ==
    \A u \in Users, n \in Keys :
        peerConnections[u][n] # NoConn => GoodConn(u, n, peerConnections[u][n])
Stamped ==
    \A u \in Users, k \in Links :
        peerNames[<<u, k>>] # NoName => peerNames[<<u, k>>] = username[u]
LinkedByLink == \A u \in Users : linked[u] => link[u] \in Links

IInv ==
    /\ CallTypeOK
    /\ Requests
    /\ Forwards
    /\ Events
    /\ Stored
    /\ Attached
    /\ Stamped
    /\ LinkedByLink
    /\ PopupMeansAnswerer

\* A name, once submitted, stays.
UsernamesKept == \A u \in Users : username[u] # NoName => username'[u] = username[u]

\* Nobody takes an agreement back.
AgreedKept == \A u \in Users : agreed[u] \subseteq agreed'[u]

----------------------------------------------------------------------------
(* What is good stays good. *)

\* The owner of a description goes by the same name after the step.
LEMMA OwnerKept ==
    ASSUME CallTypeOK, UsernamesKept, NEW d \in Sdp, username[d.pc[1]] \in Keys
    PROVE  d.pc[1] \in Users /\ username'[d.pc[1]] = username[d.pc[1]]
<1>1. d.pc[1] \in Users
  BY DEF Sdp, Pc
<1>2. username[d.pc[1]] # NoName
  BY CallAssumption
<1> QED
  BY <1>1, <1>2 DEF UsernamesKept

\* Names on what is under way stay right when a new user submits a name.
LEMMA RequestsKept ==
    ASSUME CallTypeOK, UsernamesKept, NEW u \in Users, NEW m \in Request,
           GoodRequest(u, username[u], m)
    PROVE  GoodRequest(u, username'[u], m)
  BY CallAssumption DEF GoodRequest, Request, UsernamesKept, CallTypeOK, Keys

LEMMA ForwardsKept ==
    ASSUME CallTypeOK, UsernamesKept, inbox' \in [Sockets -> Seq(Server!Forward)],
           \A s \in Sockets : \A i \in 1..Len(inbox'[s]) : GoodForward(inbox'[s][i])
    PROVE  Forwards'
<1> SUFFICES ASSUME NEW s \in Sockets, NEW i \in 1..Len(inbox'[s])
             PROVE  GoodForward(inbox[s][i])'
  BY DEF Forwards, Sockets, Links
<1>1. inbox'[s][i] \in Server!Forward /\ GoodForward(inbox'[s][i])
  OBVIOUS
<1>2. inbox'[s][i].from \in Names \cup {NoName}
  BY <1>1 DEF Server!Forward
<1> QED
  BY <1>1, <1>2, CallAssumption
     DEF GoodForward, Described, Sdp, Pc, Kinds, UsernamesKept, CallTypeOK, Keys

LEMMA EventsKept ==
    ASSUME CallTypeOK, UsernamesKept, gui' \in [Users -> Seq(Event)],
           \A u \in Users : \A i \in 1..Len(gui'[u]) : GoodEvent(u, gui'[u][i])
    PROVE  Events'
<1> SUFFICES ASSUME NEW u \in Users, NEW i \in 1..Len(gui'[u])
             PROVE  GoodEvent(u, gui[u][i])'
  BY DEF Events
<1> DEFINE e == gui'[u][i]
<1>1. GoodEvent(u, e)
  OBVIOUS
<1>2. CASE e.op \in {"offerReceived", "answerReceived"}
  <2>1. e.peer \in Names /\ e.body \in Sdp /\ username[e.body.pc[1]] = e.peer
    BY <1>1, <1>2 DEF GoodEvent
  <2>2. username'[e.body.pc[1]] = e.peer
    BY <2>1, OwnerKept DEF Keys
  <2> QED
    BY <1>1, <2>1, <2>2 DEF GoodEvent, Sdp, Pc
<1>3. CASE e.op \notin {"offerReceived", "answerReceived"}
  BY <1>1, <1>3 DEF GoodEvent, Sdp, Pc
<1> QED
  BY <1>2, <1>3

\* The parts of the invariant whose variables a step leaves alone.
LEMMA Framed ==
    ASSUME IInv, UsernamesKept
    PROVE  /\ UNCHANGED up => Requests'
           /\ UNCHANGED inbox => Forwards'
           /\ UNCHANGED gui => Events'
           /\ UNCHANGED peerSdps => Stored'
           /\ UNCHANGED peerConnections /\ AgreedKept => Attached'
           /\ UNCHANGED peerNames => Stamped'
           /\ UNCHANGED <<link, linked>> => LinkedByLink'
           /\ UNCHANGED <<popup, isOfferer>> => PopupMeansAnswerer'
<1> USE DEF IInv
<1>1. UNCHANGED up => Requests'
  <2> SUFFICES ASSUME UNCHANGED up, NEW u \in Users, NEW i \in 1..Len(up[u])
               PROVE  GoodRequest(u, username'[u], up[u][i])
    BY DEF Requests, GoodRequest, Described, Sdp, Pc
  <2>1. up[u][i] \in Request /\ GoodRequest(u, username[u], up[u][i])
    BY DEF Requests, CallTypeOK
  <2> QED
    BY <2>1, RequestsKept
<1>2. UNCHANGED inbox => Forwards'
  BY ForwardsKept DEF Forwards, CallTypeOK, Server!ServerTypeOK
<1>3. UNCHANGED gui => Events'
  BY EventsKept DEF Events, CallTypeOK
<1>4. UNCHANGED peerSdps => Stored'
  BY CallAssumption DEF Stored, CallTypeOK, UsernamesKept, Keys, Body, Sdp, Pc
<1>5. UNCHANGED peerConnections /\ AgreedKept => Attached'
  <2> SUFFICES ASSUME UNCHANGED peerConnections, AgreedKept, NEW u \in Users, NEW n \in Keys,
                      peerConnections[u][n] # NoConn
               PROVE  GoodConn(u, n, peerConnections[u][n])'
    BY DEF Attached, Keys
  <2> DEFINE c == peerConnections[u][n]
  <2>1. c \in Conn /\ GoodConn(u, n, c)
    BY DEF Attached, CallTypeOK
  <2>2. CASE c.remote = NoSdp
    BY <2>1, <2>2 DEF GoodConn, AgreedKept
  <2>3. CASE c.remote # NoSdp
    <3>1. c.remote \in Sdp /\ username[c.remote.pc[1]] = n
      BY <2>1, <2>3 DEF Conn, Body, GoodConn
    <3>2. username'[c.remote.pc[1]] = n
      BY <3>1, OwnerKept
    <3> QED
      BY <2>1, <3>2 DEF GoodConn, AgreedKept
  <2> QED
    BY <2>2, <2>3
<1>6. UNCHANGED peerNames => Stamped'
  BY DEF Stamped, UsernamesKept
<1>7. UNCHANGED <<link, linked>> => LinkedByLink'
  BY DEF LinkedByLink
<1>8. UNCHANGED <<popup, isOfferer>> => PopupMeansAnswerer'
  BY DEF PopupMeansAnswerer
<1> QED
  BY <1>1, <1>2, <1>3, <1>4, <1>5, <1>6, <1>7, <1>8

----------------------------------------------------------------------------
(* Queues. *)

\* What Append and Tail keep of a sequence.
LEMMA AppendElements ==
    ASSUME NEW S, NEW q \in Seq(S), NEW e \in S
    PROVE  /\ Append(q, e) \in Seq(S)
           /\ \A i \in 1..Len(Append(q, e)) :
                 (i \in 1..Len(q) /\ Append(q, e)[i] = q[i]) \/ Append(q, e)[i] = e
  OBVIOUS

LEMMA TailElements ==
    ASSUME NEW S, NEW q \in Seq(S), q # <<>>
    PROVE  /\ Tail(q) \in Seq(S)
           /\ Head(q) \in S /\ 1 \in 1..Len(q) /\ Head(q) = q[1]
           /\ \A i \in 1..Len(Tail(q)) : i + 1 \in 1..Len(q) /\ Tail(q)[i] = q[i + 1]
  OBVIOUS

LEMMA ConcatElements ==
    ASSUME NEW S, NEW q \in Seq(S), NEW r \in Seq(S)
    PROVE  /\ q \o r \in Seq(S)
           /\ \A i \in 1..Len(q \o r) :
                 \/ i \in 1..Len(q) /\ (q \o r)[i] = q[i]
                 \/ i - Len(q) \in 1..Len(r) /\ (q \o r)[i] = r[i - Len(q)]
  OBVIOUS

\* Posting good events, and consuming one, keeps the event queues good.
LEMMA PostKeeps ==
    ASSUME CallTypeOK, Events, UsernamesKept,
           NEW u \in Users, NEW events \in Seq(Event), Post(u, events),
           \A i \in 1..Len(events) : GoodEvent(u, events[i])
    PROVE  gui' \in [Users -> Seq(Event)] /\ Events'
<1>1. gui[u] \in Seq(Event) /\ gui \in [Users -> Seq(Event)]
  BY DEF CallTypeOK
<1>2. /\ gui[u] \o events \in Seq(Event)
      /\ \A i \in 1..Len(gui[u] \o events) :
            \/ i \in 1..Len(gui[u]) /\ (gui[u] \o events)[i] = gui[u][i]
            \/ i - Len(gui[u]) \in 1..Len(events)
               /\ (gui[u] \o events)[i] = events[i - Len(gui[u])]
  BY <1>1, ConcatElements, Zenon
<1>3. gui' = [gui EXCEPT ![u] = gui[u] \o events] /\ gui' \in [Users -> Seq(Event)]
  BY <1>1, <1>2 DEF Post
<1>4. ASSUME NEW w \in Users, NEW i \in 1..Len(gui'[w]) PROVE GoodEvent(w, gui'[w][i])
  BY <1>1, <1>2, <1>3 DEF Events
<1>5. Events'
  BY <1>3, <1>4, EventsKept
<1> QED
  BY <1>3, <1>5

LEMMA ConsumeKeeps ==
    ASSUME CallTypeOK, Events, UsernamesKept,
           NEW u \in Users, NEW op, NextEvent(u, op), Consume(u)
    PROVE  /\ gui' \in [Users -> Seq(Event)] /\ Events'
           /\ Head(gui[u]) \in Event /\ Head(gui[u]).op = op /\ GoodEvent(u, Head(gui[u]))
<1>1. gui[u] \in Seq(Event) /\ gui[u] # <<>> /\ gui \in [Users -> Seq(Event)]
  BY DEF CallTypeOK, NextEvent
<1>2. /\ Tail(gui[u]) \in Seq(Event)
      /\ Head(gui[u]) \in Event /\ 1 \in 1..Len(gui[u]) /\ Head(gui[u]) = gui[u][1]
      /\ \A i \in 1..Len(Tail(gui[u])) :
            i + 1 \in 1..Len(gui[u]) /\ Tail(gui[u])[i] = gui[u][i + 1]
  BY <1>1, TailElements, Zenon
<1>3. gui' = [gui EXCEPT ![u] = Tail(gui[u])] /\ gui' \in [Users -> Seq(Event)]
  BY <1>1, <1>2 DEF Consume
<1>4. ASSUME NEW w \in Users, NEW i \in 1..Len(gui'[w]) PROVE GoodEvent(w, gui'[w][i])
  BY <1>1, <1>2, <1>3 DEF Events
<1>5. Events'
  BY <1>3, <1>4, EventsKept
<1>6. Head(gui[u]).op = op /\ GoodEvent(u, Head(gui[u]))
  BY <1>2 DEF NextEvent, Events
<1> QED
  BY <1>2, <1>3, <1>5, <1>6

\* Emitting a good request keeps what is on its way to the server good.
LEMMA EmitKeeps ==
    ASSUME CallTypeOK, Requests, UsernamesKept,
           NEW u \in Users, NEW kind \in Kinds \cup {"register"}, NEW n \in Keys,
           NEW body \in Body, Emit(u, kind, n, body),
           kind = "register" => n = username'[u],
           kind \in Described => body \in Sdp /\ body.pc[1] = u
    PROVE  up' \in [Users -> Seq(Request)] /\ Requests'
<1> DEFINE m == [kind |-> kind, to |-> n, body |-> body]
<1>1. up[u] \in Seq(Request) /\ m \in Request /\ up \in [Users -> Seq(Request)]
  BY DEF Request, CallTypeOK
<1>2. up' = [up EXCEPT ![u] = Append(up[u], m)]
  BY DEF Emit
<1>3. GoodRequest(u, username'[u], m)
  BY DEF GoodRequest, Kinds
<1> HIDE DEF m
<1>4. /\ Append(up[u], m) \in Seq(Request)
      /\ \A i \in 1..Len(Append(up[u], m)) :
            \/ i \in 1..Len(up[u]) /\ Append(up[u], m)[i] = up[u][i]
            \/ Append(up[u], m)[i] = m
  BY <1>1, AppendElements, Zenon
<1>5. up' \in [Users -> Seq(Request)]
  BY <1>1, <1>2, <1>4
<1>6. ASSUME NEW w \in Users, NEW i \in 1..Len(up'[w])
      PROVE  GoodRequest(w, username'[w], up'[w][i])
  <2>1. CASE up'[w][i] = m /\ w = u
    BY <1>3, <2>1
  <2>2. CASE i \in 1..Len(up[w]) /\ up'[w][i] = up[w][i]
    <3>1. up[w][i] \in Request /\ GoodRequest(w, username[w], up[w][i])
      BY <1>1, <2>2 DEF Requests
    <3> QED
      BY <2>2, <3>1, RequestsKept
  <2> QED
    BY <1>1, <1>2, <1>4, <2>1, <2>2
<1>7. Requests'
  BY <1>6 DEF Requests, GoodRequest, Described, Sdp, Pc
<1> QED
  BY <1>5, <1>7

\* Events without a description are good.
LEMMA QueuedGood ==
    ASSUME NEW u \in Users, NEW op \in {"endConnection", "connectionReady", "rejectReceived"},
           NEW n \in Keys, NEW body \in Body
    PROVE  /\ Queued(op, n, body) \in Seq(Event)
           /\ \A i \in 1..Len(Queued(op, n, body)) : GoodEvent(u, Queued(op, n, body)[i])
<1> DEFINE e == [op |-> op, peer |-> n, body |-> body]
<1>1. e \in Event /\ GoodEvent(u, e)
  BY DEF Event, Ops, GoodEvent
<1> HIDE DEF e
<1>2. <<e>> \in Seq(Event) /\ \A i \in 1..Len(<<e>>) : <<e>>[i] = e
  BY <1>1
<1> QED
  BY <1>1, <1>2 DEF e, Queued

LEMMA ClosedByGood ==
    ASSUME NEW u \in Users, NEW c
    PROVE  /\ ClosedBy(c) \in Seq(Event)
           /\ \A i \in 1..Len(ClosedBy(c)) : GoodEvent(u, ClosedBy(c)[i])
<1>1. CASE IsOpen(c)
  BY <1>1, QueuedGood DEF ClosedBy, Keys, Body
<1>2. CASE ~IsOpen(c)
  BY <1>2 DEF ClosedBy
<1> QED
  BY <1>1, <1>2

----------------------------------------------------------------------------
(* The map of peer connections. *)

\* Replacing one entry by a good one keeps the map good, whatever the user
\* withdraws from the agreement about that entry.
LEMMA AttachKeeps ==
    ASSUME CallTypeOK, Attached, UsernamesKept,
           NEW u \in Users, NEW n \in Keys, NEW c \in Conn,
           peerConnections' = [peerConnections EXCEPT ![u][n] = c],
           \A w \in Users, m \in Keys :
               (w # u \/ m # n) /\ m \in agreed[w] => m \in agreed'[w],
           c.remote # NoSdp => username'[c.remote.pc[1]] = n /\ c.local # "none",
           (c.local # "none" /\ c.state # "closed") => n \in agreed'[u]
    PROVE  peerConnections' \in [Users -> [Keys -> Conn \cup {NoConn}]] /\ Attached'
<1>1. peerConnections' \in [Users -> [Keys -> Conn \cup {NoConn}]]
  BY DEF CallTypeOK
<1>2. ASSUME NEW w \in Users, NEW m \in Keys, peerConnections'[w][m] # NoConn
      PROVE  GoodConn(w, m, peerConnections[w][m])'
  <2>1. CASE w = u /\ m = n
    BY <2>1 DEF CallTypeOK, GoodConn
  <2>2. CASE w # u \/ m # n
    <3> DEFINE d == peerConnections[w][m]
    <3>1. peerConnections'[w][m] = d
      BY <2>2 DEF CallTypeOK
    <3>2. d \in Conn /\ GoodConn(w, m, d)
      BY <1>2, <3>1 DEF Attached, CallTypeOK
    <3>3. d.remote # NoSdp => username'[d.remote.pc[1]] = m
      <4> SUFFICES ASSUME d.remote # NoSdp
                   PROVE  username'[d.remote.pc[1]] = m
        OBVIOUS
      <4>1. d.remote \in Sdp /\ username[d.remote.pc[1]] = m
        BY <3>2 DEF Conn, Body, GoodConn
      <4> QED
        BY <4>1, OwnerKept
    <3> QED
      BY <2>2, <3>1, <3>2, <3>3 DEF GoodConn
  <2> QED
    BY <2>1, <2>2
<1> QED
  BY <1>1, <1>2 DEF Attached, Keys

\* What addPeer makes is a peer connection with a number of its own.
LEMMA FreshConnTyped ==
    ASSUME CallTypeOK, NEW u \in Users, NEW n \in Keys,
           NEW local \in {"none", "offer", "answer"}, NEW remote \in Body,
           AddPeer(u, n, local, remote)
    PROVE  /\ FreshConn(u, local, remote) \in Conn
           /\ made' \in [Users -> 0..MaxMade]
           /\ made[u] + 1 \in 1..MaxMade
<1>1. made[u] \in 0..MaxMade /\ made[u] < MaxMade /\ MaxMade \in Nat
  BY CallAssumption DEF CallTypeOK, AddPeer
<1>2. made[u] + 1 \in 1..MaxMade
  BY <1>1
<1>3. made' \in [Users -> 0..MaxMade]
  BY <1>1 DEF AddPeer, CallTypeOK
<1> QED
  BY <1>2, <1>3 DEF FreshConn, Conn

----------------------------------------------------------------------------
(* Clicks. *)

LEMMA ClickSubmitKeeps ==
    ASSUME IInv, NEW u \in Users, NEW n \in Names, ClickSubmit(u, n)
    PROVE  IInv'
<1> DEFINE c == FreshConn(u, "none", NoSdp)
<1>1. UsernamesKept
  BY DEF ClickSubmit, UsernamesKept, IInv, CallTypeOK
<1>2. c \in Conn /\ c.remote = NoSdp /\ c.local = "none" /\ made' \in [Users -> 0..MaxMade]
  BY FreshConnTyped DEF ClickSubmit, FreshConn, Body, Keys, IInv
<1>3. peerConnections' \in [Users -> [Keys -> Conn \cup {NoConn}]] /\ Attached'
  <2>1. peerConnections' = [peerConnections EXCEPT ![u][n] = c]
    BY DEF ClickSubmit, AddPeer
  <2>2. agreed' = agreed /\ n \in Keys
    BY DEF ClickSubmit, Keys
  <2> HIDE DEF c
  <2> QED
    BY <1>1, <1>2, <2>1, <2>2, AttachKeeps DEF IInv
<1>4. up' \in [Users -> Seq(Request)] /\ Requests'
  <2>1. Emit(u, "register", n, NoSdp) /\ username'[u] = n
    BY DEF ClickSubmit, IInv, CallTypeOK
  <2>2. n \in Keys /\ NoSdp \in Body
    BY DEF Keys, Body
  <2> QED
    BY <1>1, <2>1, <2>2, EmitKeeps DEF IInv, Described
<1>5. Forwards' /\ Events' /\ Stored' /\ LinkedByLink' /\ Stamped'
  BY <1>1, Framed DEF ClickSubmit, serverVars
<1>6. PopupMeansAnswerer'
  BY DEF ClickSubmit, IInv, PopupMeansAnswerer, CallTypeOK
<1>7. CallTypeOK'
  BY <1>2, <1>3, <1>4 DEF ClickSubmit, IInv, CallTypeOK, Server!ServerTypeOK, serverVars, audioVars
<1> QED
  BY <1>3, <1>4, <1>5, <1>6, <1>7 DEF IInv

LEMMA ClickCallKeeps ==
    ASSUME IInv, NEW u \in Users, NEW n \in Keys, ClickCall(u, n)
    PROVE  IInv'
<1> DEFINE c == FreshConn(u, "offer", NoSdp)
<1>1. UsernamesKept
  BY DEF ClickCall, UsernamesKept
<1>2. /\ c \in Conn /\ c.remote = NoSdp
      /\ made' \in [Users -> 0..MaxMade] /\ made[u] + 1 \in 1..MaxMade
  BY FreshConnTyped DEF ClickCall, FreshConn, Body, IInv
<1>3. peerConnections' \in [Users -> [Keys -> Conn \cup {NoConn}]] /\ Attached'
  <2>1. peerConnections' = [peerConnections EXCEPT ![u][n] = c]
    BY DEF ClickCall, AddPeer
  <2>2. n \in agreed'[u] /\ AgreedKept
    BY DEF ClickCall, IInv, CallTypeOK, AgreedKept
  <2> HIDE DEF c
  <2> QED
    BY <1>1, <1>2, <2>1, <2>2, AttachKeeps DEF IInv, AgreedKept
<1>4. gui' \in [Users -> Seq(Event)] /\ Events'
  <2>1. Post(u, ClosedBy(peerConnections[u][n]))
    BY DEF ClickCall
  <2> QED
    BY <1>1, <2>1, PostKeeps, ClosedByGood DEF IInv
<1>5. Requests' /\ Forwards' /\ Stored' /\ LinkedByLink' /\ Stamped'
  BY <1>1, Framed DEF ClickCall, serverVars, linkVars
<1>6. PopupMeansAnswerer'
  BY DEF ClickCall, MayClick, IInv, PopupMeansAnswerer, CallTypeOK
<1>7. CallTypeOK'
  <2>1. calls' \in [Users -> 0..MaxCalls]
    BY CallAssumption DEF ClickCall, IInv, CallTypeOK
  <2>2. /\ peerTrack' \in [Users -> 0..MaxMade] /\ isOfferer' \in [Users -> BOOLEAN]
        /\ button' \in [Users -> {"call", "connecting", "endCall"}]
        /\ nameField' \in [Users -> Keys] /\ agreed' \in [Users -> SUBSET Keys]
    BY <1>2 DEF ClickCall, IInv, CallTypeOK
  <2>3. UNCHANGED <<serverVars, linkVars, alive, peerSdps, audioVars, username, popup>>
    BY DEF ClickCall
  <2> QED
    BY <1>2, <1>3, <1>4, <2>1, <2>2, <2>3
       DEF IInv, CallTypeOK, Server!ServerTypeOK, serverVars, audioVars, linkVars
<1> QED
  BY <1>3, <1>4, <1>5, <1>6, <1>7 DEF IInv

LEMMA ClickEndKeeps ==
    ASSUME IInv, NEW u \in Users, ClickEnd(u)
    PROVE  IInv'
<1> DEFINE n == nameField[u]
           c == peerConnections[u][n]
<1>0. n \in Keys /\ c \in Conn \cup {NoConn}
  BY DEF IInv, CallTypeOK
<1>1. UsernamesKept
  BY DEF ClickEnd, UsernamesKept
<1>2. Requests' /\ Forwards' /\ Stored' /\ LinkedByLink' /\ Stamped' /\ PopupMeansAnswerer'
  BY <1>1, Framed DEF ClickEnd, serverVars, linkVars
<1>3. CASE c = NoConn
  <2>1. Events' /\ Attached'
    BY <1>1, <1>3, Framed DEF ClickEnd, AgreedKept
  <2>2. CallTypeOK'
    BY <1>3 DEF ClickEnd, Terminate, IInv, CallTypeOK, Server!ServerTypeOK, serverVars, audioVars, linkVars
  <2> QED
    BY <1>2, <2>1, <2>2 DEF IInv
<1>4. CASE c # NoConn
  <2> DEFINE d == [c EXCEPT !.state = "closed"]
  <2>1. c \in Conn /\ GoodConn(u, n, c)
    BY <1>0, <1>4 DEF IInv, Attached
  <2>2. d \in Conn /\ d.state = "closed" /\ d.remote = c.remote /\ d.local = c.local
    BY <2>1 DEF Conn
  <2>3. peerConnections' = [peerConnections EXCEPT ![u][n] = d]
    BY <1>4, <1>0 DEF ClickEnd, IInv, CallTypeOK
  <2>4. d.remote # NoSdp => username'[d.remote.pc[1]] = n /\ d.local # "none"
    BY <2>1, <2>2 DEF ClickEnd, GoodConn
  <2>5. \A w \in Users, m \in Keys :
            (w # u \/ m # n) /\ m \in agreed[w] => m \in agreed'[w]
    BY <1>4 DEF ClickEnd, IInv, CallTypeOK
  <2>6. peerConnections' \in [Users -> [Keys -> Conn \cup {NoConn}]] /\ Attached'
    <3> HIDE DEF d, n
    <3> QED
      BY <1>0, <1>1, <2>2, <2>3, <2>4, <2>5, AttachKeeps DEF IInv
  <2>7. gui' \in [Users -> Seq(Event)] /\ Events'
    <3>1. Post(u, ClosedBy(c))
      BY <1>4 DEF ClickEnd
    <3> QED
      BY <1>1, <3>1, PostKeeps, ClosedByGood DEF IInv
  <2>8. CallTypeOK'
    <3>1. /\ button' = [button EXCEPT ![u] = "call"]
          /\ nameField' = [nameField EXCEPT ![u] = Blank]
          /\ agreed' = [agreed EXCEPT ![u] = agreed[u] \ {n}]
      BY <1>4 DEF ClickEnd, Reset
    <3>2. agreed[u] \ {n} \in SUBSET Keys /\ Blank \in Keys
      BY DEF IInv, CallTypeOK, Keys
    <3>3. UNCHANGED <<serverVars, linkVars, alive, isOfferer, peerSdps, peerTrack, made,
                      audioVars, username, popup, calls>>
      BY <1>4 DEF ClickEnd
    <3> HIDE DEF n
    <3> QED
      BY <2>6, <2>7, <3>1, <3>2, <3>3
         DEF IInv, CallTypeOK, Server!ServerTypeOK, serverVars, audioVars, linkVars
  <2> QED
    BY <1>2, <2>6, <2>7, <2>8 DEF IInv
<1> QED
  BY <1>3, <1>4

LEMMA ClickAcceptKeeps ==
    ASSUME IInv, NEW u \in Users, ClickAccept(u)
    PROVE  IInv'
<1> DEFINE n == popup[u]
           c == peerConnections[u][n]
           d == peerSdps[u][n]
<1>0. n \in Keys /\ c \in Conn \cup {NoConn} /\ d \in Body /\ ~isOfferer[u]
  BY DEF ClickAccept, IInv, CallTypeOK, PopupMeansAnswerer, Keys
<1>1. UsernamesKept
  BY DEF ClickAccept, UsernamesKept
<1>2. n \in agreed'[u] /\ AgreedKept
  BY DEF ClickAccept, IInv, CallTypeOK, AgreedKept
<1>3. Requests' /\ Forwards' /\ Stored' /\ LinkedByLink' /\ Stamped'
  BY <1>1, Framed DEF ClickAccept, serverVars, linkVars
<1>4. PopupMeansAnswerer'
  BY DEF ClickAccept, IInv, PopupMeansAnswerer, CallTypeOK
<1>5. /\ peerConnections' \in [Users -> [Keys -> Conn \cup {NoConn}]] /\ Attached'
      /\ gui' \in [Users -> Seq(Event)] /\ Events'
      /\ made' \in [Users -> 0..MaxMade]
  <2>1. CASE d = NoSdp
    <3>1. UNCHANGED <<peerConnections, made, gui>>
      BY <2>1 DEF ClickAccept
    <3> QED
      BY <1>1, <1>2, <3>1, Framed DEF IInv, CallTypeOK
  <2>2. CASE d # NoSdp
    <3> DEFINE e == FreshConn(u, "answer", d)
    <3>1. AddPeer(u, n, "answer", d) /\ Post(u, ClosedBy(c))
      BY <1>0, <2>2 DEF ClickAccept, AttachOffer
    <3>2. e \in Conn /\ e.local = "answer" /\ e.remote = d
      BY <1>0, <3>1, FreshConnTyped DEF FreshConn, IInv
    <3>3. username'[d.pc[1]] = n
      BY <1>0, <2>2 DEF IInv, Stored, ClickAccept
    <3>4. peerConnections' = [peerConnections EXCEPT ![u][n] = e] /\ made' \in [Users -> 0..MaxMade]
      BY <1>0, <3>1, FreshConnTyped DEF AddPeer, IInv
    <3> HIDE DEF c, d, e, n
    <3>5. peerConnections' \in [Users -> [Keys -> Conn \cup {NoConn}]] /\ Attached'
      BY <1>0, <1>1, <1>2, <3>2, <3>3, <3>4, AttachKeeps DEF IInv, AgreedKept
    <3>6. gui' \in [Users -> Seq(Event)] /\ Events'
      BY <1>1, <3>1, PostKeeps, ClosedByGood DEF IInv
    <3> QED
      BY <3>4, <3>5, <3>6
  <2> QED
    BY <2>1, <2>2
<1>6. CallTypeOK'
  <2>1. /\ button' \in [Users -> {"call", "connecting", "endCall"}]
        /\ nameField' \in [Users -> Keys] /\ agreed' \in [Users -> SUBSET Keys]
        /\ popup' \in [Users -> Names \cup {NoName}]
    BY DEF ClickAccept, Connected, Keys, IInv, CallTypeOK
  <2>2. UNCHANGED <<serverVars, linkVars, alive, isOfferer, peerSdps, peerTrack, audioVars,
                    username, calls>>
    BY DEF ClickAccept
  <2> QED
    BY <1>5, <2>1, <2>2
       DEF IInv, CallTypeOK, Server!ServerTypeOK, serverVars, audioVars, linkVars
<1> QED
  BY <1>3, <1>4, <1>5, <1>6 DEF IInv

LEMMA ClickRejectKeeps ==
    ASSUME IInv, NEW u \in Users, ClickReject(u)
    PROVE  IInv'
<1>1. UsernamesKept /\ AgreedKept
  BY DEF ClickReject, UsernamesKept, AgreedKept
<1>2. up' \in [Users -> Seq(Request)] /\ Requests'
  <2>1. Emit(u, "reject", popup[u], NoSdp) /\ popup[u] \in Keys /\ NoSdp \in Body
    BY DEF ClickReject, IInv, CallTypeOK, Keys, Body
  <2> QED
    BY <1>1, <2>1, EmitKeeps DEF IInv, Described, Kinds
<1>3. Forwards' /\ Events' /\ Stored' /\ Attached' /\ LinkedByLink' /\ Stamped'
  BY <1>1, Framed DEF ClickReject, serverVars, pcVars
<1>4. PopupMeansAnswerer'
  BY DEF ClickReject, IInv, PopupMeansAnswerer, CallTypeOK, pcVars
<1>5. CallTypeOK'
  BY <1>2 DEF ClickReject, IInv, CallTypeOK, Server!ServerTypeOK, serverVars, pcVars, audioVars
<1> QED
  BY <1>2, <1>3, <1>4, <1>5 DEF IInv

----------------------------------------------------------------------------
(* Slots. *)

\* Storing a description under the name of its owner.
LEMMA StoreKeeps ==
    ASSUME IInv, UNCHANGED username,
           NEW u \in Users, NEW n \in Keys, NEW d \in Sdp, username[d.pc[1]] = n,
           peerSdps' = [peerSdps EXCEPT ![u][n] = d]
    PROVE  peerSdps' \in [Users -> [Keys -> Body]] /\ Stored'
<1>1. d \in Body /\ peerSdps \in [Users -> [Keys -> Body]]
  BY DEF IInv, CallTypeOK, Body
<1>2. peerSdps' \in [Users -> [Keys -> Body]]
  BY <1>1
<1>3. ASSUME NEW w \in Users, NEW m \in Keys, peerSdps'[w][m] # NoSdp
      PROVE  username'[peerSdps'[w][m].pc[1]] = m
  BY <1>1, <1>3 DEF IInv, Stored
<1> QED
  BY <1>2, <1>3 DEF Stored, Keys

LEMMA OfferReceivedKeeps ==
    ASSUME IInv, NEW u \in Users, OfferReceived(u)
    PROVE  IInv'
<1> DEFINE e == Head(gui[u])
<1>1. UsernamesKept /\ AgreedKept /\ UNCHANGED username
  BY DEF OfferReceived, UsernamesKept, AgreedKept
<1>2. /\ gui' \in [Users -> Seq(Event)] /\ Events'
      /\ e \in Event /\ e.op = "offerReceived" /\ GoodEvent(u, e)
  BY <1>1, ConsumeKeeps DEF OfferReceived, IInv
<1>3. e.peer \in Names /\ e.body \in Sdp /\ username[e.body.pc[1]] = e.peer
  BY <1>2 DEF GoodEvent
<1>4. peerSdps' \in [Users -> [Keys -> Body]] /\ Stored'
  <2>1. peerSdps' = [peerSdps EXCEPT ![u][e.peer] = e.body] /\ e.peer \in Keys
    BY <1>3 DEF OfferReceived, Keys
  <2> HIDE DEF e
  <2> QED
    BY <1>1, <1>3, <2>1, StoreKeeps
<1>5. Requests' /\ Forwards' /\ Attached' /\ LinkedByLink' /\ Stamped'
  BY <1>1, Framed DEF OfferReceived, serverVars, linkVars
<1>6. PopupMeansAnswerer'
  BY DEF OfferReceived, IInv, PopupMeansAnswerer, CallTypeOK
<1>7. CallTypeOK'
  BY <1>2, <1>3, <1>4
     DEF OfferReceived, IInv, CallTypeOK, Server!ServerTypeOK, serverVars, audioVars, linkVars
<1> QED
  BY <1>2, <1>4, <1>5, <1>6, <1>7 DEF IInv

LEMMA AnswerReceivedKeeps ==
    ASSUME IInv, NEW u \in Users, AnswerReceived(u)
    PROVE  IInv'
<1> DEFINE e == Head(gui[u])
           c == peerConnections[u][e.peer]
           d == [c EXCEPT !.remote = e.body]
<1>1. UsernamesKept /\ AgreedKept /\ UNCHANGED username
  BY DEF AnswerReceived, UsernamesKept, AgreedKept
<1>2. /\ gui' \in [Users -> Seq(Event)] /\ Events'
      /\ e \in Event /\ e.op = "answerReceived" /\ GoodEvent(u, e)
  BY <1>1, ConsumeKeeps DEF AnswerReceived, IInv
<1>3. /\ e.peer \in Keys /\ e.body \in Sdp /\ username[e.body.pc[1]] = e.peer
      /\ c \in Conn \cup {NoConn}
  BY <1>2 DEF GoodEvent, Keys, IInv, CallTypeOK
<1>4. peerSdps' \in [Users -> [Keys -> Body]] /\ Stored'
  <2>1. peerSdps' = [peerSdps EXCEPT ![u][e.peer] = e.body]
    BY DEF AnswerReceived
  <2> HIDE DEF e
  <2> QED
    BY <1>1, <1>3, <2>1, StoreKeeps
<1>5. Requests' /\ Forwards' /\ LinkedByLink' /\ Stamped' /\ PopupMeansAnswerer'
  BY <1>1, Framed DEF AnswerReceived, serverVars, linkVars
<1>6. /\ peerConnections' \in [Users -> [Keys -> Conn \cup {NoConn}]] /\ Attached'
      /\ alive' \in [Users -> BOOLEAN]
      /\ button' \in [Users -> {"call", "connecting", "endCall"}]
  <2>1. CASE UNCHANGED peerConnections
    <3>1. Attached'
      BY <1>1, <2>1, Framed
    <3> QED
      BY <2>1, <3>1 DEF AnswerReceived, Terminate, IInv, CallTypeOK
  <2>2. CASE ~UNCHANGED peerConnections
    <3>1. /\ MayTake(u, c) /\ c.state # "closed" /\ UNCHANGED alive
          /\ peerConnections' = [peerConnections EXCEPT ![u][e.peer].remote = e.body]
          /\ button' = [button EXCEPT ![u] = "endCall"]
      BY <2>2 DEF AnswerReceived
    <3>2. c \in Conn /\ c.local = "offer" /\ GoodConn(u, e.peer, c)
      BY <1>3, <3>1 DEF MayTake, Pending, IInv, Attached
    <3>3. d \in Conn /\ d.local = "offer" /\ d.remote = e.body /\ d.state = c.state
      BY <1>3, <3>2 DEF Conn, Body
    <3>4. peerConnections' = [peerConnections EXCEPT ![u][e.peer] = d]
      BY <3>1 DEF IInv, CallTypeOK
    <3>5. e.peer \in agreed'[u]
      BY <1>1, <3>1, <3>2 DEF GoodConn, AgreedKept
    <3> HIDE DEF c, d, e
    <3>6. peerConnections' \in [Users -> [Keys -> Conn \cup {NoConn}]] /\ Attached'
      BY <1>1, <1>3, <3>3, <3>4, <3>5, AttachKeeps DEF IInv, AgreedKept
    <3> QED
      BY <3>1, <3>6 DEF IInv, CallTypeOK
  <2> QED
    BY <2>1, <2>2
<1>7. CallTypeOK'
  <2>1. UNCHANGED <<serverVars, linkVars, isOfferer, peerTrack, made, audioVars,
                    username, nameField, popup, calls, agreed>>
    BY DEF AnswerReceived
  <2> QED
    BY <1>2, <1>4, <1>6, <2>1
       DEF IInv, CallTypeOK, Server!ServerTypeOK, serverVars, audioVars, linkVars
<1> QED
  BY <1>2, <1>4, <1>5, <1>6, <1>7 DEF IInv

LEMMA RejectReceivedKeeps ==
    ASSUME IInv, NEW u \in Users, RejectReceived(u)
    PROVE  IInv'
<1>1. UsernamesKept /\ AgreedKept
  BY DEF RejectReceived, UsernamesKept, AgreedKept
<1>2. gui' \in [Users -> Seq(Event)] /\ Events'
  BY <1>1, ConsumeKeeps DEF RejectReceived, IInv
<1>3. /\ Requests' /\ Forwards' /\ Stored' /\ Attached' /\ LinkedByLink' /\ Stamped'
      /\ PopupMeansAnswerer'
  BY <1>1, Framed DEF RejectReceived, serverVars, linkVars, pcVars
<1>4. CallTypeOK'
  BY <1>2 DEF RejectReceived, Reset, Keys, IInv, CallTypeOK, Server!ServerTypeOK, serverVars,
              linkVars, pcVars, audioVars
<1> QED
  BY <1>2, <1>3, <1>4 DEF IInv

LEMMA SendDescriptionKeeps ==
    ASSUME IInv, NEW u \in Users, NEW op \in {"offerIsReady", "answerIsReady"},
           NEW kind \in Kinds, SendDescription(u, op, kind)
    PROVE  IInv'
<1> DEFINE e == Head(gui[u])
<1>1. UsernamesKept /\ AgreedKept
  BY DEF SendDescription, uiVars, UsernamesKept, AgreedKept
<1>2. /\ gui' \in [Users -> Seq(Event)] /\ Events'
      /\ e \in Event /\ e.op = op /\ GoodEvent(u, e)
  BY <1>1, ConsumeKeeps DEF SendDescription, IInv
<1>3. e.peer \in Keys /\ e.body \in Sdp /\ e.body \in Body /\ e.body.pc[1] = u
  BY <1>2 DEF GoodEvent, Event, Body
<1>4. up' \in [Users -> Seq(Request)] /\ Requests'
  <2>1. Emit(u, kind, e.peer, e.body)
    BY DEF SendDescription
  <2> HIDE DEF e
  <2> QED
    BY <1>1, <1>3, <2>1, EmitKeeps DEF IInv, Kinds
<1>5. /\ Forwards' /\ Stored' /\ Attached' /\ LinkedByLink' /\ Stamped'
      /\ PopupMeansAnswerer'
  BY <1>1, Framed DEF SendDescription, serverVars, pcVars, uiVars
<1>6. CallTypeOK'
  BY <1>2, <1>4 DEF SendDescription, IInv, CallTypeOK, Server!ServerTypeOK, serverVars,
                    pcVars, audioVars, uiVars
<1> QED
  BY <1>2, <1>4, <1>5, <1>6 DEF IInv

LEMMA ConnectionReadyKeeps ==
    ASSUME IInv, NEW u \in Users, ConnectionReady(u)
    PROVE  IInv'
<1>1. UsernamesKept /\ AgreedKept
  BY DEF ConnectionReady, uiVars, UsernamesKept, AgreedKept
<1>2. gui' \in [Users -> Seq(Event)] /\ Events'
  BY <1>1, ConsumeKeeps DEF ConnectionReady, IInv
<1>3. /\ Requests' /\ Forwards' /\ Stored' /\ Attached' /\ LinkedByLink' /\ Stamped'
      /\ PopupMeansAnswerer'
  BY <1>1, Framed DEF ConnectionReady, serverVars, linkVars, pcVars, uiVars
<1>4. CallTypeOK'
  BY <1>2 DEF ConnectionReady, IInv, CallTypeOK, Server!ServerTypeOK, serverVars,
              linkVars, pcVars, uiVars
<1> QED
  BY <1>2, <1>3, <1>4 DEF IInv

LEMMA EndConnectionKeeps ==
    ASSUME IInv, NEW u \in Users, EndConnection(u)
    PROVE  IInv'
<1>1. UsernamesKept /\ AgreedKept
  BY DEF EndConnection, UsernamesKept, AgreedKept
<1>2. gui' \in [Users -> Seq(Event)] /\ Events'
  BY <1>1, ConsumeKeeps DEF EndConnection, IInv
<1>3. /\ Requests' /\ Forwards' /\ Attached' /\ LinkedByLink' /\ Stamped'
      /\ PopupMeansAnswerer'
  BY <1>1, Framed DEF EndConnection, serverVars, linkVars
<1>4. peerSdps' \in [Users -> [Keys -> Body]] /\ Stored'
  <2>1. peerSdps' = [peerSdps EXCEPT ![u] = [n \in Keys |-> NoSdp]] /\ UNCHANGED username
    BY DEF EndConnection
  <2>2. [n \in Keys |-> NoSdp] \in [Keys -> Body]
    BY DEF Body
  <2>3. peerSdps' \in [Users -> [Keys -> Body]]
    BY <2>1, <2>2 DEF IInv, CallTypeOK
  <2>4. \A w \in Users, m \in Keys :
            peerSdps'[w][m] # NoSdp => peerSdps'[w][m] = peerSdps[w][m]
    BY <2>1 DEF IInv, CallTypeOK
  <2> QED
    BY <2>1, <2>3, <2>4 DEF IInv, Stored, Keys
<1>5. CallTypeOK'
  BY <1>2, <1>4 DEF EndConnection, Reset, Keys, IInv, CallTypeOK, Server!ServerTypeOK, serverVars,
                    linkVars
<1> QED
  BY <1>2, <1>3, <1>4, <1>5 DEF IInv

----------------------------------------------------------------------------
(* libdatachannel. *)

\* A callback that changes an entry other than by giving it a description.
LEMMA CallbackKeeps ==
    ASSUME IInv, NEW u \in Users, NEW n \in Keys, NEW c \in Conn,
           peerConnections[u][n] # NoConn,
           peerConnections' = [peerConnections EXCEPT ![u][n] = c],
           c.local = peerConnections[u][n].local, c.remote = peerConnections[u][n].remote,
           c.state # "closed" => peerConnections[u][n].state # "closed",
           gui' \in [Users -> Seq(Event)], Events', peerTrack' \in [Users -> 0..MaxMade],
           UNCHANGED <<serverVars, linkVars, alive, isOfferer, peerSdps, made,
                       audioVars, uiVars>>
    PROVE  IInv'
<1>1. UsernamesKept /\ AgreedKept /\ UNCHANGED username
  BY DEF UsernamesKept, AgreedKept, uiVars
<1>2. GoodConn(u, n, peerConnections[u][n])
  BY DEF IInv, Attached
<1>3. /\ c.remote # NoSdp => username'[c.remote.pc[1]] = n /\ c.local # "none"
      /\ (c.local # "none" /\ c.state # "closed") => n \in agreed'[u]
  BY <1>1, <1>2 DEF GoodConn, AgreedKept
<1>4. peerConnections' \in [Users -> [Keys -> Conn \cup {NoConn}]] /\ Attached'
  BY <1>1, <1>3, AttachKeeps DEF IInv, AgreedKept
<1>5. /\ Requests' /\ Forwards' /\ Stored' /\ LinkedByLink' /\ Stamped'
      /\ PopupMeansAnswerer'
  BY <1>1, Framed DEF serverVars, linkVars, uiVars
<1>6. CallTypeOK'
  BY <1>4 DEF IInv, CallTypeOK, Server!ServerTypeOK, serverVars, linkVars, audioVars, uiVars
<1> QED
  BY <1>4, <1>5, <1>6 DEF IInv

LEMMA MediaKeeps ==
    ASSUME IInv, NEW u \in Users, NEW n \in Keys, Media(u, n)
    PROVE  IInv'
<1> DEFINE c == peerConnections[u][n]
           With(s) == [c EXCEPT !.state = s]
<1>1. UsernamesKept /\ AgreedKept
  BY DEF Media, GatherDone, TrackReceived, PcConnected, PcClosed, PcFailed, uiVars,
         UsernamesKept, AgreedKept
<1>2. c # NoConn /\ c \in Conn
  BY DEF Media, GatherDone, TrackReceived, PcConnected, PcClosed, PcFailed, IsOpen, IInv,
         CallTypeOK
<1>3. CASE GatherDone(u, n)
  <2> DEFINE d == [c EXCEPT !.gathered = TRUE]
             s == [pc |-> <<u, c.id>>, kind |-> c.local]
             op == IF isOfferer[u] THEN "offerIsReady" ELSE "answerIsReady"
             e == [op |-> op, peer |-> n, body |-> s]
  <2>1. d \in Conn /\ d.local = c.local /\ d.remote = c.remote /\ d.state = c.state
    BY <1>2 DEF Conn
  <2>2. peerConnections' = [peerConnections EXCEPT ![u][n] = d]
    BY <1>3 DEF GatherDone, IInv, CallTypeOK
  <2>3. s \in Sdp /\ s.pc[1] = u
    BY <1>2, <1>3 DEF GatherDone, Sdp, Pc, Conn
  <2>4. e \in Event /\ GoodEvent(u, e)
    BY <2>3 DEF Event, Ops, Body, GoodEvent
  <2>5. Post(u, <<e>>)
    BY <1>3 DEF GatherDone, Queued
  <2> HIDE DEF d, e
  <2>6. <<e>> \in Seq(Event) /\ \A i \in 1..Len(<<e>>) : GoodEvent(u, <<e>>[i])
    BY <2>4
  <2>7. gui' \in [Users -> Seq(Event)] /\ Events'
    BY <1>1, <2>5, <2>6, PostKeeps DEF IInv
  <2>8. /\ peerTrack' \in [Users -> 0..MaxMade]
        /\ UNCHANGED <<serverVars, linkVars, alive, isOfferer, peerSdps, made,
                       audioVars, uiVars>>
    BY <1>3 DEF GatherDone, IInv, CallTypeOK
  <2> QED
    BY <1>2, <2>1, <2>2, <2>7, <2>8, CallbackKeeps
<1>4. CASE TrackReceived(u, n)
  <2> DEFINE d == [c EXCEPT !.tracked = TRUE]
  <2>1. d \in Conn /\ d.local = c.local /\ d.remote = c.remote /\ d.state = c.state
    BY <1>2 DEF Conn
  <2>2. peerConnections' = [peerConnections EXCEPT ![u][n] = d]
    BY <1>4 DEF TrackReceived, IInv, CallTypeOK
  <2>3. Events' /\ gui' \in [Users -> Seq(Event)]
    BY <1>1, <1>4, Framed DEF TrackReceived, IInv, CallTypeOK
  <2>4. /\ peerTrack' \in [Users -> 0..MaxMade]
        /\ UNCHANGED <<serverVars, linkVars, alive, isOfferer, peerSdps, made,
                       audioVars, uiVars>>
    BY <1>2, <1>4 DEF TrackReceived, IInv, CallTypeOK, Conn
  <2> HIDE DEF d
  <2> QED
    BY <1>2, <2>1, <2>2, <2>3, <2>4, CallbackKeeps
<1>5. ASSUME NEW s \in {"connected", "closed", "failed"}, c.state # "closed",
             peerConnections' = [peerConnections EXCEPT ![u][n].state = s],
             gui' \in [Users -> Seq(Event)], Events',
             UNCHANGED <<serverVars, linkVars, alive, isOfferer, peerSdps, peerTrack, made,
                         audioVars, uiVars>>
      PROVE  IInv'
  <2>1. With(s) \in Conn /\ With(s).local = c.local /\ With(s).remote = c.remote
    BY <1>2 DEF Conn
  <2>2. peerConnections' = [peerConnections EXCEPT ![u][n] = With(s)]
    BY <1>5 DEF IInv, CallTypeOK
  <2>3. peerTrack' \in [Users -> 0..MaxMade]
    BY <1>5 DEF IInv, CallTypeOK
  <2> HIDE DEF With
  <2> QED
    BY <1>2, <1>5, <2>1, <2>2, <2>3, CallbackKeeps
<1>6. CASE PcConnected(u, n)
  <2>1. gui' \in [Users -> Seq(Event)] /\ Events'
    BY <1>1, <1>6, PostKeeps, QueuedGood DEF PcConnected, IInv, Keys, Body
  <2> QED
    BY <1>5, <1>6, <2>1 DEF PcConnected
<1>7. CASE PcClosed(u, n)
  <2>1. gui' \in [Users -> Seq(Event)] /\ Events'
    BY <1>1, <1>7, PostKeeps, QueuedGood DEF PcClosed, IInv, Keys, Body
  <2> QED
    BY <1>5, <1>7, <2>1 DEF PcClosed
<1>8. CASE PcFailed(u, n)
  <2>1. gui' \in [Users -> Seq(Event)] /\ Events'
    BY <1>1, <1>8, Framed DEF PcFailed, IInv, CallTypeOK
  <2> QED
    BY <1>5, <1>8, <2>1 DEF PcFailed
<1> QED
  BY <1>3, <1>4, <1>6, <1>7, <1>8 DEF Media

----------------------------------------------------------------------------
(* The network and the server. *)

\* What every step of the network leaves alone.
LEMMA ClientKept ==
    ASSUME IInv, UNCHANGED <<pcVars, audioVars, uiVars>>
    PROVE  /\ UsernamesKept /\ AgreedKept /\ UNCHANGED username
           /\ Stored' /\ Attached' /\ PopupMeansAnswerer'
           /\ (/\ Server!ServerTypeOK' /\ link' \in [Users -> 0..MaxLinks]
               /\ linked' \in [Users -> BOOLEAN] /\ up' \in [Users -> Seq(Request)]
               /\ alive' \in [Users -> BOOLEAN] /\ gui' \in [Users -> Seq(Event)])
              => CallTypeOK'
<1>1. UsernamesKept /\ AgreedKept /\ UNCHANGED username
  BY DEF UsernamesKept, AgreedKept, uiVars
<1>2. Stored' /\ Attached' /\ PopupMeansAnswerer'
  BY <1>1, Framed DEF pcVars, uiVars
<1>3. (/\ Server!ServerTypeOK' /\ link' \in [Users -> 0..MaxLinks]
       /\ linked' \in [Users -> BOOLEAN] /\ up' \in [Users -> Seq(Request)]
       /\ alive' \in [Users -> BOOLEAN] /\ gui' \in [Users -> Seq(Event)])
      => CallTypeOK'
  BY DEF IInv, CallTypeOK, pcVars, audioVars, uiVars
<1> QED
  BY <1>1, <1>2, <1>3

LEMMA LinkUpKeeps ==
    ASSUME IInv, NEW u \in Users, LinkUp(u)
    PROVE  IInv'
<1>1. UNCHANGED <<pcVars, audioVars, uiVars>>
  BY DEF LinkUp, clientVars
<1>2. link[u] \in 0..MaxLinks /\ link[u] < MaxLinks /\ MaxLinks \in Nat
  BY CallAssumption DEF LinkUp, IInv, CallTypeOK
<1>3. link[u] + 1 \in Links
  BY <1>2 DEF Links
<1>4. LinkedByLink' /\ link' \in [Users -> 0..MaxLinks] /\ linked' \in [Users -> BOOLEAN]
  BY <1>2, <1>3 DEF LinkUp, LinkedByLink, Links, IInv, CallTypeOK
<1>5. Server!ServerTypeOK' /\ UNCHANGED <<peerIds, peerNames, inbox>>
  BY DEF LinkUp, Server!Connect, IInv, CallTypeOK, Server!ServerTypeOK
<1>6. Requests' /\ Forwards' /\ Events' /\ Stamped'
  BY <1>1, <1>5, ClientKept, Framed DEF LinkUp
<1>7. CallTypeOK'
  BY <1>1, <1>4, <1>5, ClientKept DEF LinkUp, clientVars, IInv, CallTypeOK
<1> QED
  BY <1>1, <1>4, <1>6, <1>7, ClientKept DEF IInv

LEMMA LinkLostKeeps ==
    ASSUME IInv, NEW u \in Users, LinkLost(u)
    PROVE  IInv'
<1>1. UNCHANGED <<pcVars, audioVars, uiVars>>
  BY DEF LinkLost, clientVars
<1>2. up' \in [Users -> Seq(Request)] /\ linked' \in [Users -> BOOLEAN]
  BY DEF LinkLost, IInv, CallTypeOK
<1>3. Requests'
  <2>1. \A w \in Users : up'[w] = <<>> \/ up'[w] = up[w]
    BY DEF LinkLost, IInv, CallTypeOK
  <2>2. username' = username
    BY <1>1, ClientKept
  <2> QED
    BY <2>1, <2>2 DEF IInv, Requests, GoodRequest, Described, Sdp, Pc
<1>4. LinkedByLink'
  BY DEF LinkLost, LinkedByLink, Links, IInv, CallTypeOK
<1>5. Forwards' /\ Events' /\ Stamped'
  BY <1>1, ClientKept, Framed DEF LinkLost, serverVars
<1>6. CallTypeOK'
  BY <1>1, <1>2, ClientKept
     DEF LinkLost, clientVars, serverVars, IInv, CallTypeOK, Server!ServerTypeOK
<1> QED
  BY <1>1, <1>3, <1>4, <1>5, <1>6, ClientKept DEF IInv

LEMMA ServerDisconnectsKeeps ==
    ASSUME IInv, NEW u \in Users, NEW k \in Links, ServerDisconnects(u, k)
    PROVE  IInv'
<1> DEFINE s == <<u, k>>
<1>1. UNCHANGED <<pcVars, audioVars, uiVars>>
  BY DEF ServerDisconnects, clientVars
<1>2. Server!Disconnect(s) /\ s \in Sockets
  BY DEF ServerDisconnects, Sockets
<1>3. Server!ServerTypeOK'
  <2>1. /\ status' \in [Sockets -> {"new", "online", "gone"}]
        /\ peerNames' \in [Sockets -> Names \cup {NoName}]
    BY <1>2 DEF Server!Disconnect, IInv, CallTypeOK, Server!ServerTypeOK
  <2>2. peerIds' \in [Names -> Sockets \cup {NoSocket}]
    BY <1>2 DEF Server!Disconnect, IInv, CallTypeOK, Server!ServerTypeOK
  <2>3. inbox' \in [Sockets -> Seq(Server!Forward)]
    BY <1>2 DEF Server!Disconnect, IInv, CallTypeOK, Server!ServerTypeOK
  <2> QED
    BY <2>1, <2>2, <2>3 DEF Server!ServerTypeOK
<1>4. Forwards'
  <2>1. \A r \in Sockets : inbox'[r] = <<>> \/ inbox'[r] = inbox[r]
    BY <1>2 DEF Server!Disconnect, IInv, CallTypeOK, Server!ServerTypeOK
  <2>2. inbox' \in [Sockets -> Seq(Server!Forward)]
    BY <1>3 DEF Server!ServerTypeOK
  <2>3. \A r \in Sockets : \A i \in 1..Len(inbox'[r]) : GoodForward(inbox'[r][i])
    BY <2>1 DEF IInv, Forwards
  <2> QED
    BY <1>1, <2>2, <2>3, ClientKept, ForwardsKept DEF IInv
<1>5. Stamped'
  <2>1. peerNames' = [peerNames EXCEPT ![s] = NoName] /\ username' = username
    BY <1>1, <1>2, ClientKept DEF Server!Disconnect
  <2>2. \A r \in Sockets : peerNames'[r] = NoName \/ peerNames'[r] = peerNames[r]
    BY <2>1 DEF IInv, CallTypeOK, Server!ServerTypeOK
  <2> QED
    BY <2>1, <2>2 DEF Stamped, Sockets, Links, IInv
<1>6. Requests' /\ Events' /\ LinkedByLink'
  BY <1>1, ClientKept, Framed DEF ServerDisconnects, linkVars
<1>7. CallTypeOK'
  BY <1>1, <1>3, ClientKept DEF ServerDisconnects, clientVars, linkVars, IInv, CallTypeOK
<1> QED
  BY <1>1, <1>4, <1>5, <1>6, <1>7, ClientKept DEF IInv

\* The server stamps the sender's name: what it relays is good.
LEMMA ServerHandlesKeeps ==
    ASSUME IInv, NEW u \in Users, ServerHandles(u)
    PROVE  IInv'
<1> DEFINE m == Head(up[u])
           s == Socket(u)
<1>1. UNCHANGED <<pcVars, audioVars, uiVars>>
  BY DEF ServerHandles, clientVars
<1>2. link[u] \in Links /\ s = <<u, link[u]>> /\ s \in Sockets
  BY DEF ServerHandles, Socket, Sockets, IInv, LinkedByLink
<1>3. /\ Tail(up[u]) \in Seq(Request)
      /\ m \in Request /\ GoodRequest(u, username[u], m)
      /\ \A i \in 1..Len(Tail(up[u])) :
            i + 1 \in 1..Len(up[u]) /\ Tail(up[u])[i] = up[u][i + 1]
  <2>1. up[u] \in Seq(Request) /\ up[u] # <<>>
    BY DEF ServerHandles, IInv, CallTypeOK
  <2>2. /\ Tail(up[u]) \in Seq(Request)
        /\ m \in Request /\ 1 \in 1..Len(up[u]) /\ m = up[u][1]
        /\ \A i \in 1..Len(Tail(up[u])) :
              i + 1 \in 1..Len(up[u]) /\ Tail(up[u])[i] = up[u][i + 1]
    BY <2>1, TailElements, Zenon
  <2> QED
    BY <2>2 DEF IInv, Requests
<1>4. up' \in [Users -> Seq(Request)] /\ Requests'
  <2>1. up' = [up EXCEPT ![u] = Tail(up[u])] /\ up \in [Users -> Seq(Request)]
    BY DEF ServerHandles, IInv, CallTypeOK
  <2>2. up' \in [Users -> Seq(Request)]
    BY <1>3, <2>1
  <2>3. ASSUME NEW w \in Users, NEW i \in 1..Len(up'[w])
        PROVE  GoodRequest(w, username[w], up'[w][i])
    BY <1>3, <2>1 DEF IInv, Requests
  <2>4. username' = username
    BY <1>1, ClientKept
  <2> QED
    BY <2>2, <2>3, <2>4 DEF Requests, GoodRequest, Described, Sdp, Pc
<1>5. Server!ServerTypeOK' /\ Forwards' /\ Stamped'
  <2>1. CASE m.kind = "register"
    <3>1. m.to = username[u] /\ m.to \in Names
      BY <1>3, <2>1, CallAssumption DEF GoodRequest, Request, IInv, CallTypeOK, Keys
    <3>2. Server!Register(s, m.to)
      BY <2>1 DEF ServerHandles
    <3>3. Forwards'
      BY <1>1, <3>2, ClientKept, Framed DEF Server!Register
    <3>4. Server!ServerTypeOK'
      BY <1>2, <3>1, <3>2 DEF Server!Register, IInv, CallTypeOK, Server!ServerTypeOK
    <3>5. Stamped'
      <4>1. peerNames' = [peerNames EXCEPT ![s] = username[u]] /\ username' = username
        BY <1>1, <3>1, <3>2, ClientKept DEF Server!Register
      <4> QED
        BY <1>2, <4>1 DEF Stamped, Sockets, IInv, CallTypeOK, Server!ServerTypeOK
    <3> QED
      BY <3>3, <3>4, <3>5
  <2>2. CASE m.kind # "register"
    <3> DEFINE f == [kind |-> m.kind, from |-> peerNames[s], body |-> m.body]
               t == Server!Target(m.to)
    <3>1. Server!Relay(s, m.kind, m.to, m.body)
      BY <2>2 DEF ServerHandles
    <3>2. f \in Server!Forward /\ m.kind \in Kinds
      BY <1>2, <1>3, <2>2
         DEF Request, Kinds, Server!Kinds, Server!Forward, IInv, CallTypeOK, Server!ServerTypeOK
    <3>3. GoodForward(f)
      <4>1. peerNames[s] # NoName => peerNames[s] = username[u]
        BY <1>2 DEF IInv, Stamped
      <4> QED
        BY <1>3, <3>2, <4>1 DEF GoodForward, GoodRequest
    <3>4. inbox' = inbox \/ (t \in Sockets /\ inbox' = [inbox EXCEPT ![t] = Append(inbox[t], f)])
      BY <3>1 DEF Server!Relay, Server!Delivered, Server!Target, IInv, CallTypeOK, Server!ServerTypeOK
    <3> HIDE DEF f, t
    <3>5. inbox' \in [Sockets -> Seq(Server!Forward)]
          /\ \A r \in Sockets : \A i \in 1..Len(inbox'[r]) : GoodForward(inbox'[r][i])
      <4>1. CASE inbox' = inbox
        BY <4>1 DEF IInv, Forwards, CallTypeOK, Server!ServerTypeOK
      <4>2. CASE t \in Sockets /\ inbox' = [inbox EXCEPT ![t] = Append(inbox[t], f)]
        <5>1. inbox \in [Sockets -> Seq(Server!Forward)] /\ inbox[t] \in Seq(Server!Forward)
          BY <4>2 DEF IInv, CallTypeOK, Server!ServerTypeOK
        <5>2. /\ Append(inbox[t], f) \in Seq(Server!Forward)
              /\ \A i \in 1..Len(Append(inbox[t], f)) :
                    \/ i \in 1..Len(inbox[t]) /\ Append(inbox[t], f)[i] = inbox[t][i]
                    \/ Append(inbox[t], f)[i] = f
          BY <3>2, <5>1, AppendElements, Zenon
        <5> QED
          BY <3>3, <4>2, <5>1, <5>2 DEF IInv, Forwards
      <4> QED
        BY <3>4, <4>1, <4>2
    <3>6. Forwards'
      BY <1>1, <3>5, ClientKept, ForwardsKept DEF IInv
    <3>7. UNCHANGED <<status, peerIds, peerNames>>
      BY <3>1 DEF Server!Relay
    <3>8. Stamped'
      BY <1>1, <3>7, ClientKept, Framed
    <3> QED
      BY <3>5, <3>6, <3>7, <3>8 DEF IInv, CallTypeOK, Server!ServerTypeOK
  <2> QED
    BY <2>1, <2>2
<1>6. Events' /\ LinkedByLink'
  BY <1>1, ClientKept, Framed DEF ServerHandles
<1>7. CallTypeOK'
  BY <1>1, <1>4, <1>5, ClientKept DEF ServerHandles, clientVars, IInv, CallTypeOK
<1> QED
  BY <1>1, <1>4, <1>5, <1>6, <1>7, ClientKept DEF IInv

LEMMA ClientHandlesKeeps ==
    ASSUME IInv, NEW u \in Users, ClientHandles(u)
    PROVE  IInv'
<1> DEFINE s == Socket(u)
           m == Head(inbox[s])
           e == [op |-> SlotOf[m.kind], peer |-> m.from, body |-> m.body]
<1>1. UNCHANGED <<pcVars, audioVars, uiVars>>
  BY DEF ClientHandles
<1>2. s \in Sockets /\ inbox[s] \in Seq(Server!Forward) /\ inbox[s] # <<>>
  BY DEF ClientHandles, Server!Deliver, Socket, Sockets, IInv, LinkedByLink, CallTypeOK,
         Server!ServerTypeOK
<1>3. /\ Tail(inbox[s]) \in Seq(Server!Forward)
      /\ m \in Server!Forward /\ 1 \in 1..Len(inbox[s]) /\ m = inbox[s][1]
      /\ \A i \in 1..Len(Tail(inbox[s])) :
            i + 1 \in 1..Len(inbox[s]) /\ Tail(inbox[s])[i] = inbox[s][i + 1]
  <2> HIDE DEF s
  <2> QED
    BY <1>2, TailElements, Zenon
<1>4. GoodForward(m)
  BY <1>2, <1>3 DEF IInv, Forwards
<1>5. /\ inbox' = [inbox EXCEPT ![s] = Tail(inbox[s])]
      /\ UNCHANGED <<status, peerIds, peerNames>>
  BY DEF ClientHandles, Server!Deliver
<1>6. Server!ServerTypeOK' /\ Forwards'
  <2> HIDE DEF s
  <2>1. inbox \in [Sockets -> Seq(Server!Forward)]
    BY DEF IInv, CallTypeOK, Server!ServerTypeOK
  <2>2. inbox' \in [Sockets -> Seq(Server!Forward)]
    BY <1>3, <1>5, <2>1
  <2>3. \A r \in Sockets : \A i \in 1..Len(inbox'[r]) : GoodForward(inbox'[r][i])
    BY <1>3, <1>5, <2>1 DEF IInv, Forwards
  <2>4. Forwards'
    BY <1>1, <2>2, <2>3, ClientKept, ForwardsKept DEF IInv
  <2> QED
    BY <1>5, <2>2, <2>4 DEF IInv, CallTypeOK, Server!ServerTypeOK
<1>7. gui' \in [Users -> Seq(Event)] /\ Events' /\ alive' \in [Users -> BOOLEAN]
  <2>1. CASE m.from = NoName
    <3>1. UNCHANGED gui /\ Terminate(u)
      BY <2>1 DEF ClientHandles
    <3> QED
      BY <1>1, <3>1, ClientKept, Framed DEF Terminate, IInv, CallTypeOK
  <2>2. CASE m.from # NoName
    <3>1. Post(u, <<e>>) /\ UNCHANGED alive
      BY <2>2 DEF ClientHandles, Queued
    <3>2. m.from \in Names /\ m.body \in Body /\ m.kind \in Kinds
      BY <1>3, <1>4, <2>2 DEF Server!Forward, GoodForward
    <3>3. SlotOf[m.kind] \in Ops /\ (SlotOf[m.kind] \in {"offerReceived", "answerReceived"} =>
              m.kind \in Described) /\ SlotOf[m.kind] \notin {"offerIsReady", "answerIsReady"}
      BY <3>2 DEF Kinds, SlotOf, Ops, Described
    <3>4. e \in Event /\ GoodEvent(u, e)
      BY <1>4, <2>2, <3>2, <3>3 DEF Event, Keys, GoodEvent, GoodForward
    <3> HIDE DEF e
    <3>5. <<e>> \in Seq(Event) /\ \A i \in 1..Len(<<e>>) : GoodEvent(u, <<e>>[i])
      BY <3>4
    <3> QED
      BY <1>1, <3>1, <3>5, ClientKept, PostKeeps DEF IInv, CallTypeOK
  <2> QED
    BY <2>1, <2>2
<1>8. Requests' /\ LinkedByLink' /\ Stamped'
  BY <1>1, <1>5, ClientKept, Framed DEF ClientHandles, linkVars
<1>9. CallTypeOK'
  BY <1>1, <1>6, <1>7, ClientKept DEF ClientHandles, linkVars, IInv, CallTypeOK
<1> QED
  BY <1>1, <1>6, <1>7, <1>8, <1>9, ClientKept DEF IInv

----------------------------------------------------------------------------
(* The invariant and what it gives. *)

LEMMA InitGood == Init => IInv
<1> SUFFICES ASSUME Init PROVE IInv
  OBVIOUS
<1>1. Server!ServerTypeOK
  BY DEF Init, Server!ServerInit, Server!ServerTypeOK
<1>2. CallTypeOK
  BY <1>1, CallAssumption DEF Init, CallTypeOK, Keys, Body
<1>3. Requests /\ Forwards /\ Events /\ Stored /\ Attached /\ Stamped /\ LinkedByLink
  BY DEF Init, Server!ServerInit, Requests, Forwards, Events, Stored, Attached, Stamped,
         LinkedByLink, Sockets
<1>4. PopupMeansAnswerer
  BY DEF Init, PopupMeansAnswerer
<1> QED
  BY <1>2, <1>3, <1>4 DEF IInv

LEMMA StepGood == IInv /\ [Next]_vars => IInv'
<1> SUFFICES ASSUME IInv, [Next]_vars PROVE IInv'
  OBVIOUS
<1>1. CASE UNCHANGED vars
  <2>1. UsernamesKept /\ AgreedKept
    BY <1>1 DEF vars, uiVars, UsernamesKept, AgreedKept
  <2>2. CallTypeOK'
    BY <1>1 DEF vars, serverVars, linkVars, pcVars, audioVars, uiVars, IInv, CallTypeOK,
                Server!ServerTypeOK
  <2> QED
    BY <1>1, <2>1, <2>2, Framed DEF IInv, vars, serverVars, linkVars, pcVars, uiVars
<1>2. ASSUME NEW u \in Users, Click(u) PROVE IInv'
  BY <1>2, ClickSubmitKeeps, ClickCallKeeps, ClickEndKeeps, ClickAcceptKeeps, ClickRejectKeeps
     DEF Click
<1>3. ASSUME NEW u \in Users, Slot(u) PROVE IInv'
  BY <1>3, OfferReceivedKeeps, AnswerReceivedKeeps, RejectReceivedKeeps, SendDescriptionKeeps,
     ConnectionReadyKeeps, EndConnectionKeeps
     DEF Slot, SendOffer, SendAnswer, Kinds
<1>4. ASSUME NEW u \in Users, NEW n \in Keys, Media(u, n) PROVE IInv'
  BY <1>4, MediaKeeps
<1>5. ASSUME NEW u \in Users, Network(u) PROVE IInv'
  BY <1>5, LinkUpKeeps, LinkLostKeeps, ServerDisconnectsKeeps, ServerHandlesKeeps,
     ClientHandlesKeeps
     DEF Network
<1> QED
  BY <1>1, <1>2, <1>3, <1>4, <1>5 DEF Next

\* Every variable keeps its type, whatever the clients, the server and the
\* libraries do (CallTypeOK of the run one_call).
THEOREM CallTyped == Spec => []CallTypeOK
<1>1. IInv => CallTypeOK
  BY DEF IInv
<1> QED
  BY <1>1, InitGood, StepGood, PTL DEF Spec

\* The popup of an incoming call is only ever up in a client that holds the
\* answerer's role, so acceptCall never gives the caller's description to a
\* peer connection that exists (webrtc.cpp, setIsOfferer in offerReceived).
THEOREM PopupIsForAnswerers == Spec => []PopupMeansAnswerer
<1>1. IInv => PopupMeansAnswerer
  BY DEF IInv
<1> QED
  BY <1>1, InitGood, StepGood, PTL DEF Spec

\* Two users hear each other only while each has called or accepted the
\* other under the name the other registered and has not hung up since.
THEOREM CallsNeedConsent == Spec => []Consent
<1>1. IInv => Consent
  <2> SUFFICES ASSUME IInv, NEW u \in Users, NEW v \in Users, NEW n \in Keys, NEW m \in Keys,
                      Talking(u, n, v, m)
               PROVE  n \in agreed[u] /\ m \in agreed[v] /\ n = username[v] /\ m = username[u]
    BY DEF Consent
  <2> DEFINE c == peerConnections[u][n]
             d == peerConnections[v][m]
  <2>1. /\ c # NoConn /\ c.state = "connected" /\ c.remote # NoSdp /\ c.remote.pc = <<v, d.id>>
        /\ d # NoConn /\ d.state = "connected" /\ d.remote # NoSdp /\ d.remote.pc = <<u, c.id>>
    BY DEF Talking, Matched
  <2>2. GoodConn(u, n, c) /\ GoodConn(v, m, d)
    BY <2>1 DEF IInv, Attached
  <2> QED
    BY <2>1, <2>2 DEF GoodConn
<1> QED
  BY <1>1, InitGood, StepGood, PTL DEF Spec

=============================================================================
