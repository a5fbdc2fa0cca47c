-------------------------- MODULE VoiceRolesProofs --------------------------
(***************************************************************************)
(* A single call, for any number of pairs of users that make one each: its *)
(* clients do not crash, and their windows and sound follow the call.      *)
(*                                                                         *)
(* The first half is about roles.  Whether a description goes out as an    *)
(* offer or as an answer is the role its user has when it has been         *)
(* gathered, and nothing in the code ties that role to the description.    *)
(* Where those who call are not called (OneWay) no role changes while a    *)
(* description is gathered, and RoleInv says what kind each one then has.  *)
(* With two calls that cross it is false: see the run "glare".             *)
(***************************************************************************)
EXTENDS VoiceOrderProofs

\* Who calls, who is called, and that nobody does both.
Caller(u) == \E n \in Keys : <<u, n>> \in Dials
Dialled == {n \in Keys : \E u \in Users : <<u, n>> \in Dials}
OneWay == \A u \in Users : \A n \in Dialled : <<u, n>> \in Takes => ~Caller(u)

\* What may wait in the event queue of u, on the way to the server and on the
\* connection of u.
RightEvents(u) ==
    {e \in Event : /\ e.op = "offerReceived" => ~Caller(u)
                   /\ e.op = "offerIsReady" => e.peer \in Dialled /\ e.body.kind = "offer"
                   /\ e.op = "answerIsReady" => e.body.kind = "answer"}
RightRequests ==
    {m \in Request : /\ m.kind = "offer" => m.to \in Dialled
                     /\ m.kind \in Described => m.kind = m.body.kind}
RightForwards(u) == {m \in Server!Forward : m.kind = "offer" => ~Caller(u)}

\* The entry c of u for n when u has the role of the offerer or not.
RightConn(u, n, offerer, c) ==
    /\ c.local = "offer" => offerer /\ n \in Dialled
    /\ c.local = "answer" => ~Caller(u)

RightConns(u) ==
    \A n \in Keys : peerConnections[u][n] # NoConn =>
        RightConn(u, n, isOfferer[u], peerConnections[u][n])

RightRole(u) ==
    /\ isOfferer[u] => Caller(u)
    /\ popup[u] # NoName => ~Caller(u)
    /\ RightConns(u)

RightQueues(u) == gui[u] \in Seq(RightEvents(u)) /\ up[u] \in Seq(RightRequests)

RoleInv ==
    /\ \A u \in Users : RightRole(u) /\ RightQueues(u)
    /\ \A u \in Users : \A k \in Links : inbox[<<u, k>>] \in Seq(RightForwards(u))

----------------------------------------------------------------------------
(* Queues. *)

LEMMA PostRight ==
    ASSUME CallTypeOK, NEW u \in Users, RightQueues(u), NEW events \in Seq(RightEvents(u)),
           Post(u, events)
    PROVE  gui'[u] \in Seq(RightEvents(u))
<1>1. gui'[u] = gui[u] \o events
  BY DEF Post, CallTypeOK
<1> QED
  BY <1>1 DEF RightQueues

LEMMA ConsumeRight ==
    ASSUME CallTypeOK, NEW u \in Users, RightQueues(u), NEW op, NextEvent(u, op), Consume(u)
    PROVE  /\ gui'[u] \in Seq(RightEvents(u))
           /\ Head(gui[u]) \in RightEvents(u) /\ Head(gui[u]).op = op
<1>1. gui'[u] = Tail(gui[u]) /\ gui[u] # <<>> /\ Head(gui[u]).op = op
  BY DEF Consume, NextEvent, CallTypeOK
<1> QED
  BY <1>1, TailElements DEF RightQueues

LEMMA EmitRight ==
    ASSUME CallTypeOK, NEW u \in Users, RightQueues(u), NEW kind \in Kinds \cup {"register"},
           NEW n \in Keys, NEW body \in Body, Emit(u, kind, n, body),
           kind = "offer" => n \in Dialled, kind \in Described => body.kind = kind
    PROVE  up'[u] \in Seq(RightRequests)
<1> DEFINE m == [kind |-> kind, to |-> n, body |-> body]
<1>1. m \in RightRequests
  BY DEF RightRequests, Request
<1>2. up'[u] = Append(up[u], m)
  BY DEF Emit, CallTypeOK
<1> HIDE DEF m
<1> QED
  BY <1>1, <1>2 DEF RightQueues

LEMMA QueuedRight ==
    ASSUME NEW u \in Users, NEW op \in Ops, NEW n \in Keys, NEW body \in Body,
           op = "offerReceived" => ~Caller(u),
           op = "offerIsReady" => n \in Dialled /\ body.kind = "offer",
           op = "answerIsReady" => body.kind = "answer"
    PROVE  Queued(op, n, body) \in Seq(RightEvents(u))
<1> DEFINE e == [op |-> op, peer |-> n, body |-> body]
<1>1. e \in RightEvents(u)
  BY DEF RightEvents, Event
<1> HIDE DEF e
<1>2. <<e>> \in Seq(RightEvents(u))
  BY <1>1
<1> QED
  BY <1>2 DEF e, Queued

LEMMA ClosedByRight ==
    ASSUME NEW u \in Users, NEW c
    PROVE  ClosedBy(c) \in Seq(RightEvents(u))
<1>1. Queued("endConnection", Blank, NoSdp) \in Seq(RightEvents(u))
  BY QueuedRight DEF Ops, Keys, Body
<1>2. <<>> \in Seq(RightEvents(u))
  OBVIOUS
<1> QED
  BY <1>1, <1>2 DEF ClosedBy

----------------------------------------------------------------------------
(* Roles. *)

\* One entry changes and the role stays, or u takes the offerer's role.
LEMMA ConnRight ==
    ASSUME CallTypeOK, NEW u \in Users, RightConns(u), NEW n \in Keys, NEW c,
           peerConnections' = [peerConnections EXCEPT ![u][n] = c],
           isOfferer'[u] = isOfferer[u] \/ isOfferer'[u],
           RightConn(u, n, isOfferer'[u], c)
    PROVE  RightConns(u)'
<1> SUFFICES ASSUME NEW m \in Keys, peerConnections'[u][m] # NoConn
             PROVE  RightConn(u, m, isOfferer'[u], peerConnections'[u][m])
  BY DEF RightConns, RightConn, Caller, Dialled, Keys
<1>1. CASE m = n
  BY <1>1 DEF CallTypeOK
<1>2. CASE m # n
  <2>1. peerConnections'[u][m] = peerConnections[u][m]
    BY <1>2 DEF CallTypeOK
  <2> QED
    BY <2>1 DEF RightConns, RightConn
<1> QED
  BY <1>1, <1>2

\* The parts of the invariant that are about u, after a step.
LEMMA AfterStep ==
    ASSUME NEW u \in Users
    PROVE  /\ RightQueues(u)' <=>
                  gui'[u] \in Seq(RightEvents(u)) /\ up'[u] \in Seq(RightRequests)
           /\ RightRole(u)' <=>
                  /\ isOfferer'[u] => Caller(u)
                  /\ popup'[u] # NoName => ~Caller(u)
                  /\ RightConns(u)'
<1>1. RightEvents(u)' = RightEvents(u) /\ RightRequests' = RightRequests /\ Caller(u)' = Caller(u)
  BY DEF RightEvents, RightRequests, Caller, Dialled, Described
<1>2. /\ RightQueues(u)' <=> gui'[u] \in Seq(RightEvents(u)') /\ up'[u] \in Seq(RightRequests')
      /\ RightRole(u)' <=> /\ isOfferer'[u] => Caller(u)'
                           /\ popup'[u] # NoName => ~Caller(u)'
                           /\ RightConns(u)'
  BY DEF RightQueues, RightRole
<1> QED
  BY <1>1, <1>2

LEMMA ClickRight ==
    ASSUME OneWay, IInv, ClientInv, NEW u \in Users, RightRole(u), RightQueues(u), Click(u)
    PROVE  RightRole(u)' /\ RightQueues(u)'
<1>0. /\ CallTypeOK /\ peerConnections[u] \in [Keys -> Conn \cup {NoConn}]
      /\ isOfferer \in [Users -> BOOLEAN] /\ popup \in [Users -> Names \cup {NoName}]
  BY DEF IInv, CallTypeOK
<1> USE DEF Described, Kinds
<1>1. ASSUME NEW n \in Names, ClickSubmit(u, n) PROVE RightRole(u)' /\ RightQueues(u)'
  <2> DEFINE c == FreshConn(u, "none", NoSdp)
  <2>1. peerConnections' = [peerConnections EXCEPT ![u][n] = c] /\ c.local = "none"
    BY <1>1 DEF ClickSubmit, AddPeer, FreshConn
  <2> HIDE DEF c
  <2>2. \A m \in Keys : peerConnections'[u][m] # NoConn => peerConnections'[u][m].local = "none"
    <3> SUFFICES ASSUME NEW m \in Keys, peerConnections'[u][m] # NoConn
                 PROVE  peerConnections'[u][m].local = "none"
      OBVIOUS
    <3>1. peerConnections[u][m] = NoConn
      BY <1>1 DEF ClickSubmit, ClientInv, Unnamed
    <3>2. m = n
      BY <1>0, <2>1, <3>1 DEF CallTypeOK
    <3> QED
      BY <1>0, <2>1, <3>2 DEF CallTypeOK
  <2>3. RightConns(u)'
    BY <2>2 DEF RightConns, RightConn, Keys
  <2>4. up'[u] \in Seq(RightRequests)
    BY <1>0, <1>1, EmitRight DEF ClickSubmit, Keys, Body
  <2>5. ~isOfferer'[u] /\ popup'[u] = popup[u] /\ gui'[u] = gui[u]
    BY <1>0, <1>1 DEF ClickSubmit
  <2> QED
    BY <2>3, <2>4, <2>5, AfterStep DEF RightRole, RightQueues
<1>2. ASSUME NEW n \in Keys, <<u, n>> \in Dials, ClickCall(u, n)
      PROVE  RightRole(u)' /\ RightQueues(u)'
  <2> DEFINE c == FreshConn(u, "offer", NoSdp)
  <2>1. peerConnections' = [peerConnections EXCEPT ![u][n] = c] /\ c.local = "offer"
    BY <1>2 DEF ClickCall, AddPeer, FreshConn
  <2> HIDE DEF c
  <2>2. isOfferer'[u] /\ popup'[u] = NoName /\ up'[u] = up[u] /\ Caller(u) /\ n \in Dialled
    BY <1>0, <1>2 DEF ClickCall, MayClick, Caller, Dialled, linkVars
  <2>3. RightConns(u)'
    <3>1. RightConn(u, n, isOfferer'[u], c)
      BY <2>1, <2>2 DEF RightConn
    <3> QED
      BY <1>0, <2>1, <2>2, <3>1, ConnRight DEF RightRole
  <2>4. gui'[u] \in Seq(RightEvents(u))
    BY <1>0, <1>2, ClosedByRight, PostRight DEF ClickCall
  <2> QED
    BY <2>2, <2>3, <2>4, AfterStep DEF RightQueues
<1>3. CASE ClickEnd(u)
  <2> DEFINE n == nameField[u]
             c == peerConnections[u][n]
             d == [c EXCEPT !.state = "closed"]
  <2>1. n \in Keys /\ UNCHANGED <<isOfferer, popup, up>>
    BY <1>3 DEF ClickEnd, IInv, CallTypeOK, linkVars
  <2>2. CASE c = NoConn
    <3>1. UNCHANGED <<gui, peerConnections>>
      BY <1>3, <2>2 DEF ClickEnd
    <3> QED
      BY <2>1, <3>1, AfterStep DEF RightRole, RightQueues, RightConns, RightConn, Keys, Caller, Dialled
  <2>3. CASE c # NoConn
    <3>1. c \in Conn
      BY <1>0, <2>1, <2>3
    <3>2. d.local = c.local
      BY <3>1 DEF Conn
    <3>3. peerConnections' = [peerConnections EXCEPT ![u][n] = d] /\ Post(u, ClosedBy(c))
      BY <1>0, <1>3, <2>1, <2>3 DEF ClickEnd, CallTypeOK
    <3> HIDE DEF d
    <3>4. RightConn(u, n, isOfferer'[u], d)
      BY <2>1, <2>3, <3>2 DEF RightRole, RightConns, RightConn
    <3>5. RightConns(u)'
      BY <1>0, <2>1, <3>3, <3>4, ConnRight DEF RightRole
    <3>6. gui'[u] \in Seq(RightEvents(u))
      BY <1>0, <3>3, ClosedByRight, PostRight
    <3> QED
      BY <2>1, <3>5, <3>6, AfterStep DEF RightRole, RightQueues
  <2> QED
    BY <2>2, <2>3
<1>4. CASE ClickAccept(u)
  <2> DEFINE n == popup[u]
             b == peerConnections[u][n]
             c == FreshConn(u, "answer", peerSdps[u][n])
  <2>1. /\ n \in Keys /\ ~isOfferer[u] /\ ~Caller(u)
        /\ UNCHANGED <<isOfferer, up>> /\ popup'[u] = NoName
    BY <1>0, <1>4 DEF ClickAccept, IInv, PopupMeansAnswerer, RightRole, Keys, linkVars
  <2>2. CASE peerSdps[u][n] = NoSdp
    <3>1. UNCHANGED <<gui, peerConnections>>
      BY <1>4, <2>2 DEF ClickAccept
    <3> QED
      BY <2>1, <3>1, AfterStep DEF RightRole, RightQueues, RightConns, RightConn, Keys, Caller, Dialled
  <2>3. CASE peerSdps[u][n] # NoSdp
    <3>1. /\ peerConnections' = [peerConnections EXCEPT ![u][n] = c]
          /\ Post(u, ClosedBy(b))
      BY <1>4, <2>1, <2>3 DEF ClickAccept, AttachOffer, AddPeer
    <3>2. RightConn(u, n, isOfferer'[u], c)
      BY <2>1 DEF RightConn, FreshConn
    <3> HIDE DEF c
    <3>3. RightConns(u)'
      BY <1>0, <2>1, <3>1, <3>2, ConnRight DEF RightRole
    <3>4. gui'[u] \in Seq(RightEvents(u))
      BY <1>0, <3>1, ClosedByRight, PostRight
    <3> QED
      BY <2>1, <3>3, <3>4, AfterStep DEF RightRole, RightQueues
  <2> QED
    BY <2>2, <2>3
<1>5. CASE ClickReject(u)
  <2>1. /\ UNCHANGED <<isOfferer, peerConnections, gui>> /\ popup'[u] = NoName
        /\ popup[u] \in Keys /\ NoSdp \in Body
    BY <1>0, <1>5 DEF ClickReject, pcVars, Keys, Body
  <2>2. up'[u] \in Seq(RightRequests)
    BY <1>0, <1>5, <2>1, EmitRight DEF ClickReject
  <2> QED
    BY <2>1, <2>2, AfterStep DEF RightRole, RightQueues, RightConns, RightConn, Keys, Caller, Dialled
<1> QED
  BY <1>1, <1>2, <1>3, <1>4, <1>5 DEF Click

LEMMA SlotRight ==
    ASSUME OneWay, IInv, NEW u \in Users, RightRole(u), RightQueues(u), Slot(u)
    PROVE  RightRole(u)' /\ RightQueues(u)'
<1> DEFINE e == Head(gui[u])
<1>0. /\ CallTypeOK /\ peerConnections \in [Users -> [Keys -> Conn \cup {NoConn}]]
      /\ isOfferer \in [Users -> BOOLEAN] /\ popup \in [Users -> Names \cup {NoName}]
  BY DEF IInv, CallTypeOK
<1> USE DEF Described, Kinds
<1>1. CASE OfferReceived(u)
  <2>1. gui'[u] \in Seq(RightEvents(u)) /\ e \in RightEvents(u) /\ e.op = "offerReceived"
    BY <1>0, <1>1, ConsumeRight DEF OfferReceived
  <2>2. ~Caller(u)
    BY <2>1 DEF RightEvents
  <2>3. ~isOfferer[u] /\ ~isOfferer'[u] /\ UNCHANGED <<peerConnections, up>>
    BY <1>0, <1>1, <2>2 DEF OfferReceived, RightRole, linkVars
  <2>4. RightConns(u)'
    BY <2>3 DEF RightRole, RightConns, RightConn, Keys, Caller, Dialled
  <2> QED
    BY <2>1, <2>2, <2>3, <2>4, AfterStep DEF RightQueues
<1>2. CASE AnswerReceived(u)
  <2> DEFINE n == e.peer
             c == peerConnections[u][n]
             d == [c EXCEPT !.remote = e.body]
  <2>1. /\ gui'[u] \in Seq(RightEvents(u)) /\ n \in Keys
        /\ UNCHANGED <<isOfferer, popup, up>>
    <3>1. gui'[u] \in Seq(RightEvents(u)) /\ e \in RightEvents(u)
      BY <1>0, <1>2, ConsumeRight DEF AnswerReceived
    <3> QED
      BY <1>2, <3>1 DEF RightEvents, Event, AnswerReceived, linkVars
  <2>2. CASE UNCHANGED peerConnections
    BY <2>1, <2>2, AfterStep DEF RightRole, RightQueues, RightConns, RightConn, Keys, Caller, Dialled
  <2>3. CASE ~UNCHANGED peerConnections
    <3>1. c # NoConn /\ peerConnections' = [peerConnections EXCEPT ![u][n].remote = e.body]
      BY <1>2, <2>3 DEF AnswerReceived, MayTake
    <3>2. c \in Conn
      BY <1>0, <2>1, <3>1
    <3>3. d.local = c.local
      BY <3>2 DEF Conn
    <3>4. peerConnections' = [peerConnections EXCEPT ![u][n] = d]
      BY <1>0, <2>1, <3>1
    <3> HIDE DEF d
    <3>5. RightConn(u, n, isOfferer'[u], d)
      BY <2>1, <3>1, <3>3 DEF RightRole, RightConns, RightConn
    <3>6. RightConns(u)'
      BY <1>0, <2>1, <3>4, <3>5, ConnRight DEF RightRole
    <3> QED
      BY <2>1, <3>6, AfterStep DEF RightRole, RightQueues
  <2> QED
    BY <2>2, <2>3
<1>3. CASE SendOffer(u) \/ SendAnswer(u)
  <2>1. ASSUME NEW op \in {"offerIsReady", "answerIsReady"},
               SendDescription(u, op, IF op = "offerIsReady" THEN "offer" ELSE "answer")
        PROVE  RightRole(u)' /\ RightQueues(u)'
    <3>1. gui'[u] \in Seq(RightEvents(u)) /\ e \in RightEvents(u) /\ e.op = op
      BY <1>0, <2>1, ConsumeRight DEF SendDescription
    <3>2. e.peer \in Keys /\ e.body \in Body
      BY <3>1 DEF RightEvents, Event
    <3>3. /\ op = "offerIsReady" => e.peer \in Dialled /\ e.body.kind = "offer"
          /\ op = "answerIsReady" => e.body.kind = "answer"
      BY <3>1 DEF RightEvents
    <3>4. up'[u] \in Seq(RightRequests)
      BY <1>0, <2>1, <3>2, <3>3, EmitRight DEF SendDescription
    <3>5. UNCHANGED <<isOfferer, peerConnections, popup>>
      BY <2>1 DEF SendDescription, pcVars, uiVars
    <3> QED
      BY <3>1, <3>4, <3>5, AfterStep DEF RightRole, RightConns, RightConn, Keys, Caller, Dialled
  <2> QED
    BY <1>3, <2>1 DEF SendOffer, SendAnswer
<1>4. CASE RejectReceived(u) \/ ConnectionReady(u) \/ EndConnection(u)
  <2>1. UNCHANGED <<isOfferer, peerConnections, popup, up>>
    BY <1>4 DEF RejectReceived, ConnectionReady, EndConnection, pcVars, uiVars, linkVars
  <2>2. gui'[u] \in Seq(RightEvents(u))
    BY <1>0, <1>4, ConsumeRight DEF RejectReceived, ConnectionReady, EndConnection
  <2> QED
    BY <2>1, <2>2, AfterStep DEF RightRole, RightQueues, RightConns, RightConn, Keys, Caller, Dialled
<1> QED
  BY <1>1, <1>2, <1>3, <1>4 DEF Slot

\* What goes out of the gathering callback is what was generated: a caller's
\* peer connections hold offers as long as it has the offerer's role, and it
\* never loses that role; the others hold answers.
LEMMA MediaRight ==
    ASSUME IInv, NEW u \in Users, RightRole(u), RightQueues(u), NEW n \in Keys, Media(u, n)
    PROVE  RightRole(u)' /\ RightQueues(u)'
<1> DEFINE c == peerConnections[u][n]
<1>0. /\ CallTypeOK /\ peerConnections \in [Users -> [Keys -> Conn \cup {NoConn}]]
      /\ c # NoConn /\ UNCHANGED <<isOfferer, popup, up>>
  BY DEF IInv, CallTypeOK, Media, GatherDone, TrackReceived, PcConnected, PcClosed, PcFailed,
         IsOpen, linkVars, uiVars
<1>1. c \in Conn /\ RightConn(u, n, isOfferer[u], c)
  BY <1>0 DEF RightRole, RightConns
<1>2. ASSUME NEW d, d.local = c.local, peerConnections' = [peerConnections EXCEPT ![u][n] = d]
      PROVE  RightRole(u)'
  <2>1. RightConn(u, n, isOfferer'[u], d)
    BY <1>0, <1>1, <1>2 DEF RightConn
  <2>2. RightConns(u)'
    BY <1>0, <1>2, <2>1, ConnRight DEF RightRole
  <2> QED
    BY <1>0, <2>2, AfterStep DEF RightRole
<1>3. ASSUME NEW s, peerConnections' = [peerConnections EXCEPT ![u][n].state = s]
      PROVE  RightRole(u)'
  <2> DEFINE d == [c EXCEPT !.state = s]
  <2>1. d.local = c.local /\ peerConnections' = [peerConnections EXCEPT ![u][n] = d]
    BY <1>0, <1>1, <1>3 DEF Conn
  <2> HIDE DEF d
  <2> QED
    BY <1>2, <2>1
<1>4. CASE GatherDone(u, n)
  <2> DEFINE d == [c EXCEPT !.gathered = TRUE]
             op == IF isOfferer[u] THEN "offerIsReady" ELSE "answerIsReady"
             s == [pc |-> <<u, c.id>>, kind |-> c.local]
  <2>1. d.local = c.local /\ peerConnections' = [peerConnections EXCEPT ![u][n] = d]
    BY <1>0, <1>1, <1>4 DEF Conn, GatherDone
  <2>2. c.local \in {"offer", "answer"} /\ c.id \in 1..MaxMade
    BY <1>1, <1>4 DEF GatherDone, Conn
  <2>3. s \in Body /\ s.kind = c.local /\ op \in Ops
    BY <2>2 DEF Body, Sdp, Pc, Ops
  <2>4. /\ op = "offerIsReady" => n \in Dialled /\ c.local = "offer"
        /\ op = "answerIsReady" => c.local = "answer"
        /\ op # "offerReceived"
    BY <1>1, <2>2 DEF RightConn, RightRole
  <2>5. Post(u, Queued(op, n, s))
    BY <1>4 DEF GatherDone
  <2> HIDE DEF d, op, s
  <2>6. gui'[u] \in Seq(RightEvents(u))
    BY <1>0, <2>3, <2>4, <2>5, QueuedRight, PostRight
  <2>7. RightRole(u)'
    BY <1>2, <2>1
  <2> QED
    BY <1>0, <2>6, <2>7, AfterStep DEF RightQueues
<1>5. CASE TrackReceived(u, n)
  <2> DEFINE d == [c EXCEPT !.tracked = TRUE]
  <2>1. /\ d.local = c.local /\ peerConnections' = [peerConnections EXCEPT ![u][n] = d]
        /\ UNCHANGED gui
    BY <1>0, <1>1, <1>5 DEF Conn, TrackReceived
  <2> HIDE DEF d
  <2>2. RightRole(u)'
    BY <1>2, <2>1
  <2> QED
    BY <1>0, <2>1, <2>2, AfterStep DEF RightQueues
<1>6. CASE PcConnected(u, n) \/ PcClosed(u, n) \/ PcFailed(u, n)
  <2>1. RightRole(u)'
    BY <1>3, <1>6 DEF PcConnected, PcClosed, PcFailed
  <2>2. gui'[u] \in Seq(RightEvents(u))
    <3>1. CASE UNCHANGED gui
      BY <3>1 DEF RightQueues
    <3>2. ASSUME NEW op \in {"connectionReady", "endConnection"},
                 Post(u, Queued(op, Blank, NoSdp))
          PROVE  gui'[u] \in Seq(RightEvents(u))
      <4>1. Queued(op, Blank, NoSdp) \in Seq(RightEvents(u))
        BY QueuedRight DEF Ops, Keys, Body
      <4> QED
        BY <1>0, <3>2, <4>1, PostRight
    <3> QED
      BY <1>6, <3>1, <3>2 DEF PcConnected, PcClosed, PcFailed
  <2> QED
    BY <1>0, <2>1, <2>2, AfterStep DEF RightQueues
<1> QED
  BY <1>4, <1>5, <1>6 DEF Media

LEMMA NetworkRight ==
    ASSUME IInv, NEW u \in Users, RightRole(u), RightQueues(u), Network(u),
           \A k \in Links : inbox[<<u, k>>] \in Seq(RightForwards(u))
    PROVE  RightRole(u)' /\ RightQueues(u)'
<1>0. CallTypeOK
  BY DEF IInv
<1>1. UNCHANGED <<isOfferer, popup, peerConnections>>
  BY DEF Network, LinkUp, LinkLost, ServerDisconnects, ServerHandles, ClientHandles,
         clientVars, pcVars, uiVars
<1>2. RightRole(u)'
  BY <1>1, AfterStep DEF RightRole, RightConns, RightConn, Keys, Caller, Dialled
<1>3. CASE LinkUp(u) \/ \E k \in Links : ServerDisconnects(u, k)
  <2>1. UNCHANGED <<up, gui>>
    BY <1>3 DEF LinkUp, ServerDisconnects, linkVars
  <2> QED
    BY <1>2, <2>1, AfterStep DEF RightQueues
<1>4. CASE LinkLost(u)
  <2>1. up'[u] = <<>> /\ UNCHANGED gui
    BY <1>0, <1>4 DEF LinkLost, CallTypeOK
  <2> QED
    BY <1>2, <2>1, AfterStep DEF RightQueues
<1>5. CASE ServerHandles(u)
  <2>1. up'[u] = Tail(up[u]) /\ up[u] # <<>> /\ UNCHANGED gui
    BY <1>0, <1>5 DEF ServerHandles, CallTypeOK
  <2> QED
    BY <1>2, <2>1, TailElements, AfterStep DEF RightQueues
<1>6. CASE ClientHandles(u)
  <2> DEFINE m == Head(inbox[Socket(u)])
  <2>1. m \in RightForwards(u)
    <3>1. Socket(u) = <<u, link[u]>> /\ link[u] \in Links /\ inbox[Socket(u)] # <<>>
      BY <1>6 DEF ClientHandles, Socket, Server!Deliver, IInv, LinkedByLink
    <3> QED
      BY <3>1, TailElements
  <2>2. CASE m.from = NoName
    BY <1>2, <1>6, <2>2, AfterStep DEF ClientHandles, RightQueues, linkVars
  <2>3. CASE m.from # NoName
    <3>1. Post(u, Queued(SlotOf[m.kind], m.from, m.body)) /\ UNCHANGED up
      BY <1>6, <2>3 DEF ClientHandles, linkVars
    <3>2. /\ m \in Server!Forward /\ m.from \in Keys /\ m.body \in Body
          /\ m.kind = "offer" => ~Caller(u)
      BY <2>1, <2>3 DEF RightForwards, Server!Forward, Keys
    <3>3. m.kind \in Kinds
      <4>1. PICK i \in 1..Len(inbox[Socket(u)]) : m = inbox[Socket(u)][i]
        BY <1>0, <1>6, TailElements DEF ClientHandles, Server!Deliver, Socket, Sockets, IInv,
           LinkedByLink, CallTypeOK, Server!ServerTypeOK
      <4>2. Socket(u) \in Sockets
        BY <1>6 DEF ClientHandles, Socket, Sockets, IInv, LinkedByLink
      <4> QED
        BY <4>1, <4>2 DEF IInv, Forwards, GoodForward
    <3> DEFINE op == SlotOf[m.kind]
    <3>4. op \in Ops /\ op \notin {"offerIsReady", "answerIsReady"}
          /\ (op = "offerReceived" => m.kind = "offer")
      BY <3>3 DEF SlotOf, Kinds, Ops
    <3> HIDE DEF op, m
    <3>5. Queued(op, m.from, m.body) \in Seq(RightEvents(u))
      BY <3>2, <3>4, QueuedRight
    <3>6. gui'[u] \in Seq(RightEvents(u))
      BY <1>0, <3>1, <3>5, PostRight DEF op
    <3> QED
      BY <1>2, <3>1, <3>6, AfterStep DEF RightQueues
  <2> QED
    BY <2>2, <2>3
<1> QED
  BY <1>3, <1>4, <1>5, <1>6 DEF Network

\* The server hands an offer only to the user who holds the name it is for.
LEMMA OfferReachesCallee ==
    ASSUME OneWay, IInv, ClientInv, Server!DirectoryLive,
           NEW n \in Dialled, NEW t \in Sockets, Server!Target(n) = t
    PROVE  ~Caller(t[1])
<1>1. n \in Names /\ peerIds[n] = t
  BY CallAssumption DEF Server!Target
<1>2. peerNames[t] = n
  BY <1>1, CallAssumption DEF Server!DirectoryLive
<1>3. t[1] \in Users /\ t = <<t[1], t[2]>> /\ t[2] \in Links
  BY DEF Sockets
<1>4. n # NoName
  BY <1>1, CallAssumption DEF Keys
<1>5. username[t[1]] = n
  BY <1>2, <1>3, <1>4 DEF IInv, Stamped
<1>6. <<t[1], n>> \in Takes
  BY <1>3, <1>4, <1>5 DEF ClientInv, NamesTaken
<1> QED
  BY <1>3, <1>6 DEF OneWay

LEMMA BoxRight ==
    ASSUME OneWay, IInv, ClientInv, Server!DirectoryLive, NEW u \in Users, Acts(u),
           RightQueues(u), NEW w \in Users, NEW k \in Links,
           inbox[<<w, k>>] \in Seq(RightForwards(w))
    PROVE  inbox'[<<w, k>>] \in Seq(RightForwards(w))
<1> DEFINE s == <<w, k>>
           S == RightForwards(w)
<1>0. s \in Sockets /\ inbox \in [Sockets -> Seq(Server!Forward)] /\ <<>> \in Seq(S)
  BY DEF Sockets, IInv, CallTypeOK, Server!ServerTypeOK
<1>1. CASE UNCHANGED inbox
  BY <1>1
<1>2. ASSUME NEW t \in Sockets, inbox' = [inbox EXCEPT ![t] = <<>>]
      PROVE  inbox'[s] \in Seq(S)
  BY <1>0, <1>2
<1>3. ASSUME NEW t, inbox[t] # <<>>, inbox' = [inbox EXCEPT ![t] = Tail(inbox[t])]
      PROVE  inbox'[s] \in Seq(S)
  <2>1. CASE t = s
    <3>1. inbox'[s] = Tail(inbox[s])
      BY <1>0, <1>3, <2>1
    <3>2. inbox[s] # <<>>
      BY <1>3, <2>1
    <3> HIDE DEF S, s
    <3> QED
      BY <3>1, <3>2, TailElements DEF S, s
  <2>2. CASE t # s
    BY <1>0, <1>3, <2>2
  <2> QED
    BY <2>1, <2>2
<1>4. CASE ServerHandles(u)
  <2> DEFINE m == Head(up[u])
             f == [kind |-> m.kind, from |-> peerNames[Socket(u)], body |-> m.body]
             t == Server!Target(m.to)
  <2>1. m \in RightRequests /\ m \in Request
    <3>1. up[u] \in Seq(RightRequests) /\ up[u] # <<>>
      BY <1>4 DEF RightQueues, ServerHandles
    <3> QED
      BY <3>1, TailElements DEF RightRequests
  <2>2. CASE m.kind = "register"
    BY <1>1, <1>4, <2>2 DEF ServerHandles, Server!Register
  <2>3. CASE m.kind # "register"
    <3>1. Server!Relay(Socket(u), m.kind, m.to, m.body)
      BY <1>4, <2>3 DEF ServerHandles
    <3>2. CASE t # s
      <4>1. inbox'[s] = inbox[s]
        BY <1>0, <3>1, <3>2 DEF Server!Relay, Server!Delivered
      <4> QED
        BY <4>1
    <3>3. CASE t = s
      <4>1. inbox' = inbox \/ inbox'[s] = Append(inbox[s], f)
        BY <1>0, <3>1, <3>3 DEF Server!Relay, Server!Delivered
      <4>2. f \in Server!Forward
        <5>1. Socket(u) \in Sockets
          BY <1>4 DEF ServerHandles, Socket, Sockets, IInv, LinkedByLink
        <5> QED
          BY <2>1, <2>3, <5>1
             DEF Request, Kinds, Server!Kinds, Server!Forward, IInv, CallTypeOK, Server!ServerTypeOK
      <4>3. m.kind = "offer" => ~Caller(w)
        <5>1. SUFFICES ASSUME m.kind = "offer" PROVE ~Caller(w)
          OBVIOUS
        <5>2. m.to \in Dialled
          BY <2>1, <5>1 DEF RightRequests
        <5> HIDE DEF m, s
        <5>3. ~Caller(s[1])
          BY <1>0, <3>3, <5>2, OfferReachesCallee
        <5> QED
          BY <5>3 DEF s
      <4>4. f \in S
        BY <4>2, <4>3 DEF RightForwards
      <4> HIDE DEF f, S, s
      <4>5. inbox[s] \in Seq(S)
        BY DEF S, s
      <4>6. Append(inbox[s], f) \in Seq(S)
        BY <4>4, <4>5, AppendElements
      <4>7. inbox'[s] \in Seq(S)
        BY <4>1, <4>5, <4>6
      <4> QED
        BY <4>7 DEF S, s
    <3> QED
      BY <3>2, <3>3
  <2> QED
    BY <2>2, <2>3
<1>5. CASE Network(u)
  <2>1. CASE LinkUp(u) \/ LinkLost(u)
    BY <1>1, <2>1 DEF LinkUp, LinkLost, Server!Connect, serverVars
  <2>2. ASSUME NEW j \in Links, ServerDisconnects(u, j) PROVE inbox'[s] \in Seq(S)
    <3>1. <<u, j>> \in Sockets /\ inbox' = [inbox EXCEPT ![<<u, j>>] = <<>>]
      BY <2>2 DEF ServerDisconnects, Server!Disconnect, Sockets
    <3> QED
      BY <1>2, <3>1
  <2>3. CASE ClientHandles(u)
    <3>1. /\ inbox[Socket(u)] # <<>>
          /\ inbox' = [inbox EXCEPT ![Socket(u)] = Tail(inbox[Socket(u)])]
      BY <2>3 DEF ClientHandles, Server!Deliver
    <3> QED
      BY <1>3, <3>1
  <2> QED
    BY <1>4, <1>5, <2>1, <2>2, <2>3 DEF Network
<1> QED
  BY <1>1, <1>5, OffTheNetwork DEF Acts, serverVars

----------------------------------------------------------------------------
(* The invariant and what it gives. *)

LEMMA RoleInvInit == Init => RoleInv
<1> SUFFICES ASSUME Init PROVE RoleInv
  OBVIOUS
<1>1. ASSUME NEW u \in Users PROVE RightRole(u) /\ RightQueues(u)
  BY DEF Init, RightRole, RightConns, RightQueues
<1>2. ASSUME NEW u \in Users, NEW k \in Links PROVE inbox[<<u, k>>] \in Seq(RightForwards(u))
  <2>1. <<u, k>> \in Sockets
    BY DEF Sockets
  <2>2. inbox[<<u, k>>] = <<>>
    BY <2>1 DEF Init, Server!ServerInit
  <2> QED
    BY <2>2
<1> QED
  BY <1>1, <1>2 DEF RoleInv

LEMMA RoleInvKept ==
    OneWay /\ IInv /\ ClientInv /\ Server!DirectoryLive /\ RoleInv /\ [Next]_vars => RoleInv'
<1> SUFFICES ASSUME OneWay, IInv, ClientInv, Server!DirectoryLive, RoleInv, [Next]_vars
             PROVE  RoleInv'
  OBVIOUS
<1>1. \A w \in Users : RightForwards(w)' = RightForwards(w)
  BY DEF RightForwards, Caller, Server!Forward
<1>2. SUFFICES /\ \A w \in Users : RightRole(w)' /\ RightQueues(w)'
               /\ \A w \in Users : \A k \in Links : inbox'[<<w, k>>] \in Seq(RightForwards(w))
  BY <1>1 DEF RoleInv, Links
<1>3. ASSUME NEW w \in Users,
             /\ isOfferer'[w] = isOfferer[w] /\ popup'[w] = popup[w]
             /\ peerConnections'[w] = peerConnections[w]
             /\ gui'[w] = gui[w] /\ up'[w] = up[w]
      PROVE  RightRole(w)' /\ RightQueues(w)'
  <2>1. RightRole(w) /\ RightQueues(w)
    BY DEF RoleInv
  <2>2. RightConns(w)'
    BY <1>3, <2>1 DEF RightRole, RightConns, RightConn, Keys, Caller, Dialled
  <2> QED
    BY <1>3, <2>1, <2>2, AfterStep DEF RightRole, RightQueues
<1>4. CASE UNCHANGED vars
  BY <1>3, <1>4 DEF RoleInv, vars, serverVars, linkVars, pcVars, uiVars
<1>5. ASSUME NEW u \in Users, Acts(u)
      PROVE  /\ \A w \in Users : RightRole(w)' /\ RightQueues(w)'
             /\ \A w \in Users : \A k \in Links : inbox'[<<w, k>>] \in Seq(RightForwards(w))
  <2>1. RightRole(u) /\ RightQueues(u) /\ CallTypeOK
    BY DEF RoleInv, IInv
  <2>2. RightRole(u)' /\ RightQueues(u)'
    <3>1. \A k \in Links : inbox[<<u, k>>] \in Seq(RightForwards(u))
      BY DEF RoleInv
    <3> QED
      BY <1>5, <2>1, <3>1, ClickRight, SlotRight, MediaRight, NetworkRight DEF Acts
  <2>3. ASSUME NEW w \in Users, w # u PROVE RightRole(w)' /\ RightQueues(w)'
    <3>1. Untouched(w)
      BY <1>5, <2>1, <2>3, OthersUntouched
    <3> QED
      BY <1>3, <3>1 DEF Untouched
  <2>4. ASSUME NEW w \in Users, NEW k \in Links
        PROVE  inbox'[<<w, k>>] \in Seq(RightForwards(w))
    BY <1>5, <2>1, BoxRight DEF RoleInv
  <2> QED
    BY <2>2, <2>3, <2>4
<1> QED
  BY <1>4, <1>5 DEF Next, Acts

----------------------------------------------------------------------------
(* One call.  A client that makes a single call over a single connection to *)
(* the server, to somebody whom nobody else calls, neither crashes nor      *)
(* loses track of its call.  With a second call, a second caller or a       *)
(* second connection it may: what is left of the first call, or an answer   *)
(* to it, is taken for the second one's.                                    *)

OneCaller ==
    \A u, v \in Users : \A n \in Names : <<u, n>> \in Dials /\ <<v, n>> \in Dials => u = v

OneCall == OneWay /\ NamesDistinct /\ OneCaller /\ MaxCalls <= 1 /\ MaxLinks = 1

\* The entry of u for n is the call's: the first peer connection of a client
\* is the one that registerName makes, the second one is made for the call.
InCall(u, n) == peerConnections[u][n] # NoConn /\ peerConnections[u][n].id = 2

Over(u) == \E n \in Keys : InCall(u, n) /\ peerConnections[u][n].state = "closed"

\* v has been asked by u and has not accepted; v is not being asked any more.
Asked(u, v) ==
    /\ ~Caller(v) /\ <<u, username[v]>> \in Dials /\ username[u] # NoName
    /\ made[v] = 1 /\ peerSdps[v][username[u]] # NoSdp
Rejected(u, v) == Asked(u, v) /\ popup[v] = NoName

RejectedBy(u, n) == \E v \in Users : username[v] = n /\ Rejected(u, v)

\* What may wait in the event queue of u, on the way to the server and on the
\* connection of u.
Carries(e) == e.op \in {"offerReceived", "answerReceived", "offerIsReady", "answerIsReady"}
OneEvents(u) ==
    {e \in Event :
        /\ Carries(e) => e.body.pc[2] = 2
        /\ e.op = "offerReceived" => <<e.body.pc[1], username[u]>> \in Dials
        /\ e.op = "answerReceived" => e.body.kind = "answer" /\ ~Caller(e.body.pc[1])
        /\ e.op = "offerIsReady" => <<u, e.peer>> \in Dials
        /\ e.op = "answerIsReady" => ~Caller(u)
        /\ e.op = "rejectReceived" => RejectedBy(u, e.peer)}
OneRequests(u) ==
    {m \in Request :
        /\ m.kind \in Described => m.body.pc[2] = 2
        /\ m.kind = "offer" => <<u, m.to>> \in Dials
        /\ m.kind = "answer" => m.body.kind = "answer" /\ ~Caller(u)
        /\ m.kind = "reject" => \E v \in Users : username[v] = m.to /\ Rejected(v, u)}
OneForwards(u) ==
    {m \in Server!Forward :
        /\ m.from # NoName
        /\ m.kind \in Described => m.body.pc[2] = 2
        /\ m.kind = "offer" => <<m.body.pc[1], username[u]>> \in Dials
        /\ m.kind = "answer" => m.body.kind = "answer" /\ ~Caller(m.body.pc[1])
        /\ m.kind = "reject" => RejectedBy(u, m.from)}

\* u runs, has lost no connection and is registered or about to be.
OneLine(u) ==
    /\ alive[u]
    /\ ~linked[u] => link[u] = 0
    /\ username[u] # NoName /\ peerNames[<<u, 1>>] = NoName =>
           up[u] # <<>> /\ Head(up[u]).kind = "register"

OneEntry(u, n, c) ==
    /\ c.id = 1 => c.local = "none" /\ n = username[u]
    /\ c.id # 1 => c.id = 2 /\ c.local # "none"
    /\ c.local = "offer" => <<u, n>> \in Dials
    /\ c.local = "answer" => c.remote # NoSdp /\ <<c.remote.pc[1], username[u]>> \in Dials
    /\ c.remote # NoSdp => c.remote.pc[2] = 2
    /\ c.remote = NoSdp => c.state = "new"

\* u has one entry for a call once it has made it.
OneEntries(u) ==
    /\ username[u] = NoName => made[u] = 0
    /\ username[u] # NoName => made[u] \in {1, 2}
    /\ Caller(u) /\ made[u] = 2 => calls[u] # 0
    /\ \A n \in Keys : peerConnections[u][n] # NoConn => OneEntry(u, n, peerConnections[u][n])
    /\ \A n, m \in Keys : InCall(u, n) /\ InCall(u, m) => n = m
    /\ made[u] = 2 => \E n \in Keys : InCall(u, n)
    /\ \A n \in Keys : peerSdps[u][n] # NoSdp => peerSdps[u][n].pc[2] = 2

\* The window shows the call from the time the descriptions are exchanged
\* until it is closed, and waits for an answer unless a reject is under way.
OneWindow(u) ==
    /\ button[u] = "endCall" =>
           InCall(u, nameField[u]) /\ peerConnections[u][nameField[u]].remote # NoSdp
    /\ \A n \in Keys : InCall(u, n) =>
           LET c == peerConnections[u][n] IN
           /\ c.remote # NoSdp /\ c.state # "closed" => button[u] = "endCall" /\ nameField[u] = n
           /\ c.remote = NoSdp =>
                  (button[u] = "connecting" /\ nameField[u] = n) \/ RejectedBy(u, n)
    /\ popup[u] # NoName => \E v \in Users : username[v] = popup[u] /\ Asked(v, u)

Sounds == {"connectionReady", "endConnection"}
Waits(q, op) == \E i \in 1..Len(q) : q[i].op = op
EndsLast(q) ==
    \A i, j \in 1..Len(q) : q[i].op \in Sounds /\ q[j].op = "endConnection" => i <= j

\* Whatever was opened for the call is closed, by the click that ends it or by
\* the event that is the last one of the call.
OneSound(u) ==
    /\ EndsLast(gui[u])
    /\ Waits(gui[u], "endConnection") => Over(u)
    /\ mic[u] \/ speaker[u] \/ Waits(gui[u], "connectionReady") =>
           button[u] = "endCall" \/ Waits(gui[u], "endConnection")
    /\ button[u] = "endCall" /\ Over(u) => Waits(gui[u], "endConnection")

OneUser(u) == OneLine(u) /\ OneEntries(u) /\ OneWindow(u) /\ OneSound(u)
OneQueues(u) == gui[u] \in Seq(OneEvents(u)) /\ up[u] \in Seq(OneRequests(u))
OneBox(u) == inbox[<<u, 1>>] \in Seq(OneForwards(u))

OneInv == \A u \in Users : OneUser(u) /\ OneQueues(u) /\ OneBox(u)

\* Everything that is proved of the call.
CallInv ==
    /\ IInv /\ ClientInv /\ Server!DirectoryLive /\ Numbered /\ InOrder /\ RoleInv
    /\ OneInv

----------------------------------------------------------------------------
(* Queues. *)

LEMMA OneMoreEvent ==
    ASSUME NEW q \in Seq(Event), NEW e \in Event, EndsLast(q),
           e.op \in Sounds => ~Waits(q, "endConnection")
    PROVE  /\ EndsLast(q \o <<e>>)
           /\ \A op : Waits(q \o <<e>>, op) <=> Waits(q, op) \/ op = e.op
<1> DEFINE r == q \o <<e>>
<1>1. /\ Len(q) \in Nat /\ Len(r) = Len(q) + 1 /\ r[Len(q) + 1] = e
      /\ \A i \in 1..Len(q) : r[i] = q[i]
  OBVIOUS
<1> HIDE DEF r
<1>2. \A i \in 1..Len(r) : i \in 1..Len(q) \/ i = Len(q) + 1
  BY <1>1
<1>3. \A i \in 1..Len(q) : i \in 1..Len(r)
  BY <1>1
<1>4. Len(q) + 1 \in 1..Len(r)
  BY <1>1
<1>5. \A op : Waits(r, op) <=> Waits(q, op) \/ op = e.op
  BY <1>1, <1>2, <1>3, <1>4 DEF Waits
<1>6. EndsLast(r)
  <2> SUFFICES ASSUME NEW i \in 1..Len(r), NEW j \in 1..Len(r),
                      r[i].op \in Sounds, r[j].op = "endConnection"
               PROVE  i <= j
    BY DEF EndsLast
  <2>1. CASE j = Len(q) + 1
    BY <1>1, <1>2, <2>1
  <2>2. CASE j # Len(q) + 1
    <3>1. j \in 1..Len(q) /\ q[j].op = "endConnection"
      BY <1>1, <1>2, <2>2
    <3>2. i # Len(q) + 1
      BY <1>1, <3>1 DEF Waits
    <3>3. i \in 1..Len(q) /\ q[i].op \in Sounds
      BY <1>1, <1>2, <3>2
    <3> QED
      BY <3>1, <3>3 DEF EndsLast
  <2> QED
    BY <2>1, <2>2
<1> QED
  BY <1>5, <1>6 DEF r

LEMMA OneLessEvent ==
    ASSUME NEW q \in Seq(Event), q # <<>>, EndsLast(q)
    PROVE  /\ EndsLast(Tail(q)) /\ Waits(q, Head(q).op)
           /\ \A op : Waits(Tail(q), op) => Waits(q, op)
           /\ \A op : op # Head(q).op /\ Waits(q, op) => Waits(Tail(q), op)
           /\ Head(q).op = "endConnection" => \A op \in Sounds : ~Waits(Tail(q), op)
<1> DEFINE t == Tail(q)
<1>1. /\ Len(q) \in Nat /\ Len(q) > 0 /\ Len(t) = Len(q) - 1 /\ Head(q) = q[1]
      /\ \A i \in 1..Len(t) : t[i] = q[i + 1]
  OBVIOUS
<1> HIDE DEF t
<1>2. \A i \in 1..Len(t) : i + 1 \in 1..Len(q) /\ i \in Nat /\ i >= 1
  BY <1>1
<1>3. 1 \in 1..Len(q)
  BY <1>1
<1>4. Waits(q, Head(q).op)
  BY <1>1, <1>3 DEF Waits
<1>5. \A op : Waits(t, op) => Waits(q, op)
  BY <1>1, <1>2 DEF Waits
<1>6. ASSUME NEW op, op # Head(q).op, Waits(q, op) PROVE Waits(t, op)
  <2>1. PICK i \in 1..Len(q) : q[i].op = op
    BY <1>6 DEF Waits
  <2>2. i # 1
    BY <1>1, <1>6, <2>1
  <2>3. i - 1 \in 1..Len(t) /\ (i - 1) + 1 = i
    BY <1>1, <2>2
  <2> QED
    BY <1>1, <2>1, <2>3 DEF Waits
<1>7. EndsLast(t)
  <2> SUFFICES ASSUME NEW i \in 1..Len(t), NEW j \in 1..Len(t),
                      t[i].op \in Sounds, t[j].op = "endConnection"
               PROVE  i <= j
    BY DEF EndsLast
  <2>1. i + 1 <= j + 1
    BY <1>1, <1>2 DEF EndsLast
  <2> QED
    BY <1>2, <2>1
<1>8. ASSUME Head(q).op = "endConnection", NEW op \in Sounds, Waits(t, op) PROVE FALSE
  <2>1. PICK i \in 1..Len(t) : t[i].op = op
    BY <1>8 DEF Waits
  <2>2. i + 1 <= 1
    BY <1>1, <1>2, <1>3, <1>8, <2>1 DEF EndsLast
  <2> QED
    BY <1>2, <2>2
<1> QED
  BY <1>4, <1>5, <1>6, <1>7, <1>8 DEF t

LEMMA SeqMono ==
    ASSUME NEW S, NEW T, S \subseteq T, NEW q \in Seq(S)
    PROVE  q \in Seq(T)
  OBVIOUS

----------------------------------------------------------------------------
(* What is known of the two sides of a call. *)

\* A name has one owner, who is not a caller if the name is dialled.
LEMMA NameOwner ==
    ASSUME OneCall, ClientInv, NEW u \in Users, username[u] # NoName
    PROVE  /\ \A v \in Users : username[v] = username[u] => v = u
           /\ \A v \in Users : <<v, username[u]>> \in Dials => ~Caller(u)
           /\ \A v, w \in Users : <<v, username[u]>> \in Dials /\ <<w, username[u]>> \in Dials
                 => v = w
<1>1. <<u, username[u]>> \in Takes /\ username[u] \in Names
  BY CallAssumption DEF ClientInv, NamesTaken
<1>2. \A v \in Users : username[v] = username[u] => <<v, username[u]>> \in Takes
  BY DEF ClientInv, NamesTaken
<1>3. \A v \in Users : <<v, username[u]>> \in Dials => username[u] \in Dialled
  BY CallAssumption DEF Dialled
<1> QED
  BY <1>1, <1>2, <1>3 DEF OneCall, NamesDistinct, OneWay, OneCaller

\* What is known of a client's second peer connection, or is under way, was
\* made by the call.
LEMMA CallIsMade ==
    ASSUME CallInv, NEW u \in Users, NEW n \in Keys, MadeBy(u, n, 2)
    PROVE  InCall(u, n) /\ peerConnections[u][n].gathered /\ made[u] = 2
<1> DEFINE c == peerConnections[u][n]
<1>1. c # NoConn /\ 2 <= c.id /\ (c.id = 2 => c.gathered)
  BY DEF MadeBy
<1>2. OneEntry(u, n, c) /\ c.id <= made[u] /\ OneEntries(u)
  BY <1>1 DEF CallInv, OneInv, OneUser, OneEntries, Numbered
<1>3. c.id = 2
  BY <1>1, <1>2 DEF OneEntry
<1>4. made[u] \in 0..MaxMade /\ MaxMade \in Nat
  BY CallAssumption DEF CallInv, IInv, CallTypeOK
<1>5. made[u] = 2
  BY <1>2, <1>3, <1>4 DEF OneEntries
<1> QED
  BY <1>1, <1>3, <1>5 DEF InCall

LEMMA KnownIsMade ==
    ASSUME CallInv, NEW v \in Users, NEW u \in Users, username[u] \in Names, Knows(u, v, 2)
    PROVE  MadeBy(v, username[u], 2)
<1>1. 2 \in 1..MaxMade
  <2>1. PICK n \in Keys :
            LET d == peerSdps[u][n]
                c == peerConnections[u][n] IN
            \/ d # NoSdp /\ d.pc = <<v, 2>>
            \/ c # NoConn /\ c.remote # NoSdp /\ c.remote.pc = <<v, 2>>
    BY DEF Knows
  <2>2. /\ peerSdps[u][n] \in Body
        /\ peerConnections[u][n] # NoConn => peerConnections[u][n].remote \in Body
    BY DEF CallInv, IInv, CallTypeOK, Conn
  <2>3. PICK d \in Sdp : d.pc = <<v, 2>>
    BY <2>1, <2>2 DEF Body
  <2> QED
    BY <2>3, SdpParts
<1>2. Orderly(v, u, username[u])
  BY DEF CallInv, InOrder, Keys
<1> QED
  BY <1>1, <1>2 DEF Orderly

\* The entry of a call and the description of the other side attached to it.
LEMMA CallEntry ==
    ASSUME CallInv, NEW u \in Users, NEW n \in Keys, InCall(u, n)
    PROVE  LET c == peerConnections[u][n] IN
           /\ c \in Conn /\ c # NoConn /\ c.id = 2 /\ c.local \in {"offer", "answer"}
           /\ made[u] = 2 /\ username[u] \in Names
           /\ \A m \in Keys : InCall(u, m) => m = n
           /\ OneEntry(u, n, c) /\ RightConn(u, n, isOfferer[u], c)
           /\ c.remote # NoSdp =>
                  /\ c.remote \in Sdp /\ c.remote.pc[1] \in Users
                  /\ username[c.remote.pc[1]] = n /\ Knows(u, c.remote.pc[1], 2)
<1> DEFINE c == peerConnections[u][n]
<1>1. c # NoConn /\ c \in Conn /\ c.id = 2
  BY DEF InCall, CallInv, IInv, CallTypeOK
<1>2. GoodConn(u, n, c) /\ OneEntry(u, n, c) /\ RightConn(u, n, isOfferer[u], c) /\ c.id <= made[u]
  BY <1>1 DEF CallInv, IInv, Attached, OneInv, OneUser, OneEntries, RoleInv, RightRole, RightConns,
              Numbered
<1>3. c.local \in {"offer", "answer"}
  BY <1>1, <1>2 DEF OneEntry, Conn
<1>4. username[u] # NoName
  BY <1>1 DEF CallInv, ClientInv, Unnamed
<1>5. username[u] \in Names /\ made[u] = 2
  BY <1>1, <1>2, <1>4 DEF CallInv, OneInv, OneUser, OneEntries, IInv, CallTypeOK
<1>6. \A m \in Keys : InCall(u, m) => m = n
  BY DEF CallInv, OneInv, OneUser, OneEntries
<1>7. ASSUME c.remote # NoSdp
      PROVE  /\ c.remote \in Sdp /\ c.remote.pc[1] \in Users
             /\ username[c.remote.pc[1]] = n /\ Knows(u, c.remote.pc[1], 2)
  <2>1. c.remote \in Sdp
    BY <1>1, <1>7 DEF Conn, Body
  <2>2. c.remote.pc = <<c.remote.pc[1], 2>> /\ c.remote.pc[1] \in Users
    BY <1>2, <1>7, <2>1, SdpParts DEF OneEntry
  <2> QED
    BY <1>1, <1>2, <1>7, <2>1, <2>2 DEF GoodConn, Knows
<1> QED
  BY <1>1, <1>2, <1>3, <1>5, <1>6, <1>7

\* A description that u has stored under the name of v.
LEMMA StoredIsKnown ==
    ASSUME OneCall, CallInv, NEW u \in Users, NEW v \in Users, username[v] # NoName,
           peerSdps[u][username[v]] # NoSdp
    PROVE  Knows(u, v, 2)
<1> DEFINE d == peerSdps[u][username[v]]
<1>1. username[v] \in Keys
  BY DEF CallInv, IInv, CallTypeOK, Keys
<1>2. d \in Sdp /\ username[d.pc[1]] = username[v] /\ d.pc[2] = 2
  BY <1>1 DEF CallInv, IInv, CallTypeOK, Stored, Body, OneInv, OneUser, OneEntries
<1>3. d.pc[1] \in Users /\ d.pc = <<d.pc[1], 2>>
  BY <1>2, SdpParts
<1>4. d.pc[1] = v
  BY <1>2, <1>3, NameOwner DEF CallInv
<1> QED
  BY <1>1, <1>2, <1>3, <1>4 DEF Knows

\* Who asks has called and has not been answered.
LEMMA AskedIsCalled ==
    ASSUME OneCall, CallInv, NEW u \in Users, NEW v \in Users, Asked(u, v)
    PROVE  /\ username[u] \in Names /\ username[v] \in Names /\ Caller(u)
           /\ Knows(v, u, 2) /\ InCall(u, username[v])
           /\ peerConnections[u][username[v]].remote = NoSdp
           /\ \A w \in Users : <<w, username[v]>> \in Dials => w = u
<1> DEFINE c == peerConnections[u][username[v]]
<1>1. username[u] \in Names /\ username[v] \in Names /\ Caller(u)
  <2>1. username[u] \in Names \cup {NoName} /\ username[v] \in Names \cup {NoName}
    BY DEF CallInv, IInv, CallTypeOK
  <2>2. username[v] \in Keys /\ username[u] # NoName /\ <<u, username[v]>> \in Dials
    BY CallAssumption DEF Asked
  <2>3. username[v] # NoName
    BY <2>2, CallAssumption
  <2> QED
    BY <2>1, <2>2, <2>3 DEF Caller
<1>2. Knows(v, u, 2)
  BY <1>1, StoredIsKnown DEF Asked
<1>3. InCall(u, username[v])
  BY <1>1, <1>2, KnownIsMade, CallIsMade DEF Keys
<1>4. c.remote = NoSdp
  <2> SUFFICES ASSUME c.remote # NoSdp PROVE FALSE
    OBVIOUS
  <2>1. c.remote.pc[1] \in Users /\ username[c.remote.pc[1]] = username[v] /\ Knows(u, c.remote.pc[1], 2)
    BY <1>1, <1>3, CallEntry DEF Keys
  <2>2. username[v] # NoName
    BY <1>1, CallAssumption DEF Keys
  <2>3. c.remote.pc[1] = v
    BY <2>1, <2>2, NameOwner DEF CallInv
  <2>4. made[v] = 2
    BY <1>1, <2>1, <2>3, KnownIsMade, CallIsMade DEF Keys
  <2> QED
    BY <2>4 DEF Asked
<1>5. \A w \in Users : <<w, username[v]>> \in Dials => w = u
  BY <1>1, CallAssumption, NameOwner DEF Asked, CallInv, Keys
<1> QED
  BY <1>1, <1>2, <1>3, <1>4, <1>5

\* The callee of a call that has been asked or accepted knows its caller.
LEMMA CalleeKnows ==
    ASSUME OneCall, CallInv, NEW v \in Users, ~Caller(v), NEW n \in Keys, InCall(v, n)
    PROVE  LET r == peerConnections[v][n].remote IN
           /\ peerConnections[v][n].local = "answer"
           /\ r # NoSdp /\ r.pc[1] \in Users /\ username[r.pc[1]] = n
           /\ <<r.pc[1], username[v]>> \in Dials /\ Knows(v, r.pc[1], 2)
<1>1. peerConnections[v][n].local = "answer"
  BY CallEntry DEF OneEntry, Caller
<1> QED
  BY <1>1, CallEntry DEF OneEntry

\* The event at the head of the queue of u, with its description.
LEMMA Received ==
    ASSUME CallInv, NEW u \in Users, NEW op \in {"offerReceived", "answerReceived"},
           NextEvent(u, op)
    PROVE  LET e == Head(gui[u])
               v == e.body.pc[1] IN
           /\ e \in OneEvents(u) /\ e.op = op /\ username[u] \in Names
           /\ v \in Users /\ username[v] = e.peer /\ e.peer \in Names
           /\ e.body \in Sdp /\ e.body.pc = <<v, 2>>
           /\ MadeBy(v, username[u], 2) /\ ~Knows(u, v, 2)
<1> DEFINE e == Head(gui[u])
           v == e.body.pc[1]
<1>1. gui[u] # <<>> /\ e.op = op
  BY DEF NextEvent
<1>2. gui[u] \in Seq(Event) /\ gui[u] \in Seq(OneEvents(u))
  BY DEF CallInv, OneInv, OneQueues, IInv, CallTypeOK
<1>3. /\ e \in OneEvents(u) /\ e \in Event
      /\ 1 \in 1..Len(gui[u]) /\ e = gui[u][1]
  BY <1>1, <1>2, TailElements
<1>4. GoodEvent(u, e)
  BY <1>3 DEF CallInv, IInv, Events
<1>5. e.peer \in Names /\ e.body \in Sdp /\ username[v] = e.peer /\ e.body.pc[2] = 2
  BY <1>1, <1>3, <1>4 DEF GoodEvent, OneEvents, Carries
<1>6. v \in Users /\ e.body.pc = <<v, 2>> /\ 2 \in 1..MaxMade
  BY <1>5, SdpParts
<1>7. username[u] \in Names
  BY <1>1 DEF CallInv, ClientInv, Unnamed, IInv, CallTypeOK
<1>8. UnderWay(Queues(v, u), Items(v, username[u]), 2)
  <2>1. e \in Heard(v) /\ Number(e) = 2
    BY <1>1, <1>3, <1>5, CallAssumption DEF Heard, Number
  <2>2. Queues(v, u)[1] = gui[u] /\ Items(v, username[u])[1] = Heard(v)
    BY DEF Queues, Items
  <2> HIDE DEF e
  <2>3. 1 \in 1..4 /\ e = Queues(v, u)[1][1] /\ 1 \in 1..Len(Queues(v, u)[1])
    BY <1>3, <2>2
  <2>4. Queues(v, u)[1][1] \in Items(v, username[u])[1] /\ Number(Queues(v, u)[1][1]) = 2
    BY <2>1, <2>2, <2>3
  <2> QED
    BY <2>3, <2>4 DEF UnderWay
<1>9. Orderly(v, u, username[u])
  BY <1>6, <1>7 DEF CallInv, InOrder, Keys
<1>10. MadeBy(v, username[u], 2) /\ \A j \in 1..MaxMade : Knows(u, v, j) => j < 2
  BY <1>6, <1>8, <1>9 DEF Orderly
<1> QED
  BY <1>1, <1>3, <1>5, <1>6, <1>7, <1>10

\* An offer finds a callee who has not been asked before.
LEMMA OfferFits ==
    ASSUME OneCall, CallInv, NEW u \in Users, NextEvent(u, "offerReceived")
    PROVE  LET e == Head(gui[u])
               v == e.body.pc[1] IN
           /\ v \in Users /\ username[v] = e.peer /\ e.peer \in Names
           /\ e.body \in Sdp /\ e.body.pc[2] = 2
           /\ <<v, username[u]>> \in Dials /\ ~Caller(u) /\ made[u] = 1
           /\ \A w \in Users : ~Asked(w, u)
<1> DEFINE e == Head(gui[u])
           v == e.body.pc[1]
<1>1. /\ e \in OneEvents(u) /\ e.op = "offerReceived" /\ username[u] \in Names
      /\ v \in Users /\ username[v] = e.peer /\ e.peer \in Names
      /\ e.body \in Sdp /\ e.body.pc = <<v, 2>> /\ ~Knows(u, v, 2)
  BY Received
<1>2. <<v, username[u]>> \in Dials
  BY <1>1 DEF OneEvents
<1>3. ~Caller(u) /\ \A w \in Users : <<w, username[u]>> \in Dials => w = v
  BY <1>1, <1>2, NameOwner, CallAssumption DEF CallInv, Keys
<1>4. \A w \in Users : ~Asked(w, u)
  BY <1>1, <1>3, AskedIsCalled DEF Asked
<1>5. \A n \in Keys : ~InCall(u, n)
  BY <1>1, <1>3, CalleeKnows
<1>6. made[u] = 1
  BY <1>1, <1>5, CallAssumption DEF CallInv, OneInv, OneUser, OneEntries, Keys
<1> QED
  BY <1>1, <1>2, <1>3, <1>4, <1>6, SdpParts

\* An answer finds a caller who waits for it, with an offer pending.
LEMMA AnswerFits ==
    ASSUME OneCall, CallInv, NEW u \in Users, NextEvent(u, "answerReceived")
    PROVE  LET e == Head(gui[u])
               c == peerConnections[u][e.peer] IN
           /\ e.peer \in Names /\ e.body \in Sdp /\ e.body.pc[2] = 2 /\ e.body.kind = "answer"
           /\ username[e.body.pc[1]] = e.peer
           /\ InCall(u, e.peer) /\ Caller(u) /\ isOfferer[u]
           /\ c.local = "offer" /\ c.remote = NoSdp /\ c.state = "new"
           /\ button[u] = "connecting" /\ nameField[u] = e.peer
<1> DEFINE e == Head(gui[u])
           v == e.body.pc[1]
           c == peerConnections[u][e.peer]
           d == peerConnections[v][username[u]]
<1>1. /\ e \in OneEvents(u) /\ e.op = "answerReceived" /\ username[u] \in Names
      /\ v \in Users /\ username[v] = e.peer /\ e.peer \in Names
      /\ e.body \in Sdp /\ e.body.pc = <<v, 2>>
      /\ MadeBy(v, username[u], 2) /\ ~Knows(u, v, 2)
  BY Received
<1>2. e.body.kind = "answer" /\ ~Caller(v)
  BY <1>1 DEF OneEvents
<1>3. InCall(v, username[u]) /\ made[v] = 2 /\ username[u] # NoName /\ e.peer # NoName
  BY <1>1, CallIsMade, CallAssumption DEF Keys
<1>4. /\ d.remote.pc[1] \in Users /\ username[d.remote.pc[1]] = username[u]
      /\ <<d.remote.pc[1], username[v]>> \in Dials /\ Knows(v, d.remote.pc[1], 2)
  BY <1>1, <1>2, <1>3, CalleeKnows DEF Keys
<1>5. d.remote.pc[1] = u
  BY <1>3, <1>4, NameOwner DEF CallInv
<1>6. Caller(u) /\ InCall(u, e.peer)
  <2>1. Caller(u) /\ Knows(v, u, 2)
    BY <1>1, <1>4, <1>5 DEF Caller, Keys
  <2> QED
    BY <1>1, <2>1, KnownIsMade, CallIsMade DEF Keys
<1>7. /\ c.local = "offer" /\ isOfferer[u] /\ OneEntry(u, e.peer, c)
      /\ c.remote # NoSdp => /\ c.remote.pc[1] \in Users /\ username[c.remote.pc[1]] = e.peer
                             /\ Knows(u, c.remote.pc[1], 2)
  <2>1. e.peer \in Keys
    BY <1>1 DEF Keys
  <2>2. /\ c.local \in {"offer", "answer"} /\ OneEntry(u, e.peer, c)
        /\ RightConn(u, e.peer, isOfferer[u], c)
        /\ c.remote # NoSdp => /\ c.remote.pc[1] \in Users /\ username[c.remote.pc[1]] = e.peer
                               /\ Knows(u, c.remote.pc[1], 2)
    BY <1>6, <2>1, CallEntry
  <2>3. c.local = "offer" /\ isOfferer[u]
    BY <1>6, <2>2 DEF RightConn
  <2> QED
    BY <2>2, <2>3
<1>8. c.remote = NoSdp
  BY <1>1, <1>3, <1>7, NameOwner DEF CallInv
<1>9. c.state = "new"
  BY <1>7, <1>8 DEF OneEntry
<1>10. ~RejectedBy(u, e.peer)
  <2> SUFFICES ASSUME NEW w \in Users, username[w] = e.peer, Rejected(u, w) PROVE FALSE
    BY DEF RejectedBy
  <2>1. w = v
    BY <1>1, <1>3, NameOwner DEF CallInv
  <2> QED
    BY <1>3, <2>1 DEF Rejected, Asked
<1>11. button[u] = "connecting" /\ nameField[u] = e.peer
  BY <1>1, <1>6, <1>8, <1>10 DEF CallInv, OneInv, OneUser, OneWindow, Keys
<1> QED
  BY <1>1, <1>2, <1>6, <1>7, <1>8, <1>9, <1>11, SdpParts

\* A popup asks for a caller of whom its user has no peer connection yet.
LEMMA PopupFits ==
    ASSUME OneCall, CallInv, NEW u \in Users, popup[u] # NoName
    PROVE  \E v \in Users :
               /\ username[v] = popup[u] /\ popup[u] \in Names /\ Asked(v, u)
               /\ peerSdps[u][popup[u]] \in Sdp /\ peerSdps[u][popup[u]].pc[1] = v
               /\ peerSdps[u][popup[u]].pc[2] = 2
               /\ peerConnections[u][popup[u]] = NoConn
<1>1. PICK v \in Users : username[v] = popup[u] /\ Asked(v, u)
  BY DEF CallInv, OneInv, OneUser, OneWindow
<1> DEFINE n == popup[u]
           d == peerSdps[u][n]
<1>2. n \in Names /\ n \in Keys
  BY DEF CallInv, IInv, CallTypeOK, Keys
<1>3. d \in Sdp /\ username[d.pc[1]] = n /\ d.pc[2] = 2
  BY <1>1, <1>2 DEF Asked, CallInv, IInv, CallTypeOK, Stored, Body, OneInv, OneUser, OneEntries
<1>4. d.pc[1] = v
  BY <1>1, <1>3, NameOwner, SdpParts DEF CallInv
<1>5. peerConnections[u][n] = NoConn
  <2> SUFFICES ASSUME peerConnections[u][n] # NoConn PROVE FALSE
    OBVIOUS
  <2>1. OneEntry(u, n, peerConnections[u][n]) /\ peerConnections[u][n].id <= 1
    BY <1>1, <1>2 DEF Asked, CallInv, OneInv, OneUser, OneEntries, Numbered
  <2>2. username[v] = username[u]
    BY <1>1, <2>1 DEF OneEntry
  <2>3. v = u
    BY <1>1, <2>2, NameOwner DEF CallInv
  <2> QED
    BY <1>1, <2>3, AskedIsCalled DEF Asked
<1> QED
  BY <1>1, <1>2, <1>3, <1>4, <1>5

----------------------------------------------------------------------------
(* What was said stays true. *)

LEMMA NamesStay ==
    ASSUME NEW a \in Users, Acts(a), NEW w \in Users, username[w] # NoName, IInv
    PROVE  username'[w] = username[w]
<1>1. CASE UNCHANGED username
  BY <1>1
<1>2. ASSUME NEW n \in Names, ClickSubmit(a, n) PROVE username'[w] = username[w]
  BY <1>2 DEF ClickSubmit, IInv, CallTypeOK
<1> QED
  BY <1>1, <1>2, NamedOnce

\* The first event of a queue, by what it is.
LEMMA EndIsOver ==
    ASSUME CallInv, NEW u \in Users, NextEvent(u, "endConnection")
    PROVE  Over(u) /\ made[u] = 2
<1>1. gui[u] \in Seq(Event) /\ gui[u] # <<>> /\ EndsLast(gui[u]) /\ Head(gui[u]).op = "endConnection"
  BY DEF NextEvent, CallInv, IInv, CallTypeOK, OneInv, OneUser, OneSound
<1>2. Waits(gui[u], "endConnection")
  BY <1>1, OneLessEvent
<1>3. Over(u)
  BY <1>2 DEF CallInv, OneInv, OneUser, OneSound
<1> QED
  BY <1>3, CallEntry DEF Over

LEMMA AskedKept ==
    ASSUME OneCall, CallInv, NEW a \in Users, Acts(a), NEW u \in Users, NEW v \in Users, Asked(u, v)
    PROVE  /\ Asked(u, v)' \/ (v = a /\ ClickAccept(a))
           /\ Rejected(u, v) => Rejected(u, v)'
<1>1. username[u] \in Names /\ username[v] \in Names /\ username[u] # NoName /\ username[v] # NoName
  BY AskedIsCalled, CallAssumption DEF Keys
<1>2. username'[u] = username[u] /\ username'[v] = username[v]
  BY <1>1, NamesStay DEF CallInv
<1>3. v = a => ~OfferReceived(a) /\ ~AnswerReceived(a) /\ ~EndConnection(a)
  <2>1. v = a => ~OfferReceived(a)
    BY OfferFits DEF OfferReceived
  <2>2. v = a => ~AnswerReceived(a)
    BY AnswerFits DEF AnswerReceived, Asked
  <2>3. v = a => ~EndConnection(a)
    BY EndIsOver DEF EndConnection, Asked
  <2> QED
    BY <2>1, <2>2, <2>3
<1>4. (v = a /\ ClickAccept(a)) \/ (made'[v] = made[v] /\ peerSdps'[v] = peerSdps[v])
  <2>1. CASE v # a
    BY <2>1, OthersUntouched DEF CallInv, IInv, Untouched
  <2>2. CASE v = a
    <3>1. ASSUME NEW n \in Names, ClickSubmit(a, n) PROVE FALSE
      BY <1>1, <2>2, <3>1 DEF ClickSubmit
    <3>2. ASSUME NEW n \in Keys, <<a, n>> \in Dials PROVE FALSE
      BY <2>2, <3>2 DEF Asked, Caller
    <3>3. CASE ClickEnd(a) \/ ClickReject(a)
      BY <2>2, <3>3 DEF ClickEnd, ClickReject, pcVars
    <3>4. CASE Slot(a)
      BY <1>3, <2>2, <3>4 DEF Slot, RejectReceived, SendOffer, SendAnswer, SendDescription,
                              ConnectionReady, pcVars
    <3>5. ASSUME NEW n \in Keys, Media(a, n) PROVE UNCHANGED made /\ UNCHANGED peerSdps
      BY <3>5 DEF Media, GatherDone, TrackReceived, PcConnected, PcClosed, PcFailed
    <3>6. CASE Network(a)
      BY <3>6 DEF Network, LinkUp, LinkLost, ServerDisconnects, ServerHandles, ClientHandles,
                  clientVars, pcVars
    <3> QED
      BY <2>2, <3>1, <3>2, <3>3, <3>4, <3>5, <3>6 DEF Acts, Click
  <2> QED
    BY <2>1, <2>2
<1>5. Asked(u, v)' \/ (v = a /\ ClickAccept(a))
  BY <1>1, <1>2, <1>4 DEF Asked, Caller, Keys
<1>6. Rejected(u, v) => popup'[v] = NoName
  BY <1>3, PopupSteps DEF Rejected, CallInv
<1>7. Rejected(u, v) => ~(v = a /\ ClickAccept(a))
  BY DEF Rejected, ClickAccept
<1> QED
  BY <1>5, <1>6, <1>7 DEF Rejected

LEMMA RejectedKept ==
    ASSUME OneCall, CallInv, NEW a \in Users, Acts(a), NEW u \in Users, NEW n \in Keys
    PROVE  /\ RejectedBy(u, n) => RejectedBy(u, n)'
           /\ (\E v \in Users : username[v] = n /\ Rejected(v, u)) =>
                  (\E v \in Users : username[v] = n /\ Rejected(v, u))'
<1>1. ASSUME NEW v \in Users, Rejected(u, v) PROVE Rejected(u, v)' /\ username'[v] = username[v]
  <2>1. Asked(u, v) /\ username[v] # NoName
    BY <1>1, AskedIsCalled, CallAssumption DEF Rejected, Keys
  <2> QED
    BY <1>1, <2>1, AskedKept, NamesStay DEF CallInv
<1>2. ASSUME NEW v \in Users, Rejected(v, u) PROVE Rejected(v, u)' /\ username'[v] = username[v]
  <2>1. Asked(v, u) /\ username[v] # NoName
    BY <1>2, AskedIsCalled, CallAssumption DEF Rejected, Keys
  <2> QED
    BY <1>2, <2>1, AskedKept, NamesStay DEF CallInv
<1> QED
  BY <1>1, <1>2 DEF RejectedBy

\* What may wait for u may wait after the step.
LEMMA SetsKept ==
    ASSUME OneCall, CallInv, NEW a \in Users, Acts(a), NEW u \in Users, username[u] # NoName
    PROVE  /\ OneEvents(u) \subseteq OneEvents(u)'
           /\ OneRequests(u) \subseteq OneRequests(u)'
           /\ OneForwards(u) \subseteq OneForwards(u)'
<1>1. username'[u] = username[u]
  BY NamesStay DEF CallInv
<1>2. ASSUME NEW e \in OneEvents(u) PROVE e \in OneEvents(u)'
  <2>1. e \in Event /\ e.peer \in Keys
    BY <1>2 DEF OneEvents, Event
  <2>2. RejectedBy(u, e.peer) => RejectedBy(u, e.peer)'
    BY <2>1, RejectedKept
  <2> QED
    BY <1>1, <1>2, <2>1, <2>2 DEF OneEvents, Carries, Caller
<1>3. ASSUME NEW m \in OneRequests(u) PROVE m \in OneRequests(u)'
  <2>1. m \in Request /\ m.to \in Keys
    BY <1>3 DEF OneRequests, Request
  <2>2. (\E v \in Users : username[v] = m.to /\ Rejected(v, u)) =>
            (\E v \in Users : username[v] = m.to /\ Rejected(v, u))'
    BY <2>1, RejectedKept
  <2> QED
    BY <1>1, <1>3, <2>1, <2>2 DEF OneRequests, Caller
<1>4. ASSUME NEW m \in OneForwards(u) PROVE m \in OneForwards(u)'
  <2>1. m \in Server!Forward /\ m.from \in Keys
    BY <1>4 DEF OneForwards, Server!Forward, Keys
  <2>2. RejectedBy(u, m.from) => RejectedBy(u, m.from)'
    BY <2>1, RejectedKept
  <2> QED
    BY <1>1, <1>4, <2>1, <2>2 DEF OneForwards, Caller, Server!Forward
<1> QED
  BY <1>2, <1>3, <1>4

\* What waits before a step may wait after it.
LEMMA QueuesKept ==
    ASSUME OneCall, CallInv, NEW a \in Users, Acts(a), NEW u \in Users
    PROVE  /\ gui[u] \in Seq(OneEvents(u)')
           /\ up[u] \in Seq(OneRequests(u)')
           /\ inbox[<<u, 1>>] \in Seq(OneForwards(u)')
<1>1. /\ gui[u] \in Seq(OneEvents(u)) /\ up[u] \in Seq(OneRequests(u))
      /\ inbox[<<u, 1>>] \in Seq(OneForwards(u))
  BY DEF CallInv, OneInv, OneQueues, OneBox
<1>2. CASE username[u] = NoName
  <2>1. gui[u] = <<>> /\ up[u] = <<>> /\ link[u] = 0
    BY <1>2 DEF CallInv, ClientInv, Unnamed
  <2>2. 1 \in Links
    BY CallAssumption DEF Links
  <2>3. inbox[<<u, 1>>] = <<>>
    BY <2>1, <2>2 DEF CallInv, ClientInv, FreshLinks, IsNew
  <2>4. \A S : <<>> \in Seq(S)
    OBVIOUS
  <2> QED
    BY <2>1, <2>3, <2>4
<1>3. CASE username[u] # NoName
  <2> DEFINE A == OneEvents(u)
             B == OneEvents(u)'
             C == OneRequests(u)
             D == OneRequests(u)'
             E == OneForwards(u)
             F == OneForwards(u)'
  <2>1. A \subseteq B /\ C \subseteq D /\ E \subseteq F
    BY <1>3, SetsKept
  <2> HIDE DEF A, B, C, D, E, F
  <2>2. gui[u] \in Seq(B) /\ up[u] \in Seq(D) /\ inbox[<<u, 1>>] \in Seq(F)
    <3>1. gui[u] \in Seq(A) /\ up[u] \in Seq(C) /\ inbox[<<u, 1>>] \in Seq(E)
      BY <1>1 DEF A, C, E
    <3> QED
      BY <2>1, <3>1, SeqMono
  <2> QED
    BY <2>2 DEF B, D, F
<1> QED
  BY <1>2, <1>3

----------------------------------------------------------------------------
(* The queues of the user who acts. *)

LEMMA SoundPosted ==
    ASSUME OneCall, CallInv, NEW a \in Users, Acts(a), NEW op \in Sounds,
           Post(a, Queued(op, Blank, NoSdp)), ~Waits(gui[a], "endConnection")
    PROVE  /\ gui'[a] \in Seq(OneEvents(a)') /\ EndsLast(gui'[a])
           /\ \A o : Waits(gui'[a], o) <=> Waits(gui[a], o) \/ o = op
<1> DEFINE e == [op |-> op, peer |-> Blank, body |-> NoSdp]
           S == OneEvents(a)'
<1>1. e \in Event /\ e.op = op /\ e \in S
  BY DEF Event, Ops, Sounds, Keys, Body, OneEvents, Carries
<1>2. gui[a] \in Seq(Event) /\ EndsLast(gui[a]) /\ gui[a] \in Seq(S)
  BY QueuesKept DEF CallInv, IInv, CallTypeOK, OneInv, OneUser, OneSound
<1> HIDE DEF S
<1>3. gui'[a] = gui[a] \o <<e>>
  BY DEF Post, Queued, CallInv, IInv, CallTypeOK
<1> HIDE DEF e
<1>4. EndsLast(gui[a] \o <<e>>) /\ \A o : Waits(gui[a] \o <<e>>, o) <=> Waits(gui[a], o) \/ o = e.op
  BY <1>1, <1>2, OneMoreEvent
<1>5. <<e>> \in Seq(S)
  BY <1>1
<1>6. gui'[a] \in Seq(S)
  BY <1>2, <1>3, <1>5, ConcatElements
<1> QED
  BY <1>1, <1>3, <1>4, <1>6 DEF S

LEMMA EventPosted ==
    ASSUME OneCall, CallInv, NEW a \in Users, Acts(a), NEW op \in Ops \ Sounds, NEW n, NEW body,
           Post(a, Queued(op, n, body)), [op |-> op, peer |-> n, body |-> body] \in OneEvents(a)'
    PROVE  /\ gui'[a] \in Seq(OneEvents(a)') /\ EndsLast(gui'[a])
           /\ \A o \in Sounds : Waits(gui'[a], o) <=> Waits(gui[a], o)
<1> DEFINE e == [op |-> op, peer |-> n, body |-> body]
           S == OneEvents(a)'
<1>1. e \in Event /\ e.op = op /\ e \in S
  BY DEF OneEvents
<1>2. gui[a] \in Seq(Event) /\ EndsLast(gui[a]) /\ gui[a] \in Seq(S)
  BY QueuesKept DEF CallInv, IInv, CallTypeOK, OneInv, OneUser, OneSound
<1> HIDE DEF S
<1>3. gui'[a] = gui[a] \o <<e>>
  BY DEF Post, Queued, CallInv, IInv, CallTypeOK
<1> HIDE DEF e
<1>4. EndsLast(gui[a] \o <<e>>) /\ \A o : Waits(gui[a] \o <<e>>, o) <=> Waits(gui[a], o) \/ o = e.op
  BY <1>1, <1>2, OneMoreEvent
<1>5. <<e>> \in Seq(S)
  BY <1>1
<1>6. gui'[a] \in Seq(S)
  BY <1>2, <1>3, <1>5, ConcatElements
<1> QED
  BY <1>1, <1>3, <1>4, <1>6 DEF S

LEMMA EventConsumed ==
    ASSUME OneCall, CallInv, NEW a \in Users, Acts(a), NEW op, NextEvent(a, op), Consume(a)
    PROVE  /\ gui'[a] \in Seq(OneEvents(a)') /\ EndsLast(gui'[a])
           /\ Head(gui[a]) \in OneEvents(a) /\ Head(gui[a]).op = op
           /\ Waits(gui[a], op)
           /\ \A o : Waits(gui'[a], o) => Waits(gui[a], o)
           /\ \A o : o # op /\ Waits(gui[a], o) => Waits(gui'[a], o)
           /\ op = "endConnection" => \A o \in Sounds : ~Waits(gui'[a], o)
<1> DEFINE S == OneEvents(a)'
           R == OneEvents(a)
<1>1. gui[a] \in Seq(Event) /\ EndsLast(gui[a]) /\ gui[a] \in Seq(S) /\ gui[a] \in Seq(R)
  BY QueuesKept DEF CallInv, IInv, CallTypeOK, OneInv, OneUser, OneQueues, OneSound
<1>2. gui[a] # <<>> /\ Head(gui[a]).op = op /\ gui'[a] = Tail(gui[a])
  BY DEF NextEvent, Consume, CallInv, IInv, CallTypeOK
<1> HIDE DEF S, R
<1>3. Tail(gui[a]) \in Seq(S) /\ Head(gui[a]) \in R
  BY <1>1, <1>2, TailElements
<1> QED
  BY <1>1, <1>2, <1>3, OneLessEvent DEF S, R

LEMMA RequestEmitted ==
    ASSUME OneCall, CallInv, NEW a \in Users, Acts(a), NEW kind, NEW n, NEW body,
           Emit(a, kind, n, body), [kind |-> kind, to |-> n, body |-> body] \in OneRequests(a)'
    PROVE  /\ up'[a] \in Seq(OneRequests(a)')
           /\ up'[a] = Append(up[a], [kind |-> kind, to |-> n, body |-> body])
<1> DEFINE m == [kind |-> kind, to |-> n, body |-> body]
           S == OneRequests(a)'
<1>1. up[a] \in Seq(S) /\ m \in S
  BY QueuesKept
<1>2. up'[a] = Append(up[a], m)
  BY DEF Emit, CallInv, IInv, CallTypeOK
<1> HIDE DEF S, m
<1>3. Append(up[a], m) \in Seq(S)
  BY <1>1, AppendElements
<1> QED
  BY <1>2, <1>3 DEF S, m

\* Off the network the line stays as it is.
LEMMA LineStays ==
    ASSUME CallInv, NEW a \in Users, Click(a) \/ Slot(a) \/ (\E n \in Keys : Media(a, n)),
           alive'[a] = alive[a], username'[a] = username[a],
           up'[a] = up[a] \/ \E m : up'[a] = Append(up[a], m)
    PROVE  OneLine(a)'
<1>1. UNCHANGED <<serverVars, link, linked>>
  BY OffTheNetwork
<1>2. OneLine(a) /\ up[a] \in Seq(Request)
  BY DEF CallInv, OneInv, OneUser, IInv, CallTypeOK
<1>3. up[a] # <<>> => up'[a] # <<>> /\ Head(up'[a]) = Head(up[a])
  BY <1>2
<1> QED
  BY <1>1, <1>2, <1>3 DEF OneLine, serverVars

----------------------------------------------------------------------------
(* The entries of the user who acts. *)

\* No entry changes.
LEMMA EntriesStay ==
    ASSUME CallInv, NEW a \in Users,
           peerConnections'[a] = peerConnections[a], made'[a] = made[a], calls'[a] = calls[a],
           username'[a] = username[a],
           \A n \in Keys : peerSdps'[a][n] # NoSdp => peerSdps'[a][n].pc[2] = 2
    PROVE  OneEntries(a)' /\ (\A n \in Keys : InCall(a, n)' <=> InCall(a, n)) /\ (Over(a)' <=> Over(a))
<1>1. OneEntries(a)
  BY DEF CallInv, OneInv, OneUser
<1> QED
  BY <1>1 DEF OneEntries, OneEntry, InCall, Over, Caller, Keys

\* An entry changes and keeps its number.
LEMMA EntryChanges ==
    ASSUME CallInv, NEW a \in Users, NEW n \in Keys, NEW d \in Conn, peerConnections[a][n] # NoConn,
           d.id = peerConnections[a][n].id, OneEntry(a, n, d),
           peerConnections' = [peerConnections EXCEPT ![a][n] = d],
           made'[a] = made[a], calls'[a] = calls[a], username'[a] = username[a],
           \A m \in Keys : peerSdps'[a][m] # NoSdp => peerSdps'[a][m].pc[2] = 2
    PROVE  OneEntries(a)' /\ (\A m \in Keys : InCall(a, m)' <=> InCall(a, m))
<1>1. OneEntries(a) /\ d # NoConn
  BY CallAssumption DEF CallInv, OneInv, OneUser
<1>2. \A m \in Keys : peerConnections'[a][m] = IF m = n THEN d ELSE peerConnections[a][m]
  BY DEF CallInv, IInv, CallTypeOK
<1>3. \A m \in Keys : InCall(a, m)' <=> InCall(a, m)
  BY <1>1, <1>2 DEF InCall
<1>4. \A m \in Keys : peerConnections'[a][m] # NoConn => OneEntry(a, m, peerConnections[a][m])'
  BY <1>1, <1>2 DEF OneEntries, OneEntry
<1> QED
  BY <1>1, <1>3, <1>4 DEF OneEntries, Caller, Keys

\* The entry for the call is made.
LEMMA EntryMade ==
    ASSUME CallInv, NEW a \in Users, NEW n \in Keys, NEW local \in {"offer", "answer"},
           NEW remote \in Body, AddPeer(a, n, local, remote), username[a] # NoName, made[a] = 1,
           peerConnections[a][n] = NoConn, username'[a] = username[a], peerSdps'[a] = peerSdps[a],
           Caller(a) => calls'[a] # 0, local = "offer" => <<a, n>> \in Dials,
           local = "answer" =>
               remote # NoSdp /\ <<remote.pc[1], username[a]>> \in Dials,
           remote # NoSdp => remote.pc[2] = 2
    PROVE  /\ OneEntries(a)' /\ (\A m \in Keys : InCall(a, m)' <=> m = n)
           /\ peerConnections'[a][n] = FreshConn(a, local, remote)
           /\ \A m \in Keys : ~InCall(a, m)
<1> DEFINE d == FreshConn(a, local, remote)
<1>1. OneEntries(a)
  BY DEF CallInv, OneInv, OneUser
<1>2. d \in Conn /\ d # NoConn /\ d.id = 2 /\ OneEntry(a, n, d)
  <2>1. d \in Conn
    BY FreshConnTyped DEF CallInv, IInv
  <2>2. d.id = 2 /\ d.local = local /\ d.remote = remote /\ d.state = "new"
    BY DEF FreshConn
  <2> HIDE DEF d
  <2> QED
    BY <2>1, <2>2, CallAssumption DEF OneEntry
<1>3. \A m \in Keys : ~InCall(a, m)
  BY CallEntry
<1>4. made'[a] = 2 /\ peerConnections' = [peerConnections EXCEPT ![a][n] = d]
  BY DEF AddPeer, CallInv, IInv, CallTypeOK
<1> HIDE DEF d
<1>5. \A m \in Keys : peerConnections'[a][m] = IF m = n THEN d ELSE peerConnections[a][m]
  BY <1>4 DEF CallInv, IInv, CallTypeOK
<1>6. \A m \in Keys : InCall(a, m)' <=> m = n
  BY <1>2, <1>3, <1>5 DEF InCall
<1>7. \A m \in Keys : peerConnections'[a][m] # NoConn => OneEntry(a, m, peerConnections[a][m])'
  BY <1>1, <1>2, <1>5 DEF OneEntries, OneEntry
<1>8. OneEntries(a)'
  BY <1>1, <1>4, <1>6, <1>7 DEF OneEntries, Caller, Keys
<1> QED
  BY <1>3, <1>5, <1>6, <1>8 DEF d

----------------------------------------------------------------------------
(* The window and the devices of the user who acts. *)

LEMMA WindowStays ==
    ASSUME OneCall, CallInv, NEW a \in Users, Acts(a), ~ClickAccept(a),
           button'[a] = button[a], nameField'[a] = nameField[a],
           popup'[a] \in {NoName, popup[a]},
           \A n \in Keys : InCall(a, n)' <=> InCall(a, n),
           \A n \in Keys : InCall(a, n) =>
               /\ peerConnections'[a][n].remote = peerConnections[a][n].remote
               /\ peerConnections'[a][n].state # "closed" => peerConnections[a][n].state # "closed"
    PROVE  OneWindow(a)'
<1>1. OneWindow(a) /\ nameField[a] \in Keys
  BY DEF CallInv, OneInv, OneUser, IInv, CallTypeOK
<1>2. \A n \in Keys : RejectedBy(a, n) => RejectedBy(a, n)'
  BY RejectedKept
<1>3. popup'[a] # NoName => \E v \in Users : (username[v] = popup[a] /\ Asked(v, a))'
  <2> SUFFICES ASSUME popup'[a] # NoName
               PROVE  \E v \in Users : (username[v] = popup[a] /\ Asked(v, a))'
    OBVIOUS
  <2>1. PICK v \in Users : username[v] = popup[a] /\ Asked(v, a)
    BY <1>1 DEF OneWindow
  <2>2. Asked(v, a)'
    BY <2>1, AskedKept
  <2>3. username'[v] = username[v] /\ popup'[a] = popup[a]
    BY <2>1, NamesStay DEF Asked, CallInv
  <2> QED
    BY <2>1, <2>2, <2>3
<1> QED
  BY <1>1, <1>2, <1>3 DEF OneWindow, Keys

LEMMA SoundStays ==
    ASSUME CallInv, NEW a \in Users, mic'[a] = mic[a], speaker'[a] = speaker[a],
           button'[a] = "endCall" <=> button[a] = "endCall", EndsLast(gui'[a]),
           \A o \in Sounds : Waits(gui'[a], o) <=> Waits(gui[a], o), Over(a)' <=> Over(a)
    PROVE  OneSound(a)'
<1>1. OneSound(a)
  BY DEF CallInv, OneInv, OneUser
<1>2. "endConnection" \in Sounds /\ "connectionReady" \in Sounds
  BY DEF Sounds
<1> QED
  BY <1>1, <1>2 DEF OneSound

LEMMA SoundOf ==
    ASSUME CallInv, NEW a \in Users
    PROVE  EndsLast(gui[a]) /\ OneSound(a)
  BY DEF CallInv, OneInv, OneUser, OneSound

\* A user who has not made the call yet is silent.
LEMMA SilentBefore ==
    ASSUME CallInv, NEW a \in Users, made[a] # 2
    PROVE  /\ \A n \in Keys : ~InCall(a, n)
           /\ ~Over(a) /\ button[a] # "endCall" /\ ~mic[a] /\ ~speaker[a]
           /\ \A o \in Sounds : ~Waits(gui[a], o)
<1>1. \A n \in Keys : ~InCall(a, n)
  BY CallEntry
<1>2. ~Over(a) /\ button[a] # "endCall"
  <2>1. ~Over(a)
    BY <1>1 DEF Over
  <2>2. nameField[a] \in Keys /\ OneWindow(a)
    BY DEF CallInv, IInv, CallTypeOK, OneInv, OneUser
  <2> QED
    BY <1>1, <2>1, <2>2 DEF OneWindow
<1> QED
  BY <1>1, <1>2, SoundOf DEF OneSound, Sounds

LEMMA ClickSubmitOne ==
    ASSUME OneCall, CallInv, NEW a \in Users, Acts(a), NEW n \in Names, ClickSubmit(a, n)
    PROVE  OneUser(a)' /\ OneQueues(a)'
<1> DEFINE c == FreshConn(a, "none", NoSdp)
           m == [kind |-> "register", to |-> n, body |-> NoSdp]
<1>1. /\ username[a] = NoName /\ made[a] = 0
      /\ up[a] = <<>> /\ gui[a] = <<>> /\ popup[a] = NoName
      /\ \A k \in Keys : peerSdps[a][k] = NoSdp /\ peerConnections[a][k] = NoConn
  BY DEF ClickSubmit, CallInv, ClientInv, Unnamed, OneInv, OneUser, OneEntries
<1>2. /\ username'[a] = n /\ n # NoName /\ n \in Keys
      /\ UNCHANGED <<link, linked, alive, gui, peerSdps, mic, speaker, button, nameField, popup, calls>>
      /\ made'[a] = 1 /\ peerConnections' = [peerConnections EXCEPT ![a][n] = c]
  BY <1>1, CallAssumption DEF ClickSubmit, AddPeer, audioVars, CallInv, IInv, CallTypeOK, Keys
<1>3. c.id = 1 /\ c.local = "none" /\ c.remote = NoSdp /\ c.state = "new"
  BY <1>1 DEF FreshConn
<1> HIDE DEF c
<1>4. \A k \in Keys : peerConnections'[a][k] = IF k = n THEN c ELSE NoConn
  BY <1>1, <1>2 DEF CallInv, IInv, CallTypeOK
<1>5. \A k \in Keys : ~InCall(a, k)'
  BY <1>3, <1>4 DEF InCall
<1>6. OneEntries(a)'
  <2>1. \A k \in Keys : peerConnections'[a][k] # NoConn => OneEntry(a, k, peerConnections[a][k])'
    BY <1>2, <1>3, <1>4 DEF OneEntry
  <2> QED
    BY <1>1, <1>2, <1>5, <2>1 DEF OneEntries, Caller, Keys
<1>7. /\ button[a] # "endCall" /\ ~mic[a] /\ ~speaker[a]
      /\ \A o \in Sounds : ~Waits(gui[a], o)
  BY <1>1, SilentBefore
<1>8. OneWindow(a)'
  BY <1>1, <1>2, <1>5, <1>7 DEF OneWindow, Keys
<1>9. OneSound(a)'
  BY <1>2, <1>5, <1>7, SoundOf DEF OneSound, Over, Sounds, Keys
<1>10. m \in OneRequests(a)'
  BY <1>2, CallAssumption DEF OneRequests, Request, Described, Body, Keys
<1>11. up'[a] \in Seq(OneRequests(a)') /\ up'[a] = Append(up[a], m)
  BY <1>10, RequestEmitted DEF ClickSubmit
<1>12. up'[a] # <<>> /\ Head(up'[a]) = m
  <2> HIDE DEF m
  <2> QED
    BY <1>1, <1>11
<1>13. OneLine(a)'
  BY <1>2, <1>12 DEF OneLine, CallInv, OneInv, OneUser
<1>14. gui'[a] \in Seq(OneEvents(a)')
  BY <1>2, QueuesKept
<1> QED
  BY <1>6, <1>8, <1>9, <1>11, <1>13, <1>14 DEF OneUser, OneQueues

LEMMA ClickCallOne ==
    ASSUME OneCall, CallInv, NEW a \in Users, Acts(a), NEW n \in Keys, <<a, n>> \in Dials,
           ClickCall(a, n)
    PROVE  OneUser(a)' /\ OneQueues(a)'
<1> DEFINE c == FreshConn(a, "offer", NoSdp)
<1>1. username[a] # NoName /\ Caller(a) /\ popup[a] = NoName /\ button[a] = "call"
  BY DEF ClickCall, MayClick, Caller
<1>2. calls[a] = 0 /\ calls'[a] = 1
  BY CallAssumption DEF ClickCall, OneCall, CallInv, IInv, CallTypeOK
<1>3. made[a] = 1
  BY <1>1, <1>2 DEF CallInv, OneInv, OneUser, OneEntries
<1>4. peerConnections[a][n] = NoConn
  <2> SUFFICES ASSUME peerConnections[a][n] # NoConn PROVE FALSE
    OBVIOUS
  <2>1. OneEntry(a, n, peerConnections[a][n]) /\ peerConnections[a][n].id <= 1
    BY <1>3 DEF CallInv, OneInv, OneUser, OneEntries, Numbered
  <2>2. n = username[a]
    BY <2>1 DEF OneEntry
  <2> QED
    BY <1>1, <2>2, NameOwner DEF CallInv
<1>5. gui' = gui
  BY <1>4 DEF ClickCall, ClosedBy, IsOpen, Post, CallInv, IInv, CallTypeOK
<1>6. /\ AddPeer(a, n, "offer", NoSdp) /\ button'[a] = "connecting" /\ nameField'[a] = n
      /\ UNCHANGED <<alive, up, peerSdps, mic, speaker, username, popup>>
  BY DEF ClickCall, linkVars, audioVars, CallInv, IInv, CallTypeOK
<1>7. /\ OneEntries(a)' /\ (\A m \in Keys : InCall(a, m)' <=> m = n)
      /\ peerConnections'[a][n] = c
  BY <1>1, <1>2, <1>3, <1>4, <1>6, EntryMade DEF Body
<1>8. c.remote = NoSdp /\ c.state = "new"
  BY DEF FreshConn
<1> HIDE DEF c
<1>9. OneWindow(a)'
  BY <1>1, <1>6, <1>7, <1>8 DEF OneWindow, Keys
<1>10. ~mic[a] /\ ~speaker[a] /\ \A o \in Sounds : ~Waits(gui[a], o)
  BY <1>3, SilentBefore
<1>11. OneSound(a)'
  BY <1>5, <1>6, <1>10, SoundOf DEF OneSound, Sounds
<1>12. OneLine(a)'
  BY <1>6, LineStays DEF Acts, Click
<1>13. gui'[a] \in Seq(OneEvents(a)') /\ up'[a] \in Seq(OneRequests(a)')
  BY <1>5, <1>6, QueuesKept
<1> QED
  BY <1>7, <1>9, <1>11, <1>12, <1>13 DEF OneUser, OneQueues

LEMMA ClickEndOne ==
    ASSUME OneCall, CallInv, NEW a \in Users, Acts(a), ClickEnd(a)
    PROVE  OneUser(a)' /\ OneQueues(a)'
<1> DEFINE n == nameField[a]
           c == peerConnections[a][n]
           d == [c EXCEPT !.state = "closed"]
<1>1. n \in Keys /\ button[a] = "endCall" /\ popup[a] = NoName
  BY DEF ClickEnd, MayClick, CallInv, IInv, CallTypeOK
<1>2. InCall(a, n) /\ c.remote # NoSdp
  BY <1>1 DEF CallInv, OneInv, OneUser, OneWindow
<1>3. /\ c \in Conn /\ c # NoConn /\ OneEntry(a, n, c)
      /\ \A m \in Keys : InCall(a, m) => m = n
  BY <1>1, <1>2, CallEntry
<1>4. /\ peerConnections' = [peerConnections EXCEPT ![a][n] = d] /\ Post(a, ClosedBy(c))
      /\ button'[a] = "call"
      /\ UNCHANGED <<alive, up, made, calls, peerSdps, mic, speaker, username, popup>>
  BY <1>1, <1>3 DEF ClickEnd, Reset, linkVars, audioVars, CallInv, IInv, CallTypeOK
<1>5. d \in Conn /\ d.id = c.id /\ d.local = c.local /\ d.remote = c.remote /\ d.state = "closed"
  BY <1>3 DEF Conn
<1>6. peerConnections'[a][n] = d
  BY <1>1, <1>4 DEF CallInv, IInv, CallTypeOK
<1> HIDE DEF d
<1>7. OneEntry(a, n, d)
  BY <1>2, <1>3, <1>5 DEF OneEntry
<1>8. \A m \in Keys : peerSdps'[a][m] # NoSdp => peerSdps'[a][m].pc[2] = 2
  BY <1>4 DEF CallInv, OneInv, OneUser, OneEntries
<1>9. OneEntries(a)' /\ \A m \in Keys : InCall(a, m)' <=> InCall(a, m)
  BY <1>1, <1>3, <1>4, <1>5, <1>7, <1>8, EntryChanges
<1>10. Over(a)'
  BY <1>1, <1>2, <1>5, <1>6, <1>9 DEF Over, Keys
<1>11. OneWindow(a)'
  BY <1>1, <1>2, <1>3, <1>4, <1>5, <1>6, <1>9 DEF OneWindow, Keys
<1>12. /\ gui'[a] \in Seq(OneEvents(a)') /\ EndsLast(gui'[a]) /\ Waits(gui'[a], "endConnection")
  <2>1. CASE c.state = "closed"
    <3>1. gui' = gui
      BY <1>4, <2>1 DEF ClosedBy, IsOpen, Post, CallInv, IInv, CallTypeOK
    <3>2. Over(a)
      BY <1>1, <1>2, <2>1 DEF Over
    <3>3. Waits(gui[a], "endConnection")
      BY <1>1, <3>2, SoundOf DEF OneSound
    <3> QED
      BY <3>1, <3>3, SoundOf, QueuesKept
  <2>2. CASE c.state # "closed"
    <3>1. Post(a, Queued("endConnection", Blank, NoSdp))
      BY <1>3, <1>4, <2>2 DEF ClosedBy, IsOpen
    <3>2. ~Over(a)
      BY <1>1, <1>3, <2>2 DEF Over
    <3>3. ~Waits(gui[a], "endConnection")
      BY <3>2, SoundOf DEF OneSound
    <3> QED
      BY <3>1, <3>3, SoundPosted DEF Sounds
  <2> QED
    BY <2>1, <2>2
<1>13. OneSound(a)'
  BY <1>4, <1>10, <1>12 DEF OneSound
<1>14. OneLine(a)'
  BY <1>4, LineStays DEF Acts, Click
<1>15. up'[a] \in Seq(OneRequests(a)')
  BY <1>4, QueuesKept
<1> QED
  BY <1>9, <1>11, <1>12, <1>13, <1>14, <1>15 DEF OneUser, OneQueues

LEMMA ClickAcceptOne ==
    ASSUME OneCall, CallInv, NEW a \in Users, Acts(a), ClickAccept(a)
    PROVE  OneUser(a)' /\ OneQueues(a)'
<1> DEFINE n == popup[a]
           r == peerSdps[a][n]
           c == FreshConn(a, "answer", r)
<1>1. PICK v \in Users :
          /\ username[v] = n /\ n \in Names /\ Asked(v, a)
          /\ r \in Sdp /\ r.pc[1] = v /\ r.pc[2] = 2 /\ peerConnections[a][n] = NoConn
  BY PopupFits DEF ClickAccept
<1>2. /\ n \in Keys /\ r # NoSdp /\ r \in Body /\ ~Caller(a) /\ <<v, username[a]>> \in Dials
      /\ made[a] = 1
  BY <1>1, CallAssumption DEF Asked, Keys, Body
<1>3. username[a] # NoName
  BY <1>1, <1>2, AskedIsCalled, CallAssumption DEF Keys
<1>4. /\ AddPeer(a, n, "answer", r) /\ Post(a, ClosedBy(NoConn))
      /\ button'[a] = "endCall" /\ nameField'[a] = n /\ popup'[a] = NoName
      /\ UNCHANGED <<alive, up, peerSdps, mic, speaker, username, calls>>
  <2>1. AttachOffer(a, n, r)
    BY <1>2 DEF ClickAccept
  <2>2. AddPeer(a, n, "answer", r) /\ Post(a, ClosedBy(NoConn))
    BY <1>1, <2>1 DEF AttachOffer
  <2> QED
    BY <1>2, <2>2 DEF ClickAccept, Connected, linkVars, audioVars, CallInv, IInv, CallTypeOK
<1>5. gui' = gui
  BY <1>4 DEF ClosedBy, IsOpen, Post, CallInv, IInv, CallTypeOK
<1>6. /\ OneEntries(a)' /\ (\A m \in Keys : InCall(a, m)' <=> m = n)
      /\ peerConnections'[a][n] = c
  <2>1. /\ username'[a] = username[a] /\ peerSdps'[a] = peerSdps[a] /\ ~Caller(a)
        /\ <<r.pc[1], username[a]>> \in Dials /\ r.pc[2] = 2
    BY <1>1, <1>2, <1>4
  <2> HIDE DEF n, r
  <2> QED
    <3>1. /\ n \in Keys /\ r \in Body /\ r # NoSdp /\ AddPeer(a, n, "answer", r) /\ username[a] # NoName
          /\ made[a] = 1 /\ peerConnections[a][n] = NoConn /\ "answer" \in {"offer", "answer"}
          /\ "answer" # "offer"
      BY <1>1, <1>2, <1>3, <1>4
    <3> QED
      BY <2>1, <3>1, EntryMade
<1>7. c.remote = r /\ c.state = "new"
  BY DEF FreshConn
<1> HIDE DEF c, r, n
<1>8. OneWindow(a)'
  BY <1>2, <1>4, <1>6, <1>7 DEF OneWindow, Keys
<1>9. ~mic[a] /\ ~speaker[a] /\ \A o \in Sounds : ~Waits(gui[a], o)
  BY <1>2, SilentBefore
<1>10. ~Over(a)'
  BY <1>6, <1>7 DEF Over, Keys
<1>11. OneSound(a)'
  BY <1>4, <1>5, <1>9, <1>10, SoundOf DEF OneSound, Sounds
<1>12. OneLine(a)'
  BY <1>4, LineStays DEF Acts, Click
<1>13. gui'[a] \in Seq(OneEvents(a)') /\ up'[a] \in Seq(OneRequests(a)')
  BY <1>4, <1>5, QueuesKept
<1> QED
  BY <1>6, <1>8, <1>11, <1>12, <1>13 DEF OneUser, OneQueues

LEMMA AcceptMakes ==
    ASSUME OneCall, CallInv, NEW a \in Users, made'[a] = made[a]
    PROVE  ~ClickAccept(a)
<1> SUFFICES ASSUME ClickAccept(a) PROVE FALSE
  OBVIOUS
<1> DEFINE n == popup[a]
<1>1. peerSdps[a][n] # NoSdp /\ peerConnections[a][n] = NoConn
  BY PopupFits, CallAssumption DEF ClickAccept
<1>2. AddPeer(a, n, "answer", peerSdps[a][n])
  BY <1>1 DEF ClickAccept, AttachOffer
<1>3. made'[a] = made[a] + 1 /\ made[a] \in Nat
  BY <1>2 DEF AddPeer, CallInv, IInv, CallTypeOK
<1> QED
  BY <1>3

LEMMA ClickRejectOne ==
    ASSUME OneCall, CallInv, NEW a \in Users, Acts(a), ClickReject(a)
    PROVE  OneUser(a)' /\ OneQueues(a)'
<1> DEFINE n == popup[a]
           m == [kind |-> "reject", to |-> n, body |-> NoSdp]
<1>1. PICK v \in Users : username[v] = n /\ n \in Names /\ Asked(v, a)
  BY PopupFits DEF ClickReject
<1>2. /\ Emit(a, "reject", n, NoSdp) /\ popup'[a] = NoName
      /\ UNCHANGED <<alive, gui, peerSdps, peerConnections, made, mic, speaker, username, button,
                     nameField, calls>>
  BY DEF ClickReject, pcVars, audioVars, CallInv, IInv, CallTypeOK
<1>3. peerConnections'[a] = peerConnections[a] /\ ~ClickAccept(a)
  BY <1>2, AcceptMakes
<1>4. Rejected(v, a)' /\ username'[v] = n
  <2>1. Asked(v, a)'
    BY <1>1, <1>3, AskedKept
  <2> QED
    BY <1>1, <1>2, <2>1 DEF Rejected
<1>5. m \in OneRequests(a)'
  <2>1. m \in Request
    BY <1>1 DEF Request, Body, Keys, Kinds
  <2>2. m.kind = "reject" /\ m.to = n
    OBVIOUS
  <2> HIDE DEF m
  <2> QED
    BY <1>4, <2>1, <2>2 DEF OneRequests, Described
<1>6. up'[a] \in Seq(OneRequests(a)') /\ up'[a] = Append(up[a], m)
  BY <1>2, <1>5, RequestEmitted
<1>7. \A k \in Keys : peerSdps'[a][k] # NoSdp => peerSdps'[a][k].pc[2] = 2
  BY <1>2 DEF CallInv, OneInv, OneUser, OneEntries
<1>8. /\ OneEntries(a)' /\ (\A k \in Keys : InCall(a, k)' <=> InCall(a, k))
      /\ (Over(a)' <=> Over(a))
  BY <1>2, <1>7, EntriesStay
<1>9. OneWindow(a)'
  BY <1>2, <1>3, <1>8, WindowStays
<1>10. OneSound(a)'
  BY <1>2, <1>8, SoundOf, SoundStays
<1>11. OneLine(a)'
  BY <1>2, <1>6, LineStays DEF Acts, Click
<1>12. gui'[a] \in Seq(OneEvents(a)')
  BY <1>2, QueuesKept
<1> QED
  BY <1>6, <1>8, <1>9, <1>10, <1>11, <1>12 DEF OneUser, OneQueues

LEMMA OfferReceivedOne ==
    ASSUME OneCall, CallInv, NEW a \in Users, Acts(a), OfferReceived(a)
    PROVE  OneUser(a)' /\ OneQueues(a)'
<1> DEFINE e == Head(gui[a])
<1>1. NextEvent(a, "offerReceived") /\ Consume(a)
  BY DEF OfferReceived
<1>2. PICK v \in Users, n \in Names :
      /\ e.peer = n /\ username[v] = n /\ n \in Keys
      /\ e.body \in Sdp /\ e.body # NoSdp /\ e.body.pc[2] = 2
      /\ <<v, username[a]>> \in Dials /\ ~Caller(a) /\ made[a] = 1
  BY <1>1, OfferFits, CallAssumption DEF Keys
<1>3. /\ gui'[a] \in Seq(OneEvents(a)') /\ EndsLast(gui'[a])
      /\ \A o \in Sounds : Waits(gui'[a], o) <=> Waits(gui[a], o)
  BY <1>1, EventConsumed DEF Sounds
<1>4. /\ peerSdps'[a] = [peerSdps[a] EXCEPT ![n] = e.body] /\ popup'[a] = n
      /\ UNCHANGED <<alive, up, peerConnections, made, mic, speaker, username, button, nameField, calls>>
  BY <1>1, <1>2 DEF OfferReceived, linkVars, audioVars, CallInv, IInv, CallTypeOK
<1>5. \A m \in Keys : peerSdps'[a][m] = IF m = n THEN e.body ELSE peerSdps[a][m]
  BY <1>4 DEF CallInv, IInv, CallTypeOK
<1> HIDE DEF e
<1>6. \A m \in Keys : peerSdps'[a][m] # NoSdp => peerSdps'[a][m].pc[2] = 2
  BY <1>2, <1>5 DEF CallInv, OneInv, OneUser, OneEntries
<1>7. /\ OneEntries(a)' /\ (\A m \in Keys : InCall(a, m)' <=> InCall(a, m))
      /\ (Over(a)' <=> Over(a))
  BY <1>4, <1>6, EntriesStay
<1>8. Asked(v, a)' /\ username'[v] = popup'[a]
  <2>1. username[v] # NoName
    BY <1>2, CallAssumption
  <2> QED
    BY <1>2, <1>4, <1>5, <2>1 DEF Asked, Caller, Keys
<1>9. (\A m \in Keys : ~InCall(a, m)) /\ button[a] # "endCall"
  BY <1>2, SilentBefore
<1>10. OneWindow(a)'
  BY <1>2, <1>4, <1>7, <1>8, <1>9 DEF OneWindow, Keys
<1>11. OneSound(a)'
  BY <1>3, <1>4, <1>7, SoundStays
<1>12. OneLine(a)'
  BY <1>4, LineStays DEF Acts, Slot
<1>13. up'[a] \in Seq(OneRequests(a)')
  BY <1>4, QueuesKept
<1> QED
  BY <1>3, <1>7, <1>10, <1>11, <1>12, <1>13 DEF OneUser, OneQueues

LEMMA AnswerReceivedOne ==
    ASSUME OneCall, CallInv, NEW a \in Users, Acts(a), AnswerReceived(a)
    PROVE  OneUser(a)' /\ OneQueues(a)'
<1> DEFINE e == Head(gui[a])
           n == e.peer
           c == peerConnections[a][n]
           d == [c EXCEPT !.remote = e.body]
<1>1. NextEvent(a, "answerReceived") /\ Consume(a)
  BY DEF AnswerReceived
<1>2. /\ n \in Names /\ n \in Keys /\ e.body \in Sdp /\ e.body \in Body /\ e.body # NoSdp
      /\ e.body.pc[2] = 2 /\ e.body.kind = "answer"
      /\ InCall(a, n) /\ Caller(a) /\ isOfferer[a]
      /\ c.local = "offer" /\ c.remote = NoSdp /\ c.state = "new"
      /\ nameField[a] = n
  BY <1>1, AnswerFits, CallAssumption DEF Keys, Body
<1>3. /\ c \in Conn /\ c # NoConn /\ OneEntry(a, n, c) /\ c.id = 2
      /\ \A m \in Keys : InCall(a, m) => m = n
  BY <1>2, CallEntry
<1>4. /\ gui'[a] \in Seq(OneEvents(a)') /\ EndsLast(gui'[a])
      /\ \A o \in Sounds : Waits(gui'[a], o) <=> Waits(gui[a], o)
  BY <1>1, EventConsumed DEF Sounds
<1>5. ~MayThrow(a, c, e.body)
  BY <1>2, <1>3 DEF MayThrow, Pending
<1>6. /\ peerConnections' = [peerConnections EXCEPT ![a][n] = d] /\ button'[a] = "endCall"
      /\ peerSdps'[a] = [peerSdps[a] EXCEPT ![n] = e.body]
      /\ UNCHANGED <<alive, up, made, mic, speaker, username, nameField, popup, calls>>
  BY <1>1, <1>2, <1>5 DEF AnswerReceived, linkVars, audioVars, CallInv, IInv, CallTypeOK
<1>7. \A m \in Keys : peerSdps'[a][m] = IF m = n THEN e.body ELSE peerSdps[a][m]
  BY <1>6 DEF CallInv, IInv, CallTypeOK
<1>8. d \in Conn /\ d.id = c.id /\ d.local = c.local /\ d.remote = e.body /\ d.state = c.state
  BY <1>2, <1>3 DEF Conn
<1>9. peerConnections'[a][n] = d
  BY <1>2, <1>6 DEF CallInv, IInv, CallTypeOK
<1>10. popup[a] = NoName
  BY <1>2 DEF CallInv, RoleInv, RightRole
<1> HIDE DEF e, n, d
<1>11. \A m \in Keys : peerSdps'[a][m] # NoSdp => peerSdps'[a][m].pc[2] = 2
  BY <1>2, <1>7 DEF CallInv, OneInv, OneUser, OneEntries
<1>12. OneEntry(a, n, d)
  BY <1>2, <1>3, <1>8 DEF OneEntry
<1>13. OneEntries(a)' /\ \A m \in Keys : InCall(a, m)' <=> InCall(a, m)
  BY <1>2, <1>3, <1>6, <1>8, <1>11, <1>12, EntryChanges
<1>14. OneWindow(a)'
  BY <1>2, <1>3, <1>6, <1>8, <1>9, <1>10, <1>13 DEF OneWindow, Keys
<1>15. ~Over(a) /\ ~Over(a)'
  BY <1>2, <1>3, <1>8, <1>9, <1>13 DEF Over, Keys
<1>16. OneSound(a)'
  BY <1>4, <1>6, <1>15, SoundOf DEF OneSound, Sounds
<1>17. OneLine(a)'
  BY <1>6, LineStays DEF Acts, Slot
<1>18. up'[a] \in Seq(OneRequests(a)')
  BY <1>6, QueuesKept
<1> QED
  BY <1>4, <1>13, <1>14, <1>16, <1>17, <1>18 DEF OneUser, OneQueues

LEMMA RejectReceivedOne ==
    ASSUME OneCall, CallInv, NEW a \in Users, Acts(a), RejectReceived(a)
    PROVE  OneUser(a)' /\ OneQueues(a)' /\ button[a] # "endCall"
<1> DEFINE e == Head(gui[a])
<1>1. NextEvent(a, "rejectReceived") /\ Consume(a)
  BY DEF RejectReceived
<1>2. /\ gui'[a] \in Seq(OneEvents(a)') /\ EndsLast(gui'[a])
      /\ e \in OneEvents(a) /\ e.op = "rejectReceived"
      /\ \A o \in Sounds : Waits(gui'[a], o) <=> Waits(gui[a], o)
  BY <1>1, EventConsumed DEF Sounds
<1>3. PICK v \in Users : username[v] = e.peer /\ Rejected(a, v)
  BY <1>2 DEF OneEvents, RejectedBy
<1>0. PICK n \in Keys : n = username[v]
  BY <1>3, AskedIsCalled DEF Rejected, Keys
<1> DEFINE c == peerConnections[a][n]
<1>4. n \in Keys /\ Caller(a) /\ InCall(a, n) /\ c.remote = NoSdp
  BY <1>0, <1>3, AskedIsCalled DEF Rejected, Keys
<1>5. c.state = "new" /\ \A m \in Keys : InCall(a, m) => m = n
  BY <1>4, CallEntry DEF OneEntry
<1>6. /\ button'[a] = "call"
      /\ UNCHANGED <<alive, up, peerConnections, peerSdps, made, mic, speaker, username, popup, calls>>
  BY DEF RejectReceived, Reset, linkVars, pcVars, audioVars, CallInv, IInv, CallTypeOK
<1>7. popup[a] = NoName
  BY <1>4 DEF CallInv, RoleInv, RightRole
<1>8. button[a] # "endCall"
  <2>1. nameField[a] \in Keys /\ OneWindow(a)
    BY DEF CallInv, IInv, CallTypeOK, OneInv, OneUser
  <2> QED
    BY <1>4, <1>5, <2>1 DEF OneWindow
<1>9. RejectedBy(a, n)'
  BY <1>0, <1>3, RejectedKept DEF RejectedBy
<1>10. \A m \in Keys : peerSdps'[a][m] # NoSdp => peerSdps'[a][m].pc[2] = 2
  BY <1>6 DEF CallInv, OneInv, OneUser, OneEntries
<1>11. /\ OneEntries(a)' /\ (\A m \in Keys : InCall(a, m)' <=> InCall(a, m))
       /\ (Over(a)' <=> Over(a))
  BY <1>6, <1>10, EntriesStay
<1>12. OneWindow(a)'
  BY <1>4, <1>5, <1>6, <1>7, <1>9, <1>11 DEF OneWindow, Keys
<1>13. OneSound(a)'
  BY <1>2, <1>6, <1>8, <1>11, SoundStays
<1>14. OneLine(a)'
  BY <1>6, LineStays DEF Acts, Slot
<1>15. up'[a] \in Seq(OneRequests(a)')
  BY <1>6, QueuesKept
<1> QED
  BY <1>2, <1>8, <1>11, <1>12, <1>13, <1>14, <1>15 DEF OneUser, OneQueues

LEMMA SendDescriptionOne ==
    ASSUME OneCall, CallInv, NEW a \in Users, Acts(a), SendOffer(a) \/ SendAnswer(a)
    PROVE  OneUser(a)' /\ OneQueues(a)'
<1>1. PICK op \in {"offerIsReady", "answerIsReady"}, kind \in Described :
          /\ SendDescription(a, op, kind)
          /\ kind = "offer" <=> op = "offerIsReady"
          /\ kind = "answer" <=> op = "answerIsReady"
  BY DEF SendOffer, SendAnswer, Described
<1> DEFINE e == Head(gui[a])
           m == [kind |-> kind, to |-> e.peer, body |-> e.body]
<1>2. /\ NextEvent(a, op) /\ Consume(a) /\ Emit(a, kind, e.peer, e.body)
      /\ UNCHANGED <<alive, peerConnections, peerSdps, made, mic, speaker, username, button,
                     nameField, popup, calls>>
  BY <1>1 DEF SendDescription, pcVars, audioVars, uiVars
<1>3. /\ gui'[a] \in Seq(OneEvents(a)') /\ EndsLast(gui'[a])
      /\ e \in OneEvents(a) /\ e.op = op
      /\ \A o \in Sounds : Waits(gui'[a], o) <=> Waits(gui[a], o)
  BY <1>2, EventConsumed DEF Sounds
<1>4. e \in RightEvents(a)
  <2>1. gui[a] \in Seq(RightEvents(a)) /\ gui[a] # <<>>
    BY <1>2 DEF NextEvent, CallInv, RoleInv, RightQueues
  <2> QED
    BY <2>1, TailElements
<1>5. m \in OneRequests(a)'
  <2>1. e.peer \in Keys /\ e.body \in Body
    BY <1>3 DEF OneEvents, Event
  <2>2. m \in Request /\ m.kind = kind /\ m.to = e.peer /\ m.body = e.body
    BY <2>1 DEF Request, Kinds, Described
  <2>3. /\ e.body.pc[2] = 2
        /\ kind = "offer" => <<a, e.peer>> \in Dials
        /\ kind = "answer" => e.body.kind = "answer" /\ ~Caller(a)
    BY <1>1, <1>3, <1>4 DEF OneEvents, Carries, RightEvents
  <2> HIDE DEF m, e
  <2> QED
    BY <1>1, <2>2, <2>3 DEF OneRequests, Caller, Described
<1>6. up'[a] \in Seq(OneRequests(a)') /\ up'[a] = Append(up[a], m)
  BY <1>2, <1>5, RequestEmitted
<1> HIDE DEF m
<1>7. \A k \in Keys : peerSdps'[a][k] # NoSdp => peerSdps'[a][k].pc[2] = 2
  BY <1>2 DEF CallInv, OneInv, OneUser, OneEntries
<1>8. /\ OneEntries(a)' /\ (\A k \in Keys : InCall(a, k)' <=> InCall(a, k))
      /\ (Over(a)' <=> Over(a))
  BY <1>2, <1>7, EntriesStay
<1>9. OneWindow(a)'
  BY <1>2, <1>8, AcceptMakes, WindowStays
<1>10. OneSound(a)'
  BY <1>2, <1>3, <1>8, SoundStays
<1>11. OneLine(a)'
  BY <1>2, <1>6, LineStays DEF Acts, Slot
<1> QED
  BY <1>3, <1>6, <1>8, <1>9, <1>10, <1>11 DEF OneUser, OneQueues

LEMMA ConnectionReadyOne ==
    ASSUME OneCall, CallInv, NEW a \in Users, Acts(a), ConnectionReady(a)
    PROVE  OneUser(a)' /\ OneQueues(a)'
<1>1. /\ NextEvent(a, "connectionReady") /\ Consume(a)
      /\ UNCHANGED <<alive, up, peerConnections, peerSdps, made, username, button, nameField,
                     popup, calls>>
  BY DEF ConnectionReady, linkVars, pcVars, uiVars
<1>2. /\ gui'[a] \in Seq(OneEvents(a)') /\ EndsLast(gui'[a])
      /\ Waits(gui[a], "connectionReady")
      /\ Waits(gui'[a], "endConnection") <=> Waits(gui[a], "endConnection")
  BY <1>1, EventConsumed
<1>3. \A k \in Keys : peerSdps'[a][k] # NoSdp => peerSdps'[a][k].pc[2] = 2
  BY <1>1 DEF CallInv, OneInv, OneUser, OneEntries
<1>4. /\ OneEntries(a)' /\ (\A k \in Keys : InCall(a, k)' <=> InCall(a, k))
      /\ (Over(a)' <=> Over(a))
  BY <1>1, <1>3, EntriesStay
<1>5. OneWindow(a)'
  BY <1>1, <1>4, AcceptMakes, WindowStays
<1>6. OneSound(a)'
  BY <1>1, <1>2, <1>4, SoundOf DEF OneSound
<1>7. OneLine(a)'
  BY <1>1, LineStays DEF Acts, Slot
<1>8. up'[a] \in Seq(OneRequests(a)')
  BY <1>1, QueuesKept
<1> QED
  BY <1>2, <1>4, <1>5, <1>6, <1>7, <1>8 DEF OneUser, OneQueues

LEMMA EndConnectionOne ==
    ASSUME OneCall, CallInv, NEW a \in Users, Acts(a), EndConnection(a)
    PROVE  OneUser(a)' /\ OneQueues(a)'
<1>1. /\ NextEvent(a, "endConnection") /\ Consume(a) /\ button'[a] = "call"
      /\ ~mic'[a] /\ ~speaker'[a] /\ (\A n \in Keys : peerSdps'[a][n] = NoSdp)
      /\ UNCHANGED <<alive, up, peerConnections, made, username, popup, calls>>
  BY DEF EndConnection, Reset, linkVars, CallInv, IInv, CallTypeOK
<1>2. /\ gui'[a] \in Seq(OneEvents(a)') /\ EndsLast(gui'[a])
      /\ \A o \in Sounds : ~Waits(gui'[a], o)
  BY <1>1, EventConsumed
<1>3. made[a] = 2 /\ Over(a)
  BY <1>1, EndIsOver
<1>4. /\ OneEntries(a)' /\ (\A k \in Keys : InCall(a, k)' <=> InCall(a, k))
      /\ (Over(a)' <=> Over(a))
  BY <1>1, EntriesStay
<1>5. popup[a] = NoName
  <2>1. popup[a] # NoName => made[a] = 1
    BY PopupFits DEF Asked
  <2> QED
    BY <1>3, <2>1
<1>6. \A n \in Keys : InCall(a, n) => peerConnections[a][n].state = "closed" /\ peerConnections[a][n].remote # NoSdp
  BY <1>3, CallEntry DEF Over, OneEntry
<1>7. OneWindow(a)'
  BY <1>1, <1>4, <1>5, <1>6 DEF OneWindow, Keys
<1>8. OneSound(a)'
  BY <1>1, <1>2 DEF OneSound, Sounds
<1>9. OneLine(a)'
  BY <1>1, LineStays DEF Acts, Slot
<1>10. up'[a] \in Seq(OneRequests(a)')
  BY <1>1, QueuesKept
<1> QED
  BY <1>2, <1>4, <1>7, <1>8, <1>9, <1>10 DEF OneUser, OneQueues

\* A callback changes the call's entry.
LEMMA CallbackOne ==
    ASSUME OneCall, CallInv, NEW a \in Users, Acts(a), NEW n \in Keys, InCall(a, n), NEW d \in Conn,
           peerConnections' = [peerConnections EXCEPT ![a][n] = d],
           d.id = peerConnections[a][n].id, d.local = peerConnections[a][n].local,
           d.remote = peerConnections[a][n].remote, d.remote = NoSdp => d.state = "new",
           peerConnections[a][n].state = "closed" => d.state = "closed",
           UNCHANGED <<peerSdps, made, username, button, nameField, popup, calls>>
    PROVE  /\ OneEntries(a)' /\ OneWindow(a)'
           /\ (Over(a) <=> peerConnections[a][n].state = "closed")
           /\ (Over(a)' <=> d.state = "closed")
<1> DEFINE c == peerConnections[a][n]
<1>1. /\ c \in Conn /\ c # NoConn /\ OneEntry(a, n, c) /\ c.id = 2
      /\ \A m \in Keys : InCall(a, m) => m = n
  BY CallEntry
<1>2. \A k \in Keys : peerSdps'[a][k] # NoSdp => peerSdps'[a][k].pc[2] = 2
  BY DEF CallInv, OneInv, OneUser, OneEntries
<1>3. OneEntry(a, n, d)
  BY <1>1 DEF OneEntry
<1>4. OneEntries(a)' /\ (\A k \in Keys : InCall(a, k)' <=> InCall(a, k))
  BY <1>1, <1>2, <1>3, EntryChanges
<1>5. peerConnections'[a][n] = d
  BY DEF CallInv, IInv, CallTypeOK
<1>6. OneWindow(a)'
  BY <1>1, <1>4, <1>5, AcceptMakes, WindowStays
<1>7. /\ (Over(a) <=> c.state = "closed")
      /\ (Over(a)' <=> d.state = "closed")
  BY <1>1, <1>4, <1>5 DEF Over, Keys
<1> QED
  BY <1>4, <1>6, <1>7

LEMMA GatherDoneOne ==
    ASSUME OneCall, CallInv, NEW a \in Users, Acts(a), NEW n \in Keys, GatherDone(a, n)
    PROVE  OneUser(a)' /\ OneQueues(a)'
<1> DEFINE c == peerConnections[a][n]
           d == [c EXCEPT !.gathered = TRUE]
           op == IF isOfferer[a] THEN "offerIsReady" ELSE "answerIsReady"
           s == [pc |-> <<a, c.id>>, kind |-> c.local]
<1>1. /\ IsOpen(c) /\ c.local # "none" /\ c # NoConn
      /\ peerConnections' = [peerConnections EXCEPT ![a][n] = d] /\ Post(a, Queued(op, n, s))
      /\ UNCHANGED <<alive, up, peerSdps, made, mic, speaker, username, button, nameField, popup, calls>>
  BY DEF GatherDone, IsOpen, linkVars, audioVars, uiVars, CallInv, IInv, CallTypeOK
<1>2. InCall(a, n)
  <2>1. OneEntry(a, n, c)
    BY <1>1 DEF CallInv, OneInv, OneUser, OneEntries
  <2> QED
    BY <1>1, <2>1 DEF OneEntry, InCall
<1>3. /\ c \in Conn /\ c.id = 2 /\ c.local \in {"offer", "answer"}
      /\ OneEntry(a, n, c) /\ RightConn(a, n, isOfferer[a], c)
  BY <1>2, CallEntry
<1>4. /\ d \in Conn /\ d.id = c.id /\ d.local = c.local /\ d.remote = c.remote /\ d.state = c.state
  BY <1>3 DEF Conn
<1>5. [op |-> op, peer |-> n, body |-> s] \in OneEvents(a)'
  <2>1. s \in Body /\ s.pc[2] = 2 /\ op \in Ops /\ op \in {"offerIsReady", "answerIsReady"}
    <3>1. c.id \in 1..MaxMade
      BY <1>3 DEF Conn
    <3> QED
      BY <1>3, <3>1 DEF Body, Sdp, Pc, Ops
  <2>2. op = "offerIsReady" => <<a, n>> \in Dials
    BY <1>3 DEF RightConn, OneEntry, CallInv, RoleInv, RightRole
  <2>3. op = "answerIsReady" => ~Caller(a)
    BY <1>3 DEF RightConn
  <2> HIDE DEF op, s
  <2> DEFINE e == [op |-> op, peer |-> n, body |-> s]
  <2>4. e \in Event /\ e.op = op /\ e.peer = n /\ e.body = s
    BY <2>1 DEF Event
  <2> HIDE DEF e
  <2>5. e \in OneEvents(a)'
    BY <2>1, <2>2, <2>3, <2>4 DEF OneEvents, Carries, Caller
  <2> QED
    BY <2>5 DEF e
<1>6. op \in Ops \ Sounds
  BY DEF Ops, Sounds
<1> HIDE DEF op, s, d
<1>7. /\ gui'[a] \in Seq(OneEvents(a)') /\ EndsLast(gui'[a])
      /\ \A o \in Sounds : Waits(gui'[a], o) <=> Waits(gui[a], o)
  BY <1>1, <1>5, <1>6, EventPosted
<1>8. d.remote = NoSdp => d.state = "new"
  BY <1>3, <1>4 DEF OneEntry
<1>9. OneEntries(a)' /\ OneWindow(a)' /\ (Over(a)' <=> Over(a))
  BY <1>1, <1>2, <1>4, <1>8, CallbackOne
<1>10. OneSound(a)'
  BY <1>1, <1>7, <1>9, SoundStays
<1>11. OneLine(a)'
  BY <1>1, LineStays DEF Acts, Media
<1>12. up'[a] \in Seq(OneRequests(a)')
  BY <1>1, QueuesKept
<1> QED
  BY <1>7, <1>9, <1>10, <1>11, <1>12 DEF OneUser, OneQueues

\* An entry with the description of the other side is the call's.
LEMMA GivenIsCall ==
    ASSUME CallInv, NEW a \in Users, NEW n \in Keys,
           peerConnections[a][n] # NoConn, peerConnections[a][n].remote # NoSdp
    PROVE  /\ InCall(a, n) /\ peerConnections[a][n] \in Conn
           /\ peerConnections[a][n].state # "closed" => button[a] = "endCall"
<1>1. GoodConn(a, n, peerConnections[a][n]) /\ OneEntry(a, n, peerConnections[a][n])
  BY DEF CallInv, IInv, Attached, OneInv, OneUser, OneEntries
<1>2. InCall(a, n)
  BY <1>1 DEF GoodConn, OneEntry, InCall
<1> QED
  BY <1>2 DEF CallInv, IInv, CallTypeOK, OneInv, OneUser, OneWindow

LEMMA TrackOrFailOne ==
    ASSUME OneCall, CallInv, NEW a \in Users, Acts(a), NEW n \in Keys,
           TrackReceived(a, n) \/ PcFailed(a, n)
    PROVE  OneUser(a)' /\ OneQueues(a)'
<1> DEFINE c == peerConnections[a][n]
<1>1. /\ c # NoConn /\ c.remote # NoSdp /\ c.state # "closed"
      /\ UNCHANGED <<alive, up, gui, peerSdps, made, mic, speaker, username, button, nameField, popup, calls>>
  BY DEF TrackReceived, PcFailed, IsOpen, linkVars, audioVars, uiVars
<1>2. InCall(a, n) /\ c \in Conn
  BY <1>1, GivenIsCall
<1>3. PICK d \in Conn :
          /\ d.id = c.id /\ d.local = c.local /\ d.remote = c.remote /\ d.state # "closed"
          /\ peerConnections' = [peerConnections EXCEPT ![a][n] = d]
  <2>1. CASE TrackReceived(a, n)
    <3> DEFINE d == [c EXCEPT !.tracked = TRUE]
    <3>1. d \in Conn /\ d.id = c.id /\ d.local = c.local /\ d.remote = c.remote /\ d.state # "closed"
      BY <1>1, <1>2 DEF Conn
    <3>2. peerConnections' = [peerConnections EXCEPT ![a][n] = d]
      BY <2>1 DEF TrackReceived, CallInv, IInv, CallTypeOK
    <3> QED
      BY <3>1, <3>2
  <2>2. CASE PcFailed(a, n)
    <3> DEFINE d == [c EXCEPT !.state = "failed"]
    <3>1. d \in Conn /\ d.id = c.id /\ d.local = c.local /\ d.remote = c.remote /\ d.state # "closed"
      BY <1>1, <1>2 DEF Conn
    <3>2. peerConnections' = [peerConnections EXCEPT ![a][n] = d]
      BY <2>2 DEF PcFailed, CallInv, IInv, CallTypeOK
    <3> QED
      BY <3>1, <3>2
  <2> QED
    BY <2>1, <2>2
<1>4. OneEntries(a)' /\ OneWindow(a)' /\ (Over(a)' <=> Over(a))
  BY <1>1, <1>2, <1>3, CallbackOne
<1>5. OneSound(a)'
  BY <1>1, <1>4, SoundOf, SoundStays
<1>6. OneLine(a)'
  BY <1>1, LineStays DEF Acts, Media
<1>7. gui'[a] \in Seq(OneEvents(a)') /\ up'[a] \in Seq(OneRequests(a)')
  BY <1>1, QueuesKept
<1> QED
  BY <1>4, <1>5, <1>6, <1>7 DEF OneUser, OneQueues

LEMMA PcConnectedOne ==
    ASSUME OneCall, CallInv, NEW a \in Users, Acts(a), NEW n \in Keys, PcConnected(a, n)
    PROVE  OneUser(a)' /\ OneQueues(a)'
<1> DEFINE c == peerConnections[a][n]
           d == [c EXCEPT !.state = "connected"]
<1>1. /\ c # NoConn /\ c.remote # NoSdp /\ c.state = "new"
      /\ peerConnections' = [peerConnections EXCEPT ![a][n] = d]
      /\ Post(a, Queued("connectionReady", Blank, NoSdp))
      /\ UNCHANGED <<alive, up, peerSdps, made, mic, speaker, username, button, nameField, popup, calls>>
  BY DEF PcConnected, Matched, linkVars, audioVars, uiVars, CallInv, IInv, CallTypeOK
<1>2. InCall(a, n) /\ c \in Conn /\ button[a] = "endCall"
  BY <1>1, GivenIsCall
<1>3. d \in Conn /\ d.id = c.id /\ d.local = c.local /\ d.remote = c.remote /\ d.state = "connected"
  BY <1>2 DEF Conn
<1> HIDE DEF d
<1>4. OneEntries(a)' /\ OneWindow(a)' /\ ~Over(a)' /\ ~Over(a)
  BY <1>1, <1>2, <1>3, CallbackOne
<1>5. ~Waits(gui[a], "endConnection")
  BY <1>4, SoundOf DEF OneSound
<1>6. /\ gui'[a] \in Seq(OneEvents(a)') /\ EndsLast(gui'[a])
      /\ ~Waits(gui'[a], "endConnection")
  BY <1>1, <1>5, SoundPosted DEF Sounds
<1>7. OneSound(a)'
  BY <1>1, <1>2, <1>4, <1>6 DEF OneSound
<1>8. OneLine(a)'
  BY <1>1, LineStays DEF Acts, Media
<1>9. up'[a] \in Seq(OneRequests(a)')
  BY <1>1, QueuesKept
<1> QED
  BY <1>4, <1>6, <1>7, <1>8, <1>9 DEF OneUser, OneQueues

LEMMA PcClosedOne ==
    ASSUME OneCall, CallInv, NEW a \in Users, Acts(a), NEW n \in Keys, PcClosed(a, n)
    PROVE  OneUser(a)' /\ OneQueues(a)'
<1> DEFINE c == peerConnections[a][n]
           d == [c EXCEPT !.state = "closed"]
<1>1. /\ c # NoConn /\ c.state = "connected"
      /\ peerConnections' = [peerConnections EXCEPT ![a][n] = d]
      /\ Post(a, Queued("endConnection", Blank, NoSdp))
      /\ UNCHANGED <<alive, up, peerSdps, made, mic, speaker, username, button, nameField, popup, calls>>
  BY DEF PcClosed, linkVars, audioVars, uiVars, CallInv, IInv, CallTypeOK
<1>2. c.remote # NoSdp
  BY <1>1 DEF CallInv, OneInv, OneUser, OneEntries, OneEntry
<1>3. InCall(a, n) /\ c \in Conn
  BY <1>1, <1>2, GivenIsCall
<1>4. d \in Conn /\ d.id = c.id /\ d.local = c.local /\ d.remote = c.remote /\ d.state = "closed"
  BY <1>3 DEF Conn
<1> HIDE DEF d
<1>5. OneEntries(a)' /\ OneWindow(a)' /\ Over(a)' /\ ~Over(a)
  BY <1>1, <1>2, <1>3, <1>4, CallbackOne
<1>6. ~Waits(gui[a], "endConnection")
  BY <1>5, SoundOf DEF OneSound
<1>7. /\ gui'[a] \in Seq(OneEvents(a)') /\ EndsLast(gui'[a])
      /\ Waits(gui'[a], "endConnection")
  BY <1>1, <1>6, SoundPosted DEF Sounds
<1>8. OneSound(a)'
  BY <1>5, <1>7 DEF OneSound
<1>9. OneLine(a)'
  BY <1>1, LineStays DEF Acts, Media
<1>10. up'[a] \in Seq(OneRequests(a)')
  BY <1>1, QueuesKept
<1> QED
  BY <1>5, <1>7, <1>8, <1>9, <1>10 DEF OneUser, OneQueues

----------------------------------------------------------------------------
(* The network, and those who do not act. *)

\* Nobody loses the only connection he makes.
LEMMA NothingLost ==
    ASSUME OneCall, CallInv, NEW a \in Users
    PROVE  /\ ~LinkLost(a) /\ \A k \in Links : ~ServerDisconnects(a, k)
           /\ Links = {1} /\ (linked[a] => Socket(a) = <<a, 1>>)
<1>1. Links = {1} /\ MaxLinks = 1 /\ link[a] \in 0..1
  BY DEF OneCall, Links, CallInv, IInv, CallTypeOK
<1>2. linked[a] => link[a] = 1
  BY <1>1 DEF CallInv, IInv, LinkedByLink
<1>3. OneLine(a)
  BY DEF CallInv, OneInv, OneUser
<1>4. ~LinkLost(a)
  BY <1>1, <1>2 DEF LinkLost
<1>5. ASSUME ServerDisconnects(a, 1) PROVE FALSE
  <2>1. ~(1 < link[a])
    BY <1>1
  <2>2. ~linked[a] /\ link[a] = 0
    BY <1>3, <1>5, <2>1 DEF ServerDisconnects, OneLine
  <2>3. status[<<a, 1>>] = "new"
    BY <1>1, <2>2 DEF CallInv, ClientInv, FreshLinks, IsNew
  <2> QED
    BY <1>5, <2>3 DEF ServerDisconnects, Server!Disconnect
<1> QED
  BY <1>1, <1>2, <1>4, <1>5 DEF Socket

\* Who sends something else than "register" is registered.
LEMMA SenderIsNamed ==
    ASSUME OneCall, CallInv, NEW a \in Users, ServerHandles(a)
    PROVE  LET m == Head(up[a]) IN
           /\ up[a] # <<>> /\ m \in OneRequests(a) /\ GoodRequest(a, username[a], m)
           /\ Socket(a) = <<a, 1>> /\ username[a] \in Names
           /\ m.kind # "register" => peerNames[<<a, 1>>] = username[a]
<1> DEFINE m == Head(up[a])
<1>1. Socket(a) = <<a, 1>> /\ up[a] # <<>> /\ 1 \in Links
  BY NothingLost DEF ServerHandles
<1>2. username[a] # NoName
  BY <1>1 DEF CallInv, ClientInv, Unnamed
<1>3. username[a] \in Names
  BY <1>2 DEF CallInv, IInv, CallTypeOK
<1>4. m \in OneRequests(a) /\ GoodRequest(a, username[a], m)
  <2>1. up[a] \in Seq(OneRequests(a))
    BY DEF CallInv, OneInv, OneQueues
  <2>2. m \in OneRequests(a) /\ 1 \in 1..Len(up[a]) /\ m = up[a][1]
    BY <1>1, <2>1, TailElements
  <2> QED
    BY <2>2 DEF CallInv, IInv, Requests
<1>5. m.kind # "register" => peerNames[<<a, 1>>] = username[a]
  BY <1>1, <1>2 DEF CallInv, OneInv, OneUser, OneLine, IInv, Stamped
<1> QED
  BY <1>1, <1>3, <1>4, <1>5

\* What a step on the network leaves as it is.
LEMMA ClientStays ==
    ASSUME OneCall, CallInv, NEW a \in Users, Acts(a), UNCHANGED <<pcVars, audioVars, uiVars>>,
           EndsLast(gui'[a]), \A o \in Sounds : Waits(gui'[a], o) <=> Waits(gui[a], o)
    PROVE  OneEntries(a)' /\ OneWindow(a)' /\ OneSound(a)'
<1>1. UNCHANGED <<peerConnections, peerSdps, made, mic, speaker, username, button, nameField,
                  popup, calls>>
  BY DEF pcVars, audioVars, uiVars
<1>2. \A k \in Keys : peerSdps'[a][k] # NoSdp => peerSdps'[a][k].pc[2] = 2
  BY <1>1 DEF CallInv, OneInv, OneUser, OneEntries
<1>3. /\ OneEntries(a)' /\ (\A k \in Keys : InCall(a, k)' <=> InCall(a, k))
      /\ (Over(a)' <=> Over(a))
  BY <1>1, <1>2, EntriesStay
<1>4. OneWindow(a)'
  BY <1>1, <1>3, AcceptMakes, WindowStays
<1>5. OneSound(a)'
  BY <1>1, <1>3, SoundStays
<1> QED
  BY <1>3, <1>4, <1>5

LEMMA NetworkOne ==
    ASSUME OneCall, CallInv, NEW a \in Users, Acts(a), Network(a)
    PROVE  OneUser(a)' /\ OneQueues(a)'
<1>0. UNCHANGED <<pcVars, audioVars, uiVars>>
  BY DEF Network, LinkUp, LinkLost, ServerDisconnects, ServerHandles, ClientHandles, clientVars
<1>1. OneLine(a) /\ username' = username
  BY <1>0 DEF CallInv, OneInv, OneUser, uiVars
<1>2. CASE LinkUp(a)
  <2>1. /\ linked'[a] /\ UNCHANGED <<up, gui, alive, peerNames>>
    BY <1>2 DEF LinkUp, Server!Connect, clientVars, CallInv, IInv, CallTypeOK
  <2>2. OneEntries(a)' /\ OneWindow(a)' /\ OneSound(a)'
    BY <1>0, <2>1, SoundOf, ClientStays
  <2>3. OneLine(a)'
    BY <1>1, <2>1 DEF OneLine
  <2>4. gui'[a] \in Seq(OneEvents(a)') /\ up'[a] \in Seq(OneRequests(a)')
    BY <2>1, QueuesKept
  <2> QED
    BY <2>2, <2>3, <2>4 DEF OneUser, OneQueues
<1>3. CASE ServerHandles(a)
  <2> DEFINE m == Head(up[a])
             S == OneRequests(a)'
  <2>1. /\ up'[a] = Tail(up[a]) /\ UNCHANGED <<gui, alive, link, linked>> /\ linked[a]
    BY <1>3 DEF ServerHandles, clientVars, CallInv, IInv, CallTypeOK
  <2>2. OneEntries(a)' /\ OneWindow(a)' /\ OneSound(a)'
    BY <1>0, <2>1, SoundOf, ClientStays
  <2>3. /\ up[a] # <<>> /\ m.to \in Keys /\ Socket(a) = <<a, 1>> /\ username[a] \in Names
        /\ m.kind # "register" => peerNames[<<a, 1>>] = username[a]
    BY <1>3, SenderIsNamed DEF OneRequests, Request
  <2>4. peerNames'[<<a, 1>>] # NoName
    <3>1. CASE m.kind = "register"
      <4>1. Server!Register(<<a, 1>>, m.to) /\ <<a, 1>> \in Sockets
        BY <1>3, <2>3, <3>1, NothingLost DEF ServerHandles, Sockets
      <4>2. peerNames'[<<a, 1>>] = m.to
        BY <4>1 DEF Server!Register, CallInv, IInv, CallTypeOK, Server!ServerTypeOK
      <4> QED
        BY <2>3, <4>2, CallAssumption
    <3>2. CASE m.kind # "register"
      <4>1. UNCHANGED peerNames
        BY <1>3, <3>2 DEF ServerHandles, Server!Relay
      <4> QED
        BY <2>3, <3>2, <4>1, CallAssumption DEF Keys
    <3> QED
      BY <3>1, <3>2
  <2>5. OneLine(a)'
    BY <1>1, <2>1, <2>4 DEF OneLine
  <2>6. gui'[a] \in Seq(OneEvents(a)') /\ up[a] \in Seq(S)
    BY <2>1, QueuesKept
  <2> HIDE DEF S
  <2>7. up'[a] \in Seq(S)
    BY <2>1, <2>3, <2>6, TailElements
  <2> QED
    BY <2>2, <2>5, <2>6, <2>7 DEF OneUser, OneQueues, S
<1>4. CASE ClientHandles(a)
  <2> DEFINE S == OneForwards(a)'
  <2>1. linked[a] /\ Socket(a) = <<a, 1>> /\ inbox[<<a, 1>>] # <<>> /\ 1 \in Links
    BY <1>4, NothingLost DEF ClientHandles, Server!Deliver
  <2>2. inbox[<<a, 1>>] \in Seq(S)
    BY QueuesKept
  <2> HIDE DEF S
  <2>3. PICK f \in S : f = Head(inbox[<<a, 1>>]) /\ f = inbox[<<a, 1>>][1] /\ 1 \in 1..Len(inbox[<<a, 1>>])
    BY <2>1, <2>2, TailElements
  <2>4. f.kind \in Kinds
    <3>1. <<a, 1>> \in Sockets
      BY <2>1 DEF Sockets
    <3> QED
      BY <2>3, <3>1 DEF CallInv, IInv, Forwards, GoodForward
  <2> DEFINE op == SlotOf[f.kind]
             e == [op |-> op, peer |-> f.from, body |-> f.body]
  <2>5. /\ f \in Server!Forward /\ f.from # NoName
        /\ f.kind \in Described => f.body.pc[2] = 2
        /\ f.kind = "offer" => <<f.body.pc[1], username'[a]>> \in Dials
        /\ f.kind = "answer" => f.body.kind = "answer" /\ ~Caller(f.body.pc[1])
        /\ f.kind = "reject" => RejectedBy(a, f.from)'
    BY <2>3 DEF S, OneForwards, Caller, Server!Forward, Server!Kinds
  <2>6. /\ op \in Ops \ Sounds
        /\ op = "offerReceived" <=> f.kind = "offer"
        /\ op = "answerReceived" <=> f.kind = "answer"
        /\ op = "rejectReceived" <=> f.kind = "reject"
        /\ op # "offerIsReady" /\ op # "answerIsReady"
    BY <2>4 DEF SlotOf, Ops, Sounds, Kinds
  <2>7. f.from \in Keys /\ f.body \in Body
    BY <2>5 DEF Server!Forward, Keys
  <2> HIDE DEF op
  <2>8. e \in Event /\ e.op = op /\ e.peer = f.from /\ e.body = f.body
    BY <2>6, <2>7 DEF Event
  <2> HIDE DEF e
  <2>9. e \in OneEvents(a)'
    BY <2>5, <2>6, <2>8 DEF OneEvents, Carries, Caller, Described
  <2>10. Post(a, Queued(op, f.from, f.body)) /\ UNCHANGED <<alive, up, link, linked, peerNames>>
    BY <1>4, <2>1, <2>3, <2>5 DEF ClientHandles, Server!Deliver, linkVars, op
  <2>11. /\ gui'[a] \in Seq(OneEvents(a)') /\ EndsLast(gui'[a])
         /\ \A o \in Sounds : Waits(gui'[a], o) <=> Waits(gui[a], o)
    BY <2>6, <2>9, <2>10, EventPosted DEF e
  <2>12. OneEntries(a)' /\ OneWindow(a)' /\ OneSound(a)'
    BY <1>0, <2>11, ClientStays
  <2>13. OneLine(a)'
    BY <1>1, <2>10 DEF OneLine
  <2>14. up'[a] \in Seq(OneRequests(a)')
    BY <2>10, QueuesKept
  <2> QED
    BY <2>11, <2>12, <2>13, <2>14 DEF OneUser, OneQueues
<1> QED
  BY <1>2, <1>3, <1>4, NothingLost DEF Network

LEMMA OtherOne ==
    ASSUME OneCall, CallInv, NEW a \in Users, Acts(a), NEW w \in Users, w # a
    PROVE  OneUser(w)' /\ OneQueues(w)'
<1>1. Untouched(w)
  BY OthersUntouched DEF CallInv, IInv
<1>2. peerNames'[<<w, 1>>] = peerNames[<<w, 1>>]
  <2>1. CASE ServerHandles(a)
    <3>1. Socket(a) = <<a, 1>>
      BY <2>1, SenderIsNamed
    <3>2. peerNames' = peerNames \/ \E n : peerNames' = [peerNames EXCEPT ![<<a, 1>>] = n]
      BY <2>1, <3>1 DEF ServerHandles, Server!Register, Server!Relay
    <3>3. peerNames \in [Sockets -> Names \cup {NoName}] /\ <<w, 1>> \in Sockets /\ <<w, 1>> # <<a, 1>>
      BY NothingLost DEF CallInv, IInv, CallTypeOK, Server!ServerTypeOK, Sockets
    <3> QED
      BY <3>2, <3>3
  <2>2. CASE LinkUp(a) \/ ClientHandles(a)
    BY <2>2 DEF LinkUp, ClientHandles, Server!Connect, Server!Deliver
  <2>3. CASE ~Network(a)
    BY <2>3, OffTheNetwork DEF Acts, serverVars
  <2> QED
    BY <2>1, <2>2, <2>3, NothingLost DEF Network
<1>3. OneLine(w) /\ OneEntries(w) /\ OneWindow(w) /\ OneSound(w) /\ nameField[w] \in Keys
  BY DEF CallInv, OneInv, OneUser, IInv, CallTypeOK
<1>4. OneLine(w)'
  BY <1>1, <1>2, <1>3 DEF OneLine, Untouched
<1>5. \A k \in Keys : peerSdps'[w][k] # NoSdp => peerSdps'[w][k].pc[2] = 2
  BY <1>1, <1>3 DEF OneEntries, Untouched
<1>6. /\ OneEntries(w)' /\ (\A k \in Keys : InCall(w, k)' <=> InCall(w, k))
      /\ (Over(w)' <=> Over(w))
  BY <1>1, <1>5, EntriesStay DEF Untouched
<1>7. OneWindow(w)'
  <2>1. \A n \in Keys : RejectedBy(w, n) => RejectedBy(w, n)'
    BY RejectedKept
  <2>2. popup'[w] # NoName => \E v \in Users : (username[v] = popup[w] /\ Asked(v, w))'
    <3> SUFFICES ASSUME popup'[w] # NoName
                 PROVE  \E v \in Users : (username[v] = popup[w] /\ Asked(v, w))'
      OBVIOUS
    <3>1. popup'[w] = popup[w]
      BY <1>1 DEF Untouched
    <3>2. PICK v \in Users : username[v] = popup[w] /\ Asked(v, w)
      BY <1>3, <3>1 DEF OneWindow
    <3>3. Asked(v, w)'
      BY <3>2, AskedKept
    <3>4. username'[v] = username[v]
      BY <3>2, NamesStay DEF Asked, CallInv
    <3> QED
      BY <3>1, <3>2, <3>3, <3>4
  <2> QED
    BY <1>1, <1>3, <1>6, <2>1, <2>2 DEF OneWindow, Untouched, Keys
<1>8. OneSound(w)'
  BY <1>1, <1>3, <1>6, SoundOf, SoundStays DEF Untouched
<1>9. gui'[w] \in Seq(OneEvents(w)') /\ up'[w] \in Seq(OneRequests(w)')
  BY <1>1, QueuesKept DEF Untouched
<1> QED
  BY <1>4, <1>6, <1>7, <1>8, <1>9 DEF OneUser, OneQueues

\* What the server hands on belongs to the call.
LEMMA RelayedOne ==
    ASSUME OneCall, CallInv, NEW a \in Users, ServerHandles(a), Head(up[a]).kind # "register",
           NEW w \in Users, Server!Target(Head(up[a]).to) = <<w, 1>>
    PROVE  LET m == Head(up[a]) IN
           /\ username[w] \in Names
           /\ [kind |-> m.kind, from |-> peerNames[Socket(a)], body |-> m.body] \in OneForwards(w)
<1> DEFINE m == Head(up[a])
           f == [kind |-> m.kind, from |-> peerNames[Socket(a)], body |-> m.body]
<1>1. /\ m \in OneRequests(a) /\ GoodRequest(a, username[a], m) /\ username[a] \in Names
      /\ peerNames[Socket(a)] = username[a]
  BY SenderIsNamed
<1>2. m \in Request /\ m.kind \in Kinds /\ m.to \in Keys /\ m.body \in Body
  BY <1>1 DEF OneRequests, Request
<1>3. <<w, 1>> \in Sockets /\ 1 \in Links
  BY NothingLost DEF Sockets
<1>4. m.to \in Names /\ peerNames[<<w, 1>>] = m.to
  <2>1. <<w, 1>> # NoSocket
    BY <1>3, CallAssumption
  <2> HIDE DEF m
  <2>2. m.to \in Names /\ peerIds[m.to] = <<w, 1>>
    BY <2>1 DEF Server!Target, m
  <2> QED
    BY <2>1, <2>2 DEF CallInv, Server!DirectoryLive
<1>5. username[w] = m.to /\ username[w] \in Names /\ username[w] # NoName /\ username[a] # NoName
  BY <1>1, <1>3, <1>4, CallAssumption DEF CallInv, IInv, Stamped, Keys
<1>6. m.kind = "reject" => Rejected(w, a)
  BY <1>1, <1>5, NameOwner DEF OneRequests, CallInv
<1>7. /\ f \in Server!Forward /\ f.kind = m.kind /\ f.from = username[a] /\ f.body = m.body
  BY <1>1, <1>2 DEF Server!Forward, Server!Kinds, Kinds
<1> HIDE DEF f
<1>8. f \in OneForwards(w)
  <2>1. m.kind \in Described => m.body.pc[2] = 2 /\ m.body.pc[1] = a
    BY <1>1 DEF OneRequests, GoodRequest
  <2>2. m.kind = "offer" => <<a, username[w]>> \in Dials
    BY <1>1, <1>5 DEF OneRequests
  <2>3. m.kind = "answer" => m.body.kind = "answer" /\ ~Caller(a)
    BY <1>1 DEF OneRequests
  <2>4. f.kind = "reject" => RejectedBy(w, f.from)
    BY <1>6, <1>7 DEF RejectedBy
  <2> HIDE DEF m
  <2> QED
    BY <1>5, <1>7, <2>1, <2>2, <2>3, <2>4 DEF OneForwards, Described
<1> QED
  BY <1>5, <1>8 DEF f

LEMMA BoxOne ==
    ASSUME OneCall, CallInv, NEW a \in Users, Acts(a), NEW w \in Users
    PROVE  OneBox(w)'
<1> DEFINE s == <<w, 1>>
           S == OneForwards(w)'
<1>1. s \in Sockets /\ inbox \in [Sockets -> Seq(Server!Forward)] /\ inbox[s] \in Seq(S)
  BY NothingLost, QueuesKept DEF Sockets, CallInv, IInv, CallTypeOK, Server!ServerTypeOK
<1> SUFFICES inbox'[s] \in Seq(S)
  BY DEF OneBox
<1>2. CASE UNCHANGED inbox
  BY <1>1, <1>2
<1>3. CASE ServerHandles(a)
  <2> DEFINE m == Head(up[a])
             f == [kind |-> m.kind, from |-> peerNames[Socket(a)], body |-> m.body]
             t == Server!Target(m.to)
  <2>1. CASE m.kind = "register"
    BY <1>2, <1>3, <2>1 DEF ServerHandles, Server!Register
  <2>2. CASE m.kind # "register"
    <3>1. Server!Relay(Socket(a), m.kind, m.to, m.body)
      BY <1>3, <2>2 DEF ServerHandles
    <3>2. CASE t # s
      <4>1. inbox'[s] = inbox[s]
        BY <1>1, <3>1, <3>2 DEF Server!Relay, Server!Delivered
      <4> QED
        BY <1>1, <4>1
    <3>3. CASE t = s
      <4>1. inbox' = inbox \/ inbox'[s] = Append(inbox[s], f)
        BY <1>1, <3>1, <3>3 DEF Server!Relay, Server!Delivered
      <4>2. username[w] # NoName /\ f \in OneForwards(w)
        BY <1>3, <2>2, <3>3, RelayedOne, CallAssumption DEF Keys
      <4>3. f \in S
        BY <4>2, SetsKept
      <4> HIDE DEF f, S, s
      <4>4. Append(inbox[s], f) \in Seq(S)
        BY <1>1, <4>3, AppendElements
      <4> QED
        BY <1>1, <4>1, <4>4
    <3> QED
      BY <3>2, <3>3
  <2> QED
    BY <2>1, <2>2
<1>4. CASE LinkUp(a)
  BY <1>2, <1>4 DEF LinkUp, Server!Connect
<1>5. CASE ClientHandles(a)
  <2>1. inbox[<<a, 1>>] # <<>> /\ inbox' = [inbox EXCEPT ![<<a, 1>>] = Tail(inbox[<<a, 1>>])]
    BY <1>5, NothingLost DEF ClientHandles, Server!Deliver
  <2>2. CASE w = a
    <3>1. inbox'[s] = Tail(inbox[s]) /\ inbox[s] # <<>>
      BY <1>1, <2>1, <2>2
    <3> HIDE DEF s, S
    <3> QED
      BY <1>1, <3>1, TailElements
  <2>3. CASE w # a
    <3>1. <<a, 1>> # s
      BY <2>3
    <3>2. inbox'[s] = inbox[s]
      BY <1>1, <2>1, <3>1
    <3> QED
      BY <1>1, <3>2
  <2> QED
    BY <2>2, <2>3
<1> QED
  BY <1>2, <1>3, <1>4, <1>5, OffTheNetwork, NothingLost DEF Acts, Network, serverVars

----------------------------------------------------------------------------
(* The invariant and what it gives. *)

LEMMA OneInvInit == Init => OneInv
<1> SUFFICES ASSUME Init, NEW u \in Users PROVE OneUser(u) /\ OneQueues(u) /\ OneBox(u)
  BY DEF OneInv
<1>1. /\ gui[u] = <<>> /\ up[u] = <<>> /\ alive[u] /\ ~linked[u] /\ link[u] = 0 /\ made[u] = 0
      /\ username[u] = NoName /\ button[u] = "call" /\ popup[u] = NoName /\ ~mic[u] /\ ~speaker[u]
      /\ \A n \in Keys : peerSdps[u][n] = NoSdp /\ peerConnections[u][n] = NoConn
  BY DEF Init
<1>2. Len(<<>>) = 0 /\ \A S : <<>> \in Seq(S)
  OBVIOUS
<1>3. EndsLast(gui[u]) /\ \A o : ~Waits(gui[u], o)
  BY <1>1, <1>2 DEF EndsLast, Waits
<1>4. \A n \in Keys : ~InCall(u, n)
  BY <1>1 DEF InCall
<1>5. OneLine(u) /\ OneEntries(u)
  BY <1>1, <1>4 DEF OneLine, OneEntries
<1>6. OneWindow(u) /\ OneSound(u)
  BY <1>1, <1>3, <1>4 DEF OneWindow, OneSound
<1>7. OneBox(u)
  <2>1. <<u, 1>> \in Sockets
    BY CallAssumption DEF Sockets, Links
  <2>2. inbox[<<u, 1>>] = <<>>
    BY <2>1 DEF Init, Server!ServerInit
  <2> QED
    BY <1>2, <2>2 DEF OneBox
<1> QED
  BY <1>1, <1>2, <1>5, <1>6, <1>7 DEF OneUser, OneQueues

LEMMA OneInvKept == OneCall /\ CallInv /\ [Next]_vars => OneInv'
<1> SUFFICES ASSUME OneCall, CallInv, [Next]_vars PROVE OneInv'
  OBVIOUS
<1>1. CASE UNCHANGED vars
  <2>1. UNCHANGED <<inbox, peerNames, link, linked, up, alive, gui, peerSdps, peerConnections, made,
                    mic, speaker, username, button, nameField, popup, calls>>
    BY <1>1 DEF vars, serverVars, linkVars, pcVars, audioVars, uiVars
  <2>2. ASSUME NEW u \in Users PROVE (OneUser(u) /\ OneQueues(u) /\ OneBox(u))'
    <3>1. OneUser(u) /\ OneQueues(u) /\ OneBox(u)
      BY DEF CallInv, OneInv
    <3>2. \A v, w \in Users : (Asked(v, w)' <=> Asked(v, w)) /\ (Rejected(v, w)' <=> Rejected(v, w))
      BY <2>1 DEF Asked, Rejected, Caller, Keys
    <3>3. \A n : RejectedBy(u, n)' <=> RejectedBy(u, n)
      BY <2>1, <3>2 DEF RejectedBy
    <3>4. /\ OneEvents(u)' = OneEvents(u) /\ OneRequests(u)' = OneRequests(u)
          /\ OneForwards(u)' = OneForwards(u)
      BY <2>1, <3>2, <3>3
         DEF OneEvents, OneRequests, OneForwards, Caller, Keys, Carries, Described, Event, Request,
             Server!Forward, Server!Kinds
    <3>5. (OneQueues(u) /\ OneBox(u))'
      BY <2>1, <3>1, <3>4 DEF OneQueues, OneBox
    <3>6. \A n \in Keys : InCall(u, n)' <=> InCall(u, n)
      BY <2>1 DEF InCall
    <3>7. OneLine(u)' /\ OneEntries(u)'
      BY <2>1, <3>1, <3>6 DEF OneUser, OneLine, OneEntries, OneEntry, Caller, Keys
    <3>8. OneWindow(u)'
      <4>1. popup'[u] # NoName => \E v \in Users : (username[v] = popup[u] /\ Asked(v, u))'
        BY <2>1, <3>1, <3>2 DEF OneUser, OneWindow
      <4>2. nameField[u] \in Keys
        BY DEF CallInv, IInv, CallTypeOK
      <4> QED
        BY <2>1, <3>1, <3>3, <3>6, <4>1, <4>2 DEF OneUser, OneWindow, Keys
    <3>9. OneSound(u)'
      BY <2>1, <3>1, <3>6 DEF OneUser, OneSound, Over, Keys
    <3> QED
      BY <3>5, <3>7, <3>8, <3>9 DEF OneUser
  <2> QED
    BY <2>2 DEF OneInv
<1>2. ASSUME NEW a \in Users, Acts(a), NEW w \in Users
      PROVE  (OneUser(w) /\ OneQueues(w) /\ OneBox(w))'
  <2>1. OneUser(a)' /\ OneQueues(a)'
    <3>1. CASE Click(a)
      BY <1>2, <3>1, ClickSubmitOne, ClickCallOne, ClickEndOne, ClickAcceptOne, ClickRejectOne
         DEF Click
    <3>2. CASE Slot(a)
      BY <1>2, <3>2, OfferReceivedOne, AnswerReceivedOne, RejectReceivedOne, SendDescriptionOne,
         ConnectionReadyOne, EndConnectionOne DEF Slot
    <3>3. ASSUME NEW n \in Keys, Media(a, n) PROVE OneUser(a)' /\ OneQueues(a)'
      BY <1>2, <3>3, GatherDoneOne, TrackOrFailOne, PcConnectedOne, PcClosedOne DEF Media
    <3>4. CASE Network(a)
      BY <1>2, <3>4, NetworkOne
    <3> QED
      BY <1>2, <3>1, <3>2, <3>3, <3>4 DEF Acts
  <2> QED
    BY <1>2, <2>1, OtherOne, BoxOne
<1> QED
  BY <1>1, <1>2 DEF Next, Acts, OneInv

LEMMA CallHolds ==
    ASSUME OneCall
    PROVE  Spec => []CallInv
<1>1. OneWay
  BY DEF OneCall
<1>2. IInv /\ ClientInv /\ Server!DirectoryLive /\ RoleInv /\ [Next]_vars => RoleInv'
  BY <1>1, RoleInvKept
<1>3. Spec => [](IInv /\ ClientInv /\ Server!DirectoryLive /\ Numbered /\ InOrder /\ RoleInv)
  BY <1>2, InitGood, StepGood, ClientInvInit, ClientInvKept, InOrderInit, InOrderKept, RoleInvInit,
     DirectoryStaysLive, PTL DEF Spec
<1>4. IInv /\ ClientInv /\ Server!DirectoryLive /\ Numbered /\ InOrder /\ RoleInv /\ OneInv
          /\ [Next]_vars => OneInv'
  BY OneInvKept DEF CallInv
<1>5. Spec => []OneInv
  BY <1>3, <1>4, OneInvInit, PTL DEF Spec
<1> QED
  BY <1>3, <1>5, PTL DEF CallInv

\* No null pointer is followed and no exception leaves a slot as long as
\* everybody makes at most one call, over one connection, and nobody is called
\* twice: endCall finds the peer connection it looks up, an answer finds the
\* offer it answers pending, and a message comes from a registered user.
THEOREM NobodyCrashesInOneCall ==
    ASSUME OneCall
    PROVE  Spec => []NobodyCrashes
<1>1. CallInv => NobodyCrashes
  BY DEF CallInv, OneInv, OneUser, OneLine, NobodyCrashes
<1> QED
  BY <1>1, CallHolds, PTL

\* In one call, a window that shows the call has the call's peer connection,
\* with the description of the other side attached (callButton.connected()
\* is reached through acceptCall and setAnswer only after addPeer has run).
THEOREM ShownCallHasPeer ==
    ASSUME OneCall
    PROVE  Spec => []InCallHasPeer
<1>1. CallInv => InCallHasPeer
  <2> SUFFICES ASSUME CallInv, NEW u \in Users, button[u] = "endCall"
               PROVE  LET c == peerConnections[u][nameField[u]] IN c # NoConn /\ c.remote # NoSdp
    BY DEF InCallHasPeer
  <2> QED
    BY DEF CallInv, OneInv, OneUser, OneWindow, InCall
<1> QED
  BY <1>1, CallHolds, PTL

\* In one call, whatever callbacks opened has been closed once the window is
\* back at "Call" and its event queue is empty: onStateChange(Closed) comes
\* after every onStateChange(Connected), and endConnection closes both devices.
THEOREM IdleAfterOneCall ==
    ASSUME OneCall
    PROVE  Spec => []IdleIsSilent
<1>1. CallInv => IdleIsSilent
  <2> SUFFICES ASSUME CallInv, NEW u \in Users, button[u] = "call", gui[u] = <<>>
               PROVE  ~mic[u] /\ ~speaker[u]
    BY DEF IdleIsSilent, Sending
  <2>1. ~Waits(gui[u], "endConnection")
    BY DEF Waits
  <2> QED
    BY <2>1, SoundOf DEF OneSound
<1> QED
  BY <1>1, CallHolds, PTL

LEMMA LeavesClosedCall ==
    ASSUME OneCall, CallInv, [Next]_vars, NEW u \in Users,
           button[u] = "endCall", button'[u] # "endCall"
    PROVE  LET c == peerConnections'[u][nameField[u]] IN c # NoConn /\ c.state = "closed"
<1> DEFINE n == nameField[u]
           c == peerConnections[u][n]
<1>1. n \in Keys /\ InCall(u, n)
  BY DEF CallInv, IInv, CallTypeOK, OneInv, OneUser, OneWindow
<1>2. c \in Conn /\ c # NoConn /\ \A m \in Keys : InCall(u, m) => m = n
  BY <1>1, CallEntry
<1>3. PICK a \in Users : Acts(a)
  BY DEF Next, Acts, vars, uiVars
<1>4. u = a
  BY <1>3, OthersUntouched DEF CallInv, IInv, Untouched
<1>5. CASE ClickEnd(u)
  <2> DEFINE d == [c EXCEPT !.state = "closed"]
  <2>1. peerConnections' = [peerConnections EXCEPT ![u][n] = d]
    BY <1>1, <1>2, <1>5 DEF ClickEnd, CallInv, IInv, CallTypeOK
  <2>2. d \in Conn /\ d.state = "closed"
    BY <1>2 DEF Conn
  <2> HIDE DEF d, n
  <2>3. peerConnections'[u][n] = d
    BY <1>1, <2>1 DEF CallInv, IInv, CallTypeOK
  <2> QED
    BY <2>2, <2>3, CallAssumption DEF n
<1>6. CASE EndConnection(u)
  <2>1. Over(u)
    BY <1>6, EndIsOver DEF EndConnection
  <2>2. c.state = "closed"
    BY <1>2, <2>1 DEF Over
  <2> QED
    BY <1>2, <1>6, <2>2 DEF EndConnection
<1>7. ~RejectReceived(u)
  BY <1>3, <1>4, RejectReceivedOne
<1>8. ~Click(u) \/ ClickEnd(u)
  <2> SUFFICES ASSUME Click(u), ~ClickEnd(u) PROVE FALSE
    OBVIOUS
  <2>1. ASSUME NEW m, ClickSubmit(u, m) \/ ClickCall(u, m) PROVE FALSE
    BY <2>1 DEF ClickSubmit, ClickCall
  <2>2. CASE ClickAccept(u) \/ ClickReject(u)
    BY <2>2 DEF ClickAccept, ClickReject, Connected, CallInv, IInv, CallTypeOK
  <2> QED
    BY <2>1, <2>2 DEF Click
<1>9. ~Slot(u) \/ EndConnection(u)
  BY <1>7 DEF Slot, OfferReceived, AnswerReceived, SendOffer, SendAnswer, SendDescription,
              ConnectionReady, uiVars, CallInv, IInv, CallTypeOK
<1>10. ~Network(u) /\ \A m \in Keys : ~Media(u, m)
  BY DEF Network, LinkUp, LinkLost, ServerDisconnects, ServerHandles, ClientHandles, clientVars,
         Media, GatherDone, TrackReceived, PcConnected, PcClosed, PcFailed, uiVars
<1> QED
  BY <1>3, <1>4, <1>5, <1>6, <1>8, <1>9, <1>10 DEF Acts

\* In one call the window leaves the call only when its peer connection is
\* closed: by this user's click, or by the close of the other side whose
\* endConnection resets the window.  A reject never takes an answered call
\* down, because whoever rejects has not answered.
THEOREM CallEndsWithPeer ==
    ASSUME OneCall
    PROVE  Spec => CallEndsWithItsPeer
<1>1. CallInv /\ [Next]_vars =>
          [\A u \in Users :
              (button[u] = "endCall" /\ button'[u] # "endCall") =>
                  LET c == peerConnections'[u][nameField[u]] IN
                  c # NoConn /\ c.state = "closed"]_vars
  BY LeavesClosedCall
<1> QED
  BY <1>1, CallHolds, PTL DEF Spec, CallEndsWithItsPeer

=============================================================================
