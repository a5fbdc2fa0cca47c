----------------------- MODULE SignalingServerProofs -----------------------
(* The directory of the signalling server is right for any number of         *)
(* sockets, names and messages.                                              *)
EXTENDS SignalingServer, TLAPS

\* The state stays within its types whatever the clients send
\* (server.js, every handler).
THEOREM ServerTyped == ServerSpec => []ServerTypeOK
<1>1. ServerInit => ServerTypeOK
  BY DEF ServerInit, ServerTypeOK
<1>2. ServerTypeOK /\ [ServerNext]_serverVars => ServerTypeOK'
  <2> SUFFICES ASSUME ServerTypeOK, [ServerNext]_serverVars PROVE ServerTypeOK'
    OBVIOUS
  <2> USE ServerAssumption DEF ServerTypeOK
  <2>1. CASE UNCHANGED serverVars
    BY <2>1 DEF serverVars
  <2>2. ASSUME NEW s \in Sockets, Connect(s) PROVE ServerTypeOK'
    BY <2>2 DEF Connect
  <2>3. ASSUME NEW s \in Sockets, NEW n \in Names, Register(s, n) PROVE ServerTypeOK'
    BY <2>3 DEF Register
  <2>4. ASSUME NEW s \in Sockets, NEW n \in Names, NEW kind \in Kinds, NEW body \in Payloads,
               Relay(s, kind, n, body)
        PROVE ServerTypeOK'
    <3> DEFINE m == [kind |-> kind, from |-> peerNames[s], body |-> body]
    <3>1. m \in Forward
      BY DEF Forward
    <3>2. ASSUME NEW t \in Sockets PROVE Append(inbox[t], m) \in Seq(Forward)
      BY <3>1
    <3>3. Delivered(s, kind, n, body) \in [Sockets -> Seq(Forward)]
      BY <3>2 DEF Delivered, Target
    <3> QED
      BY <2>4, <3>3 DEF Relay
  <2>5. ASSUME NEW s \in Sockets, Disconnect(s) PROVE ServerTypeOK'
    <3>1. peerIds' \in [Names -> Sockets \cup {NoSocket}]
      BY <2>5 DEF Disconnect, NamesOf
    <3> QED
      BY <2>5, <3>1 DEF Disconnect
  <2>6. ASSUME NEW s \in Sockets, Deliver(s) PROVE ServerTypeOK'
    BY <2>6 DEF Deliver
  <2> QED
    BY <2>1, <2>2, <2>3, <2>4, <2>5, <2>6 DEF ServerNext
<1> QED
  BY <1>1, <1>2, PTL DEF ServerSpec

\* The two maps agree about every name, so one deletion per disconnect is
\* enough (server.js, 'register' and 'disconnect').  DirectoryLive is inductive
\* for typed states: a socket that registers has no name yet, so no other entry
\* of the directory leads to it.
THEOREM DirectoryIsLive == ServerSpec => []DirectoryLive
<1>1. ServerInit => DirectoryLive
  BY DEF ServerInit, DirectoryLive
<1>2. ServerTypeOK /\ DirectoryLive /\ [ServerNext]_serverVars => DirectoryLive'
  <2> SUFFICES ASSUME ServerTypeOK, DirectoryLive, [ServerNext]_serverVars
               PROVE  DirectoryLive'
    OBVIOUS
  <2> USE ServerAssumption DEF ServerTypeOK, DirectoryLive
  <2>1. CASE UNCHANGED serverVars
    BY <2>1 DEF serverVars
  <2>2. ASSUME NEW s \in Sockets, Connect(s) PROVE DirectoryLive'
    BY <2>2 DEF Connect
  <2>3. ASSUME NEW s \in Sockets, NEW n \in Names, peerNames[s] = NoName, Register(s, n)
        PROVE DirectoryLive'
    BY <2>3 DEF Register
  <2>4. ASSUME NEW s \in Sockets, NEW n \in Names, NEW kind \in Kinds, NEW body \in Payloads,
               Relay(s, kind, n, body)
        PROVE DirectoryLive'
    BY <2>4 DEF Relay
  <2>5. ASSUME NEW s \in Sockets, Disconnect(s) PROVE DirectoryLive'
    <3>1. ASSUME NEW n \in Names, peerIds[n] = s PROVE n = peerNames[s]
      BY <3>1
    <3>2. ASSUME NEW n \in Names PROVE peerIds'[n] # s
      <4>1. CASE NamesOf(s) = {}
        BY <2>5, <4>1 DEF Disconnect, NamesOf
      <4>2. CASE NamesOf(s) # {}
        <5>1. PICK k \in NamesOf(s) : peerIds' = [peerIds EXCEPT ![k] = NoSocket]
          BY <2>5, <4>2 DEF Disconnect
        <5>2. k = peerNames[s]
          BY <3>1 DEF NamesOf
        <5> QED
          BY <3>1, <5>1, <5>2 DEF NamesOf
      <4> QED
        BY <4>1, <4>2
    <3>3. ASSUME NEW n \in Names, peerIds'[n] # NoSocket PROVE peerIds'[n] = peerIds[n]
      BY <2>5, <3>3 DEF Disconnect, NamesOf
    <3> QED
      BY <2>5, <3>2, <3>3 DEF Disconnect
  <2>6. ASSUME NEW s \in Sockets, Deliver(s) PROVE DirectoryLive'
    BY <2>6 DEF Deliver
  <2> QED
    BY <2>1, <2>2, <2>3, <2>4, <2>5, <2>6 DEF ServerNext
<1> QED
  BY <1>1, <1>2, ServerTyped, PTL DEF ServerSpec

\* A name passes to another client only when that client claims it or when the
\* holder leaves (server.js, 'register' and 'disconnect').
THEOREM NamesAreKept == ServerSpec => NameKeptUntilClaimedOrLeft
<1> DEFINE Kept == \A n \in Names :
          (peerIds[n] # NoSocket /\ peerIds'[n] # peerIds[n]) =>
              \/ status'[peerIds[n]] = "gone"
              \/ /\ peerIds'[n] # NoSocket
                 /\ peerNames'[peerIds'[n]] = n
                 /\ peerNames[peerIds'[n]] # n
<1>1. ServerTypeOK /\ DirectoryLive /\ [ServerNext]_serverVars => [Kept]_serverVars
  <2> SUFFICES ASSUME ServerTypeOK, DirectoryLive, ServerNext PROVE Kept
    OBVIOUS
  <2> USE ServerAssumption DEF ServerTypeOK, DirectoryLive
  <2>1. ASSUME NEW s \in Sockets, Connect(s) \/ Deliver(s) PROVE Kept
    BY <2>1 DEF Connect, Deliver
  <2>2. ASSUME NEW s \in Sockets, NEW n \in Names, peerNames[s] = NoName, Register(s, n)
        PROVE Kept
    BY <2>2 DEF Register
  <2>3. ASSUME NEW s \in Sockets, NEW n \in Names, NEW kind \in Kinds, NEW body \in Payloads,
               Relay(s, kind, n, body)
        PROVE Kept
    BY <2>3 DEF Relay
  <2>4. ASSUME NEW s \in Sockets, Disconnect(s) PROVE Kept
    <3>1. ASSUME NEW n \in Names, peerIds'[n] # peerIds[n] PROVE peerIds[n] = s
      BY <2>4, <3>1 DEF Disconnect, NamesOf
    <3> QED
      BY <2>4, <3>1 DEF Disconnect
  <2> QED
    BY <2>1, <2>2, <2>3, <2>4 DEF ServerNext
<1> QED
  BY <1>1, ServerTyped, DirectoryIsLive, PTL DEF ServerSpec, NameKeptUntilClaimedOrLeft

=============================================================================
