-------------------------- MODULE SignalingServer --------------------------
(***************************************************************************)
(* The signalling server, signalingServer/server.js: a directory of names  *)
(* and a relay.  Node.js runs one handler at a time to its end, so every   *)
(* handler is one action.                                                  *)
(*                                                                         *)
(* A member of Sockets is a socket.io id.  The library never hands out an  *)
(* id twice: a client that comes back has a new one.                       *)
(***************************************************************************)
EXTENDS Naturals, Sequences

CONSTANTS
    Sockets,    \* socket.io ids
    Names,      \* the names users register, never blank
    NoSocket,   \* peerIds has no such key
    NoName,     \* peerNames has no such key (JavaScript's undefined)
    Payloads    \* what an offer, an answer, a reject or a candidate carries

ASSUME ServerAssumption ==
    /\ NoSocket \notin Sockets
    /\ NoName \notin Names

Kinds == {"offer", "answer", "reject", "ice-candidate"}

VARIABLES
    status,     \* "new", then "online", then "gone"
    peerIds,    \* name -> socket
    peerNames,  \* socket -> name
    inbox       \* socket -> messages sent to that client and not yet delivered

serverVars == <<status, peerIds, peerNames, inbox>>

Forward == [kind : Kinds, from : Names \cup {NoName}, body : Payloads]

ServerTypeOK ==
    /\ status \in [Sockets -> {"new", "online", "gone"}]
    /\ peerIds \in [Names -> Sockets \cup {NoSocket}]
    /\ peerNames \in [Sockets -> Names \cup {NoName}]
    /\ inbox \in [Sockets -> Seq(Forward)]

ServerInit ==
    /\ status = [s \in Sockets |-> "new"]
    /\ peerIds = [n \in Names |-> NoSocket]
    /\ peerNames = [s \in Sockets |-> NoName]
    /\ inbox = [s \in Sockets |-> <<>>]

----------------------------------------------------------------------------
(* The handlers. *)

\* io.on('connection'): only the handlers of the socket are installed.
Connect(s) ==
    /\ status[s] = "new"
    /\ status' = [status EXCEPT ![s] = "online"]
    /\ UNCHANGED <<peerIds, peerNames, inbox>>

\* 'register': the last client to claim a name gets it, and a socket keeps
\* the last name it claimed.  A blank name returns early and changes nothing.
Register(s, n) ==
    /\ status[s] = "online"
    /\ peerIds' = [peerIds EXCEPT ![n] = s]
    /\ peerNames' = [peerNames EXCEPT ![s] = n]
    /\ UNCHANGED <<status, inbox>>

Target(n) == IF n \in Names THEN peerIds[n] ELSE NoSocket

\* What io.to(target).emit adds: nothing when the name has no socket, and
\* nothing when the room of that socket is empty because the client is gone.
Delivered(s, kind, n, body) ==
    LET t == Target(n) IN
    IF t # NoSocket /\ status[t] = "online"
    THEN [inbox EXCEPT
            ![t] = Append(@, [kind |-> kind, from |-> peerNames[s], body |-> body])]
    ELSE inbox

\* 'offer', 'answer', 'reject' and 'ice-candidate' are the same handler.
Relay(s, kind, n, body) ==
    /\ status[s] = "online"
    /\ inbox' = Delivered(s, kind, n, body)
    /\ UNCHANGED <<status, peerIds, peerNames>>

\* The names that lead to s.  The loop of 'disconnect' stops at the first.
NamesOf(s) == {n \in Names : peerIds[n] = s}

\* Faulty variants of 'disconnect'.  The first deletes the socket's own name
\* without looking whose it is by now, the second forgets the loop, the third
\* assigns undefined to the entry that it should delete.
DisconnectByName(s) ==
    /\ status[s] = "online"
    /\ status' = [status EXCEPT ![s] = "gone"]
    /\ peerNames' = [peerNames EXCEPT ![s] = NoName]
    /\ inbox' = [inbox EXCEPT ![s] = <<>>]
    /\ peerIds' = [n \in Names |-> IF n = peerNames[s] THEN NoSocket ELSE peerIds[n]]

DisconnectKeepsName(s) ==
    /\ status[s] = "online"
    /\ status' = [status EXCEPT ![s] = "gone"]
    /\ peerNames' = [peerNames EXCEPT ![s] = NoName]
    /\ inbox' = [inbox EXCEPT ![s] = <<>>]
    /\ UNCHANGED peerIds

DisconnectAssigns(s) ==
    /\ status[s] = "online"
    /\ status' = [status EXCEPT ![s] = "gone"]
    /\ peerNames' = [peerNames EXCEPT ![s] = NoName]
    /\ inbox' = [inbox EXCEPT ![s] = <<>>]
    /\ peerIds' = [n \in Names |-> IF n \in NamesOf(s) THEN NoName ELSE peerIds[n]]

\* 'disconnect': which name comes first is the order of the keys of a
\* JavaScript object; the model leaves it open.
Disconnect(s) ==
    /\ status[s] = "online"
    /\ status' = [status EXCEPT ![s] = "gone"]
    /\ peerNames' = [peerNames EXCEPT ![s] = NoName]
    /\ inbox' = [inbox EXCEPT ![s] = <<>>]
    /\ IF NamesOf(s) = {}
       THEN UNCHANGED peerIds
       ELSE \E n \in NamesOf(s) : peerIds' = [peerIds EXCEPT ![n] = NoSocket]

\* The transport hands the oldest message to the client.
Deliver(s) ==
    /\ status[s] = "online"
    /\ inbox[s] # <<>>
    /\ inbox' = [inbox EXCEPT ![s] = Tail(@)]
    /\ UNCHANGED <<status, peerIds, peerNames>>

----------------------------------------------------------------------------
(* The server among the application's clients.  A client registers once, as *)
(* soon as it is connected (signalmanager.cpp); what it asks to relay, and   *)
(* when, is up to it.                                                        *)

ServerNext ==
    \E s \in Sockets :
        \/ Connect(s)
        \/ \E n \in Names : peerNames[s] = NoName /\ Register(s, n)
        \/ \E n \in Names, kind \in Kinds, body \in Payloads : Relay(s, kind, n, body)
        \/ Disconnect(s)
        \/ Deliver(s)

ServerSpec == ServerInit /\ [][ServerNext]_serverVars

----------------------------------------------------------------------------
(* Properties. *)

\* Every name in the directory leads to a client that is connected now and
\* still goes by that name (the two maps of server.js agree), so nothing is
\* ever relayed into the void or to somebody else.  Names may be claimed by
\* several clients and clients may leave in any order; the loop of
\* 'disconnect' that stops at the first match is enough for this.
DirectoryLive ==
    \A n \in Names :
        peerIds[n] # NoSocket =>
            /\ status[peerIds[n]] = "online"
            /\ peerNames[peerIds[n]] = n

\* A client that leaves takes no name away from another client: the holder
\* of a name changes only when somebody claims that name or when the holder
\* itself disconnects ('register' overwrites, 'disconnect' compares ids).
NameKeptUntilClaimedOrLeft ==
    [][\A n \in Names :
          (peerIds[n] # NoSocket /\ peerIds'[n] # peerIds[n]) =>
              \/ status'[peerIds[n]] = "gone"
              \/ /\ peerIds'[n] # NoSocket
                 /\ peerNames'[peerIds'[n]] = n
                 /\ peerNames[peerIds'[n]] # n ]_serverVars

=============================================================================
