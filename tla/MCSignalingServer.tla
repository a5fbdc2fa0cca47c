-------------------------- MODULE MCSignalingServer --------------------------
(* SignalingServer for TLC: bounded inboxes, symmetric sockets and names. *)
EXTENDS SignalingServer, TLC

CONSTANT MaxInbox   \* messages that may wait for one client

BoundedNext == ServerNext /\ \A s \in Sockets : Len(inbox'[s]) <= MaxInbox

BoundedSpec == ServerInit /\ [][BoundedNext]_serverVars

Symmetry == Permutations(Sockets) \cup Permutations(Names)

=============================================================================
