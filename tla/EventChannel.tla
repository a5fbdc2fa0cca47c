----------------------------- MODULE EventChannel -----------------------------
(***************************************************************************)
(* What emit() of a socket.io socket promises its caller: an event is sent *)
(* at most once or lost, and an event that found the socket connected      *)
(* ("direct") is not sent before one that was emitted earlier and may      *)
(* still be sent.  Events that had to be queued may be sent in any order.  *)
(***************************************************************************)
EXTENDS Naturals, Sequences

VARIABLES
    emitted,    \* events are numbered from 1 as they are emitted
    direct,     \* those that found the socket connected
    waiting,    \* those that may still be sent
    sent        \* those that were sent, in their order

channelVars == <<emitted, direct, waiting, sent>>

Init ==
    /\ emitted = 0
    /\ direct = {}
    /\ waiting = {}
    /\ sent = <<>>

Accept ==
    /\ emitted' = emitted + 1
    /\ waiting' = waiting \cup {emitted + 1}
    /\ UNCHANGED <<direct, sent>>

FindsConnected ==
    /\ emitted \in waiting
    /\ direct' = direct \cup {emitted}
    /\ UNCHANGED <<emitted, waiting, sent>>

Transmit ==
    /\ \E m \in waiting :
        /\ m \in direct => \A k \in waiting : k >= m
        /\ waiting' = waiting \ {m}
        /\ sent' = Append(sent, m)
    /\ UNCHANGED <<emitted, direct>>

Lose ==
    /\ waiting' \in SUBSET waiting
    /\ UNCHANGED <<emitted, direct, sent>>

Next == Accept \/ FindsConnected \/ Transmit \/ Lose

Spec == Init /\ [][Next]_channelVars

=============================================================================
