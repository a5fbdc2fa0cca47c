------------------------------ MODULE WsSession ------------------------------
(***************************************************************************)
(* What a WebSocket connection of websocketpp promises to the code that    *)
(* made it, the socket.io client: the handlers for open, fail and close    *)
(* are called at most once each and in order, every attempt and every      *)
(* closing comes to an end, and the close handler sees the code "normal"   *)
(* only when one of the two sides has asked for a normal close.            *)
(* WebSocket implements it; SioConnection is built on it.                  *)
(***************************************************************************)

VARIABLES
    phase,  \* how far the connection is
    told,   \* the handlers that have been called
    asked,  \* one side has asked for a normal close
    seen    \* the local close code the close handler found

sessionVars == <<phase, told, asked, seen>>

Phases == {"idle", "connecting", "open", "closing", "failed", "closed"}

\* The codes the close handler can find.
CloseCodes == {"normal", "goingAway", "protocol", "policy", "abnormal"}

Init ==
    /\ phase = "idle"
    /\ told = <<>>
    /\ asked = FALSE
    /\ seen = "none"

Begin ==
    /\ phase = "idle"
    /\ phase' = "connecting"
    /\ UNCHANGED <<told, asked, seen>>

Opens ==
    /\ phase = "connecting"
    /\ phase' = "open"
    /\ told' = <<"open">>
    /\ UNCHANGED <<asked, seen>>

Fails ==
    /\ phase = "connecting"
    /\ phase' = "failed"
    /\ told' = <<"fail">>
    /\ UNCHANGED <<asked, seen>>

\* Either side starts to close.
Closes ==
    /\ phase = "open"
    /\ phase' = "closing"
    /\ asked' \in BOOLEAN
    /\ UNCHANGED <<told, seen>>

\* The connection is over, by a closing handshake or by an error.
Ends ==
    /\ phase \in {"open", "closing"}
    /\ phase' = "closed"
    /\ told' = <<"open", "close">>
    /\ seen' \in CloseCodes
    /\ seen' = "normal" => asked
    /\ UNCHANGED asked

Next == Begin \/ Opens \/ Fails \/ Closes \/ Ends

\* No attempt and no closing lasts for ever, whatever the network does.
Spec ==
    /\ Init
    /\ [][Next]_sessionVars
    /\ WF_sessionVars(Opens \/ Fails)
    /\ WF_sessionVars(phase = "closing" /\ Ends)

=============================================================================
