---------------------------- MODULE AudioDevices ----------------------------
(***************************************************************************)
(* The microphone (audioinput.cpp) and the speaker (audiooutput.cpp) of    *)
(* one client, driven by the slots connectionReady and endConnection of    *)
(* webrtc.cpp and by the packets that the track receives.  Everything here *)
(* runs on the GUI thread; QAudioSource and QAudioSink are external.       *)
(* Nothing is assumed of the order of the slots: the microphone may be     *)
(* opened twice, and packets may come when nothing has been started.       *)
(***************************************************************************)
EXTENDS Naturals, FiniteSets

CONSTANTS
    DeviceAtStart,  \* what the member "device", which no constructor sets, may hold
    MayBreak,       \* TRUE: the devices may fail to open or start, or stop by themselves
    MaxOpens,       \* bound on the calls of open()
    MaxPackets      \* bound on the packets received

ASSUME AudioAssumption ==
    /\ DeviceAtStart \subseteq {"null", "junk"}
    /\ MayBreak \in BOOLEAN
    /\ MaxOpens \in Nat
    /\ MaxPackets \in Nat

VARIABLES
    made,       \* QAudioSources made; audioSource points to the newest
    recording,  \* those that are started
    isOpen,     \* the QIODevice AudioInput is open
    sink,       \* "active" or "stopped"
    device,     \* "live": of the sink's run, "dead": of a run that is over
    packets,    \* received and not yet handled
    played,     \* packets for which the device was called
    alive,      \* FALSE once the process has terminated
    overtaken,  \* history: sources that were started when another was made
    wanted,     \* history: start() has been called since the last stop()
    failed,     \* history: and the sink did not start
    broken      \* history: the sink has once stopped by itself

inputVars == <<made, recording, isOpen, overtaken>>
outputVars == <<sink, device, wanted, failed, broken>>
packetVars == <<packets, played>>
vars == <<inputVars, outputVars, packetVars, alive>>

\* The constructors: the first source is never started, and "device" is left
\* as it was found.
Init ==
    /\ alive = TRUE
    /\ overtaken = {}
    /\ failed = FALSE
    /\ made = 1
    /\ recording = {}
    /\ isOpen = FALSE
    /\ sink = "stopped"
    /\ device \in DeviceAtStart
    /\ wanted = FALSE
    /\ broken = FALSE
    /\ packets = 0
    /\ played = 0

----------------------------------------------------------------------------
(* AudioInput. *)

\* connectionReady of a caller.  Every open() makes a source, whatever is open;
\* audioSource leads to the newest one alone.
Open ==
    /\ made <= MaxOpens
    /\ made' = made + 1
    /\ overtaken' = overtaken \cup (recording \cap {made})
    /\ \/ recording' = recording \cup {made + 1} /\ isOpen' = TRUE
       \/ MayBreak /\ UNCHANGED <<recording, isOpen>>
    /\ UNCHANGED <<outputVars, packetVars, alive>>

\* Faulty variants: only the QIODevice is closed; the source is thrown away.
CloseKeepsRecording ==
    /\ isOpen' = FALSE
    /\ UNCHANGED <<made, recording, overtaken>>

CloseDropsSource ==
    /\ made' = made - 1
    /\ isOpen' = FALSE
    /\ UNCHANGED <<recording, overtaken>>

Close ==
    /\ recording' = recording \ {made}
    /\ isOpen' = FALSE
    /\ UNCHANGED <<made, overtaken>>

SourceBreaks ==
    /\ MayBreak
    /\ \E s \in recording : recording' = recording \ {s}
    /\ UNCHANGED <<made, isOpen, overtaken, outputVars, packetVars, alive>>

----------------------------------------------------------------------------
(* AudioOutput. *)

\* connectionReady of a callee: start() starts the sink unless the pointer
\* says that it runs.
Start ==
    /\ wanted' = TRUE
    /\ \/ /\ device # "null"
          /\ UNCHANGED <<sink, device, failed>>
       \/ /\ device = "null"
          /\ sink' = "active" /\ device' = "live" /\ failed' = FALSE
       \/ /\ device = "null" /\ MayBreak
          /\ failed' = TRUE
          /\ UNCHANGED <<sink, device>>
    /\ UNCHANGED <<inputVars, packetVars, broken, alive>>

\* Faulty variant: the pointer is kept.
StopKeepsDevice ==
    /\ sink' = "stopped"
    /\ device' = IF device = "live" THEN "dead" ELSE device
    /\ wanted' = FALSE /\ failed' = FALSE
    /\ UNCHANGED broken

\* stop() clears the pointer only while the sink runs.
Stop ==
    /\ sink' = "stopped"
    /\ device' = IF sink # "stopped" THEN "null" ELSE device
    /\ wanted' = FALSE /\ failed' = FALSE
    /\ UNCHANGED broken

SinkBreaks ==
    /\ MayBreak /\ sink = "active"
    /\ sink' = "stopped"
    /\ device' = "dead"
    /\ broken' = TRUE
    /\ UNCHANGED <<inputVars, wanted, failed, packetVars, alive>>

PacketArrives ==
    /\ packets + played < MaxPackets
    /\ packets' = packets + 1
    /\ UNCHANGED <<inputVars, outputVars, played, alive>>

\* receivedData calls the device unless the pointer is null.  What comes of it
\* when the pointer was never set, or leads to a run that is over, is
\* anything: the packet is dropped or written, or the process ends.
ReceivedData ==
    /\ packets > 0
    /\ packets' = packets - 1
    /\ \/ /\ device = "null"
          /\ UNCHANGED <<played, alive>>
       \/ /\ device # "null"
          /\ played' = played + 1
          /\ alive' \in BOOLEAN
          /\ device = "live" => alive'
    /\ UNCHANGED <<inputVars, outputVars>>

----------------------------------------------------------------------------
\* endConnection.
End == Close /\ Stop /\ UNCHANGED <<packetVars, alive>>

Next ==
    /\ alive
    /\ \/ Open
       \/ Start
       \/ End
       \/ SourceBreaks
       \/ SinkBreaks
       \/ PacketArrives
       \/ ReceivedData

Spec == Init /\ [][Next]_vars

----------------------------------------------------------------------------
(* Properties. *)

AudioTypeOK ==
    /\ made \in 1..MaxOpens + 1
    /\ recording \subseteq 2..made
    /\ overtaken \subseteq 2..made
    /\ isOpen \in BOOLEAN
    /\ sink \in {"active", "stopped"}
    /\ device \in {"null", "junk", "live", "dead"}
    /\ packets \in 0..MaxPackets
    /\ played \in 0..MaxPackets
    /\ alive \in BOOLEAN
    /\ wanted \in BOOLEAN
    /\ failed \in BOOLEAN
    /\ broken \in BOOLEAN

\* However many calls came and went, whatever the order of open() and close():
\* a source that records although AudioInput is closed is one that was
\* recording when open() was called again.  Only that leaves one behind, and
\* while AudioInput is open one source records besides those.
NoSourceLeft ==
    /\ ~isOpen => recording \subseteq overtaken
    /\ Cardinality(recording \ overtaken) <= 1

\* The member "device" has been set, to null at the latest, before its first
\* use.
IsSet == device # "junk"

\* A callee hears: from start() to the end of the call the sink runs, however
\* earlier calls ended and also when the sink did not start in one of them,
\* unless "device" has never been set or the sink has once stopped by itself.
StartedPlays == wanted /\ ~failed => sink = "active" \/ ~IsSet \/ broken

\* A packet that was on its way when its call ended, or one of an earlier
\* call handled during the next, never reaches the device of a sink that has
\* been stopped, unless "device" has never been set or the sink has once
\* stopped by itself.
PlayedOnLiveDevice ==
    [][played' # played => (sink = "active" /\ wanted) \/ ~IsSet \/ broken]_vars

=============================================================================
