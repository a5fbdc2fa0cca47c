------------------------- MODULE AudioDevicesProofs -------------------------
(* What the microphone and the speaker promise, for any number of calls and *)
(* packets, any order of the slots and whatever the devices and the unset   *)
(* pointer do.                                                              *)
EXTENDS AudioDevices, FiniteSetTheorems, TLAPS

\* Whatever records is the newest source, while AudioInput is open, or was
\* overtaken by a newer one.
OthersOvertaken ==
    /\ recording \subseteq overtaken \cup {made}
    /\ made \notin overtaken
    /\ made \in recording => isOpen

\* Packets are counted once.
Counted == packets + played <= MaxPackets

InputInv == AudioTypeOK /\ OthersOvertaken /\ Counted

LEMMA InputInductive == Spec => []InputInv
<1>1. Init => InputInv
  <2> SUFFICES ASSUME Init PROVE InputInv
    OBVIOUS
  <2>1. device \in {"null", "junk"}
    BY AudioAssumption DEF Init
  <2>2. made \in 1..MaxOpens + 1 /\ packets \in 0..MaxPackets /\ played \in 0..MaxPackets
    BY AudioAssumption DEF Init
  <2>3. recording \subseteq 2..made /\ overtaken \subseteq 2..made /\ OthersOvertaken
    BY DEF Init, OthersOvertaken
  <2>4. Counted
    BY AudioAssumption DEF Init, Counted
  <2> QED
    BY <2>1, <2>2, <2>3, <2>4 DEF Init, InputInv, AudioTypeOK
<1>2. InputInv /\ [Next]_vars => InputInv'
  <2> SUFFICES ASSUME InputInv, [Next]_vars
               PROVE  InputInv'
    OBVIOUS
  <2> USE DEF inputVars, outputVars, packetVars
  <2>1. /\ made \in 1..MaxOpens + 1 /\ recording \subseteq 2..made /\ overtaken \subseteq 2..made
        /\ packets \in 0..MaxPackets /\ played \in 0..MaxPackets /\ packets + played <= MaxPackets
        /\ MaxOpens \in Nat /\ MaxPackets \in Nat
    BY AudioAssumption DEF InputInv, AudioTypeOK, Counted
  <2>2. CASE Open
    <3>1. /\ made \in 1..MaxOpens /\ made' = made + 1
          /\ overtaken' = overtaken \cup (recording \cap {made})
          /\ UNCHANGED <<outputVars, packetVars, alive>>
      BY <2>1, <2>2 DEF Open
    <3>2. \/ recording' = recording \cup {made + 1} /\ isOpen' = TRUE
          \/ UNCHANGED <<recording, isOpen>>
      BY <2>2 DEF Open
    <3>3. made' \in 1..MaxOpens + 1
      BY <2>1, <3>1
    <3>8. \A s \in 2..made : s \in 2..made'
      BY <2>1, <3>1
    <3>9. made' \in 2..made' /\ (made \in recording => made \in 2..made')
      BY <2>1, <3>1
    <3>10. recording' \subseteq 2..made' /\ overtaken' \subseteq 2..made'
      <4>1. recording' \subseteq recording \cup {made'} /\ overtaken' \subseteq overtaken \cup recording
        BY <3>1, <3>2
      <4> QED
        BY <2>1, <3>8, <3>9, <4>1, Zenon
    <3>4. recording' \subseteq overtaken' \cup {made'} /\ made' \notin overtaken'
      <4>1. made' \notin overtaken /\ made' # made
        BY <2>1, <3>1
      <4>2. recording \subseteq overtaken'
        BY <3>1 DEF InputInv, OthersOvertaken
      <4>3. recording' \subseteq recording \cup {made'}
        BY <3>1, <3>2
      <4> QED
        BY <3>1, <4>1, <4>2, <4>3, Zenon
    <3>5. made + 1 \notin recording
      BY <2>1
    <3>6. made' \in recording' => isOpen'
      BY <3>1, <3>2, <3>5
    <3>7. AudioTypeOK'
      BY <3>1, <3>2, <3>3, <3>10 DEF InputInv, AudioTypeOK
    <3> QED
      BY <3>1, <3>4, <3>6, <3>7 DEF InputInv, OthersOvertaken, Counted
  <2>3. CASE Start
    BY <2>3 DEF Start, InputInv, AudioTypeOK, OthersOvertaken, Counted
  <2>4. CASE End
    BY <2>4 DEF End, Close, Stop, InputInv, AudioTypeOK, OthersOvertaken, Counted
  <2>5. CASE SourceBreaks
    BY <2>5 DEF SourceBreaks, InputInv, AudioTypeOK, OthersOvertaken, Counted
  <2>6. CASE SinkBreaks
    BY <2>6 DEF SinkBreaks, InputInv, AudioTypeOK, OthersOvertaken, Counted
  <2>7. CASE PacketArrives
    <3>1. packets' \in 0..MaxPackets /\ packets' + played <= MaxPackets
      BY <2>1, <2>7 DEF PacketArrives
    <3> QED
      BY <2>7, <3>1 DEF PacketArrives, InputInv, AudioTypeOK, OthersOvertaken, Counted
  <2>8. CASE ReceivedData
    <3>1. /\ packets' = packets - 1 /\ packets > 0
          /\ played' = played \/ played' = played + 1
          /\ UNCHANGED <<made, recording, isOpen, overtaken, sink, device, wanted, failed, broken>>
      BY <2>8 DEF ReceivedData
    <3>2. /\ packets' \in 0..MaxPackets /\ played' \in 0..MaxPackets
          /\ packets' + played' <= MaxPackets
      <4>1. CASE played' = played
        BY <2>1, <3>1, <4>1
      <4>2. CASE played' = played + 1
        BY <2>1, <3>1, <4>2
      <4> QED
        BY <3>1, <4>1, <4>2
    <3>3. alive' \in BOOLEAN
      BY <2>8 DEF ReceivedData, InputInv, AudioTypeOK
    <3> QED
      BY <3>1, <3>2, <3>3 DEF InputInv, AudioTypeOK, OthersOvertaken, Counted
  <2>9. CASE UNCHANGED vars
    BY <2>9 DEF vars, InputInv, AudioTypeOK, OthersOvertaken, Counted
  <2> QED
    BY <2>2, <2>3, <2>4, <2>5, <2>6, <2>7, <2>8, <2>9 DEF Next
<1> QED
  BY <1>1, <1>2, PTL DEF Spec

\* The variables of AudioInput and AudioOutput keep their types, whatever the
\* device pointer is at the start.
THEOREM AudioTyped == Spec => []AudioTypeOK
BY InputInductive, PTL DEF InputInv

\* Whatever the order of open() and close(), which nothing in audioinput.cpp
\* restricts, a source is left recording by being overtaken and in no other way.
THEOREM NoSourceIsLeft == Spec => []NoSourceLeft
<1>1. InputInv => NoSourceLeft
  <2> SUFFICES ASSUME InputInv PROVE NoSourceLeft
    OBVIOUS
  <2>1. recording \ overtaken = {} \/ recording \ overtaken = {made}
    BY DEF InputInv, OthersOvertaken
  <2>2. Cardinality({}) = 0 /\ Cardinality({made}) = 1
    BY FS_EmptySet, FS_Singleton, Zenon
  <2>3. Cardinality(recording \ overtaken) <= 1
    BY <2>1, <2>2
  <2> QED
    BY <2>3 DEF InputInv, OthersOvertaken, NoSourceLeft
<1> QED
  BY <1>1, InputInductive, PTL

\* A pointer that has been set says whether the sink runs, as long as the sink
\* does not stop by itself; one that has not been set keeps it from running.
DeviceSaysSink ==
    /\ ~IsSet => sink = "stopped"
    /\ IsSet /\ ~broken => /\ device \in {"null", "live"}
                           /\ device = "live" <=> sink = "active"
                           /\ wanted /\ ~failed => sink = "active"
    /\ sink = "active" => wanted /\ device = "live"

LEMMA DeviceInductive == Spec => []DeviceSaysSink
<1>1. Init => DeviceSaysSink
  BY AudioAssumption DEF Init, DeviceSaysSink, IsSet
<1>2. DeviceSaysSink /\ InputInv /\ [Next]_vars => DeviceSaysSink'
  <2> SUFFICES ASSUME DeviceSaysSink, InputInv, [Next]_vars
               PROVE  DeviceSaysSink'
    OBVIOUS
  <2> USE DEF DeviceSaysSink, IsSet, InputInv, AudioTypeOK, outputVars
  <2>1. CASE Open
    BY <2>1 DEF Open
  <2>2. CASE Start
    BY <2>2 DEF Start
  <2>3. CASE End
    BY <2>3 DEF End, Stop
  <2>4. CASE SourceBreaks
    BY <2>4 DEF SourceBreaks
  <2>5. CASE SinkBreaks
    BY <2>5 DEF SinkBreaks
  <2>6. CASE PacketArrives \/ ReceivedData
    <3>1. UNCHANGED outputVars
      BY <2>6 DEF PacketArrives, ReceivedData
    <3> QED
      BY <3>1
  <2>7. CASE UNCHANGED vars
    BY <2>7 DEF vars
  <2> QED
    BY <2>1, <2>2, <2>3, <2>4, <2>5, <2>6, <2>7 DEF Next
<1> QED
  BY <1>1, <1>2, InputInductive, PTL DEF Spec

\* Whatever the pointer holds at the start and whatever fails, a callee hears
\* from start() to the end of the call but for the cases that StartedPlays
\* names (audiooutput.cpp).
THEOREM StartedSinkPlays == Spec => []StartedPlays
<1>1. DeviceSaysSink => StartedPlays
  BY DEF DeviceSaysSink, StartedPlays
<1> QED
  BY <1>1, DeviceInductive, PTL

\* Whatever the pointer holds at the start and whatever fails, a late packet
\* never reaches the device of a sink that has been stopped but for the cases
\* that PlayedOnLiveDevice names (receivedData tests the pointer that stop()
\* clears).
THEOREM LatePacketsAreDropped == Spec => PlayedOnLiveDevice
<1>1. DeviceSaysSink /\ InputInv /\ [Next]_vars =>
          [played' # played => (sink = "active" /\ wanted) \/ ~IsSet \/ broken]_vars
  <2> SUFFICES ASSUME DeviceSaysSink, InputInv, Next, played' # played, ~broken, IsSet
               PROVE  sink = "active" /\ wanted
    BY DEF vars, packetVars
  <2>1. ReceivedData
    BY DEF Next, Open, Start, End, SourceBreaks, SinkBreaks, PacketArrives, packetVars
  <2>2. device # "null"
    BY <2>1 DEF ReceivedData, InputInv, AudioTypeOK
  <2> QED
    BY <2>2 DEF DeviceSaysSink
<1> QED
  BY <1>1, InputInductive, DeviceInductive, PTL DEF Spec, PlayedOnLiveDevice

=============================================================================
