# Voice calls: specification, model checking and proofs

The program is a peer-to-peer voice call application: a Qt client
(`webrtc.cpp`, `signalmanager.cpp`, `audioinput.cpp`, `audiooutput.cpp`, the
window in `qml/`), a signalling server (`signalingServer/server.js`) and the
libraries they use (libdatachannel, socket.io-client-cpp with websocketpp and
asio, Opus). The modules here model what the program itself decides, and the
vendored libraries that carry its signalling; they are translated from the code.

## 1. Inventory

| Component | State it keeps | Operations | Interacts through |
|---|---|---|---|
| signalling server, `server.js` | `peerIds` (name to socket), `peerNames` (socket to name) | `connection`, `register`, `offer`, `answer`, `reject`, `ice-candidate`, `disconnect` | socket.io messages |
| `SignalManager` | the socket.io client | connect and register, send offer/answer/reject, three handlers | queued Qt signals to and from `WebRTC` |
| `WebRTC` | `m_isOfferer`, `m_peerSdps`, `m_peerConnections`, `m_peerTrack` | `registerName`, `startCall`, `acceptCall`, `rejectCall`, `endCall`; slots `offerReceived`, `answerReceived`, `connectionReady`, `endConnection`; callbacks of a peer connection | called by QML; callbacks arrive on threads of libdatachannel |
| window and popups, `qml/` | user name, call button, name field, call popup | clicks; `connected()`, `reset()` | calls `WebRTC`, listens to its signals |
| `AudioInput` | sources made, the newest one, open or not | `open`, `close`, `writeData` | started and stopped by `connectionReady` and `endConnection` |
| `AudioOutput` | sink, `device` | `start`, `stop`, `receivedData` | the same, and packets of the track |
| socket.io client, connection (`sio_client_impl.cpp`) | `m_con_state`, `m_abort_retries`, `m_con`, attempts, two timers, the network thread | `connect`, `close`, `sync_close`; handlers of open, fail, close, pings and timers | called by `SignalManager`; handlers run on the network thread |
| socket.io client, socket (`sio_socket.cpp`) | `m_connected`, `m_packet_queue`, `m_connection_timer` | `emit`; `on_connected`, `on_disconnect`, the timeout, removal | emits on the GUI thread, the rest on the network thread |
| websocketpp, client connection | `m_state`, `m_internal_state`, timers, `m_send_queue`, `m_current_msgs`, `m_write_flag` | `async_connect`, `send`, `close`, the handlers of asio | open, fail and close handlers of the socket.io client |
| packets of socket.io, asio, rapidjson, Opus | none of the program's own | | called by the above |
| libdatachannel (binary only) | peer connections | descriptions, gathering, states | callbacks |

What is hard here:

* **Three kinds of threads per client.** Clicks and slots run on the GUI
  thread; socket.io handlers and libdatachannel callbacks run elsewhere and
  reach the GUI thread through its event queue. What they report is stale when
  it is handled: the Closed callback of one call is handled during the next.
* **One role per client.** `m_isOfferer` belongs to the client, not to the
  call. Two calls that cross change it while descriptions are being gathered.
* **One entry per name.** A redial replaces the peer connection under a name
  and destroys the old one, which closes it, which queues `endConnection`.
* **No call numbers.** Offers, answers and rejects name only users.
* **Lost connections.** Messages are lost with a connection, and a client that
  is back has a new socket and no name.
* **A lock-free state in the socket.io client.** `connect`, `close` and `emit`
  read and write on the GUI thread what the network thread changes; what was
  read is stale when it is used, and cancelled timers still call their handlers.
* **One end, many causes.** A connection of websocketpp ends through errors of
  five operations, three timers and two closing handshakes, while a write is
  under way; its handlers must still be called once.
* **Untested pointers.** `endCall`, `localDescription().value()`, a missing
  "from" and the unset member `device`.

What must hold, per component: the two maps of the server agree and lead to
connected sockets; names are not lost to somebody else's departure; nobody is
heard without consent; the window and the calls agree; a caller hears back and
a hang-up arrives; devices are opened and closed in pairs; emitted events are
sent at most once and not before the socket is connected; a client has one
connection at a time, retries one that drops, and stays closed when closed; a
connection calls its handlers once and writes what it accepted in order.

## 2. Modules

| Module | Models | Extends or instantiates |
|---|---|---|
| `SignalingServer` | `server.js`, one action per handler | |
| `MCSignalingServer` | bounds and symmetry for TLC | `SignalingServer` |
| `SignalingServerProofs` | theorems about the server | `SignalingServer` |
| `VoiceCall` | clients, window, SignalManager and libdatachannel composed with the server | instantiates `SignalingServer` as `Server` |
| `MCVoiceCall` | two users and their exchange for TLC | `VoiceCall` |
| `VoiceCallProofs` | theorems about the composition: types, consent | `VoiceCall` |
| `VoiceOrderProofs` | the use of the server, the order of descriptions, rejected calls | `VoiceCallProofs` |
| `VoiceRolesProofs` | callers and answerers; a single call | `VoiceOrderProofs` |
| `AudioDevices` | `AudioInput` and `AudioOutput` of one client in detail | |
| `AudioDevicesProofs` | theorems about the devices | `AudioDevices` |
| `WsSession` | abstract: what a WebSocket connection promises its user | |
| `WebSocket` | a client connection of websocketpp | instantiates `WsSession` as `Session` |
| `WebSocketProofs` | theorems about the connection | `WebSocket` |
| `SioConnection` | the socket.io client's connection, retries and closing | |
| `SioConnectionProofs` | theorems about it | `SioConnection`, instantiates `WsSession` |
| `EventChannel` | abstract: what `emit` promises its caller | |
| `SioSocket` | the socket, its packet queue and its timer | instantiates `EventChannel` as `Channel` |
| `SioSocketProofs` | theorems about the socket | `SioSocket` |

The signalling path is thus modelled in layers: `WebSocket` implements
`WsSession`; `SioConnection` is built on sessions that do what `WsSession`
allows and gives `SioSocket` connections that come and go; `SioSocket`
implements `EventChannel`; `VoiceCall` emits through a channel. `VoiceCall`
takes a stronger one than `EventChannel`: emits in order, and lost only with
the connection. Its clients emit at the click or slot that needs it and mostly
once the socket is connected, where `EventChannel` keeps the order; a stranded
packet (`StrandsAtMostOne`) or a removed socket is beyond it.

### SignalingServer

A socket is "new", "online" or "gone" and socket.io never hands out an id
twice. Node.js runs a handler to its end, so a handler is one action. The four
relays are the same code and one action, `Relay`. `inbox[s]` is what socket.io
holds for a client; `Delivered` adds nothing if the name is unknown or the
socket is gone, as `io.to(id).emit` does. `Disconnect` frees the first name it
finds, and "first" is left open. `ServerNext` lets every client register once
per connection, which is what `signalmanager.cpp` does, and ask to relay
anything at any time.

### VoiceCall

| State | Code |
|---|---|
| `link`, `linked`, `up` | how often the socket.io client has connected, whether it is connected, what it emitted and the server has not handled |
| `gui` | the event queue of the GUI thread: queued slots and signals from other threads |
| `isOfferer`, `peerSdps`, `peerConnections` | the members of `WebRTC` |
| `peerTrack` | which peer connection `m_peerTrack` belongs to |
| `mic`, `speaker` | `AudioInput` is open, `AudioOutput` is started (in detail in `AudioDevices`) |
| `username`, `button`, `nameField`, `popup` | the window |
| `agreed` | history: whom the user called or accepted and has not hung up on |

A click is one action with everything its handler calls on the GUI thread:
`ClickCall` is `onClicked`, `startCall`, `addPeer`, `addAudioTrack` and
`generateOfferSDP`, including the Closed callback of the peer connection it
replaces. A slot consumes the head of `gui`. The callbacks of libdatachannel
(`GatherDone`, `TrackReceived`, `PcConnected`, `PcClosed`, `PcFailed`) happen
at any time between them. `ServerHandles` and `ClientHandles` are the handlers
of the two ends of a connection.

The name field is read at the click, so typing is part of `ClickCall`. Popups
are modal and nothing else can be clicked while one is open. A process that
follows a null pointer or lets an exception out of a slot is `~alive`.
`MaxCalls`, `MaxLinks` and `MaxMade` bound the calls, connections and peer
connections of one client; `CallAssumption` asks no more of them than that they
are numbers.

What is assumed of libdatachannel, from its headers and its use in
`webrtc.cpp`: `close()` of an open peer connection, and its destruction, run
the Closed callback, and the callback of the code queues `endConnection`; an
answer for a peer connection without a pending offer makes
`setRemoteDescription` throw; a closed one ignores descriptions; an offer for
one with a pending offer rolls it back; two peer connections connect when each
holds the other's description; if one end closes, the other sees Closed or, if
the path broke or it never connected, Failed.

What is assumed of socket.io: messages of one connection arrive in order; what
is under way when it breaks is lost; the server may notice the break after the
client is back. The packet queue of the client is taken as a channel in order
(see the plan).

### AudioDevices

`made` counts the `QAudioSource`s of `AudioInput`, `audioSource` is the newest,
`recording` are those that run: `open()` always makes one and `close()` stops
the newest. `device` is the pointer of `AudioOutput`: null, junk (no
constructor sets it), the device of the run of the sink, or one of a run that
is over. With `MayBreak` the backend stops, or fails to start, by itself.
`device` starts as anything in `DeviceAtStart`, and until it has been set
writing through it may do anything: `receivedData` then writes, drops or ends
the process.

Nothing is asked of the order of `open()` and `close()`. Every `open()` makes a
source and starts it, or fails to open the `QIODevice` and returns with a source
that is not started; `overtaken` is a history of those that recorded when the
next one was made, which `close()` cannot reach any more. `NoSourceLeft` says
that nothing else is left behind, and `OpenedOnce` in `crossed_calls` that the
calls of two users overtake none.

### WsSession and WebSocket

`WsSession` has five steps: begin, open, fail, start to close, end. It promises
each handler at most once and in order, that attempts and closings end, and
that the close handler finds the code `normal` only when a side asked for it.

| State of `WebSocket` | Code |
|---|---|
| `mState`, `stage` | `m_state`; `m_internal_state`, whose `USER_INIT` is split in resolving, connecting and after |
| `ops` | pending operations of asio; taking one out is its completion handler |
| `timer`, `stale` | the timer of the step under way or `m_handshake_timer`; timers that the connection no longer points to and that still run |
| `sendQueue`, `current`, `writeFlag`, `posted` | `m_send_queue`, `m_current_msgs`, `m_write_flag`, calls of `write_frame` in the io_service |
| `localCode`, `wasClean` | `m_local_close_code`, `m_was_clean` |
| `told`, `seen`, `asked`, `sent`, `wire` | history: handlers called, code found, who asked, messages accepted and written |
| `incoming`, `arrived`, `link` | the server and the network |

`Terminate` is `terminate()` with `handle_terminate()`; an operation on a socket
that has been shut down may complete with an error or with what came before.
Frames are read one at a time: the code's loop over a buffer does nothing in
between. Codes are told apart as far as the code does. `TakeBatch` is the loop
of `write_frame` that stops after a terminal frame. Reading waits for room in
the queue of `MaxQueue` frames, which bounds the model only.

### SioConnection

The user's thread runs `connect`, `close` and `sync_close`; every access to
`m_con_state` and `m_abort_retries` is a step. The network thread runs one
handler at a time (`net` says where it is), and its handlers are split in the
same way: `OnFail` looks, `Failing` assigns, `Arming` sets the timer. `ioQueue`
holds what was dispatched. `reconn`, `ping` are the timers; `stray` and
`strayPing` are handlers of cancelled timers that are queued, which is how a
retry can follow a close. What `sockets_invoke_void` does is `SioSocket`'s part.
With `PromptUser` no call of `close()` lasts as long as the delay of a retry
(five seconds and more); without it a retry slips in between its steps.
External: the sessions, which are `WsSession`s by the guards of their actions.

### EventChannel and SioSocket

Events are numbered as they are emitted. An event that found the socket
connected is `direct`. `SioSocket` has a step for each access of `emit` to what
is shared: looking at `m_connected`, pushing under the lock, popping one packet
under the lock, dispatching it. `on_connected` pops in the same way on the
network thread, where a dispatched packet is written at once. `asked` and
`acked` are the CONNECT of socket.io and its answer; packet 0 is a CONNECT that
the constructor of a new socket dispatches on the GUI thread. `RemoveSocket` is
`on_close`: an emit inside the socket is left `dangling` and claims nothing.
With `PromptUser` no emit lasts as long as the delay of a reconnection.

## 3. Runs

| Run | Question | Bounds |
|---|---|---|
| `directory` | do the maps agree, who loses a name (`DirectoryLive`, `NameKeptUntilClaimedOrLeft`) | 3 sockets, 2 names, 1 message waiting; symmetric in sockets and names |
| `one_call` | crash, window without a call, sound after a call, does the caller hear back, does a hang-up arrive (`NobodyCrashes`, `InCallHasPeer`, `IdleIsSilent`, `CallEndsWithItsPeer`, `CallerHearsBackUnlessLeft`, `HangupHeard`) | one call of two users, any outcome, media path may break, fairness |
| `crossed_calls` | consent, popup and role, rejected calls, microphone (`Consent`, `PopupMeansAnswerer`, `RejectLeavesNoCall`, `OpenedOnce`) | both users call, twice each: 580 000 states up to the exchange of the two users (`ExchangeUsers`: users and their names are exchanged together, which the constants and the four properties allow) |
| `reconnect` | use of the server (`ServerOfCalls`), what can end a process (`DiesInTwoWays`) | one user calls the other twice, each client connects twice, both may claim one name, media path may break |
| `audio` | sources left recording, speaker, late packets (`NoSourceLeft`, `StartedPlays`, `PlayedOnLiveDevice`) | 3 openings in any order with closings, 4 packets, pointer null or junk at the start, devices may fail |
| `websocket` | order and completeness of what is written, end of the connection (`NothingAfterClose`, `SentInOrder`, `QueueDrains`), is it a session (`ImplementsSession`) | 2 messages, 2 frames of the server, 2 frames waiting; every error and timeout; fairness |
| `sio_connection` | one connection, none after a close, no lost close, no lost retry (`OneSession`, `OpenedHasSession`, `PingFindsSession`, `NoSessionAfterClose`, `ClosingEndsUnlessEarly`, `DropIsRetried`), no retry after a normal end (`NormalEndIsFinal`) | 2 connections, 3 calls, 1 retry in a row; fairness |
| `sio_socket` | queue and timer against two threads (`NoTimerWhileConnected`, `StrandsAtMostOne`, `SentAfterAck`, `QueuedIsFlushed`), is it a channel (`ImplementsChannel`) | 3 events, 2 connections, 2 sockets; fairness |
| `accept`, `glare`, `unnamed`, `ws_extensions` | what a text of the repository says and the code does not do | the smallest instance that shows it |

Why the bounds are enough: a directory conflict needs two claims and a
departure, so three sockets and two names give every order of them. A crossing
needs one call each; a redial over stale callbacks a second one. Lost
connections matter twice per client at most: losing one and coming back; the
same holds of the two connections of `sio_connection` and `sio_socket`, where
the third call is the one that meets the leftovers of a connect and a close. A
packet is overtaken when three events meet: one held by a thread, one in the
queue, one direct. Two messages and two frames are enough for a frame that is
queued during a write and a close frame that meets it. Each
run's properties fail for a faulty variant of the code (the definitions headed
"Faulty variant" are there for that): a handler that forgets a step, keeps an
old value or acts twice.

`CHECK_DEADLOCK FALSE` is set where the system may really stop: users need not
call, and a terminated client does nothing.

**Fairness** (`FairSpec`). In `VoiceCall`, weak
fairness of the slots of each GUI thread, of
the server's and the client's message handlers, of the gathering callback and
of the callback for an end that closed: event loops and library threads go on
running. The user answers a ringing popup (accept or reject); nobody has to
call or to hang up. The connection to the server is not
lost in this run, because the code retries nothing, and `HangupHeard` excepts a
peer connection whose path has failed. In `WebSocket`, timers expire and their
handlers and posted writes run; nothing is expected of the server or of the
network: that is why every attempt ends. In `SioConnection`, both threads go on,
a queued handler of a timer runs although others are queued with it (strong
fairness, because handlers take turns on one thread), and sessions do what
`WsSession` promises; no call of the user, no packet and no end of an open
session is expected. In `SioSocket`, the network thread and an emit under way
go on, the client connects again (what `DropIsRetried` gives it) and the server
answers a CONNECT unless the connection drops.

**What the passing runs do not claim.** The properties of `one_call` are true
of one call only, and the bound is deliberate. From the second call on, or
when two calls cross, TLC finds behaviours of the code that break each of them:

* after a reject the peer connection stays open; the redial destroys it, its
  queued `endConnection` empties the name field while the new call connects,
  and "End Call" then follows `m_peerConnections[""]` (`NobodyCrashes`,
  `InCallHasPeer`);
* an `endConnection` left in the queue of the callee resets a window that has
  accepted the next call (`IdleIsSilent`, `CallEndsWithItsPeer`);
* when calls cross, an offer sent as an answer is set as one and the slot
  throws (`NobodyCrashes`);
* when two users call the same one, what the first call leaves in the callee's
  event queue meets the second, and all four break as above;
* after a lost connection the client's queued offer reaches the server before
  its name is registered again, has no sender and ends the process it is
  relayed to (`NobodyCrashes`; the other three hold).

`OneCall` in `VoiceRolesProofs` states the conditions; under them the
properties are proved for any number of users.

`DiesInTwoWays` names all the ways in which a process ends when calls do not
cross and a client makes at most two, over rejects, redials, broken paths and
lost connections: a message that was relayed without a "from"
(`NamelessMessage`, `signalmanager.cpp:42`), and "End Call" on a name that the
end of an earlier call has blanked (`HangsUpNothing`, in a second call,
`webrtc.cpp:62`). The run reaches both. Three calls add a third way: an answer to
the first offer, rejected and dialled over, is taken for one to the last offer
(`webrtc.cpp:194`), and the right one then throws. When calls cross there is a
fourth, an offer sent as an answer; no passing run claims that descriptions keep
their kind (`SentAsGenerated`), and `glare` shows that they do not.

`StartedPlays` and `PlayedOnLiveDevice` hold once `device` has been set and
until the sink has stopped by itself; otherwise
`start()` does not start the sink (see below). `NormalEndIsFinal` speaks of normal ends only; what follows a
drop is `DropIsRetried`, and what follows `close()` is `NoSessionAfterClose`.

Of the socket.io client, the run `sio_connection` excepts two cases that the
code really has: `early`, a `close()` before the client is opened, and `missed`,
a retry that a late ping timeout has cancelled; see below.

### Findings

* `accept`: a call that rings while the previous one is torn down is accepted
  without attaching its description, and the window shows a call.
* `glare`: an offer leaves as an answer once its sender became an answerer.
* `unnamed`: a client that reconnects is not registered again.
* `ws_extensions`: a connection whose extensions cannot be negotiated is
  terminated, its fail handler called, and then opened.

Seen in the model without a run of its own:

* after a reject (`README.md:71`: everything is closed) the caller's peer
  connection stays open;
* `AudioOutput::start` tests a pointer that no constructor sets, and with any
  value but null never starts the sink; `stop` leaves the pointer when the sink
  has stopped by itself, and then the next `start` does nothing
  (`README.md:138`: `start` starts the sink, `stop` sets the pointer to null);
* a callee who accepts and hangs up before its gathering is complete leaves the
  caller at "Connecting..." for ever (`CallerHearsBackUnlessLeft` excepts it);
* `connectionReady` opens only the microphone at the offerer and only the
  speaker at the answerer, so a call is one-way, while `README.md:71` speaks of
  microphone and speaker at both ends;
* `close()` before the connection is open does not close it: `close_impl` finds
  no session, and `on_open`, which sees the state, calls `close()` again before
  it has set `m_con`, so that the session stays open (`early`); the next
  `connect()` or `sync_close()` waits for the thread of that session;
* a ping timeout whose handler was queued when the connection dropped cancels
  the retry that `on_close` has armed: the client stays closed (`missed`);
* a packet pushed just after `on_connected` has emptied the queue waits for the
  next emit (`StrandsAtMostOne`);
* a late handler of the CONNECT timer removes a socket that is connected; the
  next emit makes a new one without the `SignalManager`'s listeners, and an
  emit under way goes on in an object that is destroyed.

## 4. Proofs

The proofs hold for every value of the constants that satisfies
`ServerAssumption`, `CallAssumption`, `AudioAssumption`, `WebSocketAssumption`,
`SioConnectionAssumption` and `SioSocketAssumption`, which say that the
"none" values are none of the others and that the bounds are numbers. A theorem
that needs more says so in its ASSUME.

* `SignalingServerProofs`: `ServerTyped`, `DirectoryIsLive`, `NamesAreKept`.
  `DirectoryLive` with the type invariant is inductive: a name leads to a
  socket that goes by it, so a socket is led to by one name at most, and
  freeing the first name found frees them all.
* `VoiceCallProofs`: `CallTyped`, `PopupIsForAnswerers`, `CallsNeedConsent`.
  `Consent` speaks of two connected peer connections and is far from
  inductive, because a description travels through two event queues, two
  channels and the server. `IInv` follows it: what a client emits is its own
  (`Requests`), the server stamps the registered name on it (`Stamped`,
  `Forwards`), the receiver's queue, store and peer connections hold it under
  that name (`Events`, `Stored`, `Attached`), and an open peer connection with
  a description of its own was called or accepted (`Attached`). Names never
  change once submitted, so a description stays right. `PopupMeansAnswerer` is
  part of `IInv`: it excludes that accepting gives the description to an
  existing, unagreed peer connection. There is one lemma per action; `Framed`
  covers the parts whose variables an action leaves alone.
* `VoiceOrderProofs`, the use of the server: `ClientsUseTheServer` maps every
  step of the clients and their links to a step of `SignalingServer` or a
  stutter, so that `DirectoryStaysLive` carries `DirectoryLive` over from
  `SignalingServerProofs`. The server lets a connection register once, and no
  variable of a client says that it has: `ClientInv` adds that a connection not
  yet made is new to the server (`FreshLinks`), that a registration under way is
  the first of its queue, hence the only one, and finds a socket without a name
  (`RegistersFirst`), and that a client without a name has emitted nothing
  (`Unnamed`).
* `VoiceOrderProofs`, the order of messages: `DescriptionsInOrder` follows the
  descriptions that v makes for the name n through the four queues between v and
  u as one row, oldest first: the numbers of their peer connections rise, all are
  higher than what u has stored or attached, and each is of the entry that v has
  now, gathered, or of one that this replaced (`Orderly`). A step shifts or joins such rows (`Shifted`,
  `ShiftKeepsOrder`, `JoinKeepsOrder`), and losing a connection only shortens
  them. `RejectedCallersAreNotHeard` adds `PopupIsNewer`: the offer a popup asks
  about belongs to a newer peer connection than any that u has attached to the
  caller's entry, so that a call with the caller cannot be on when its popup is
  rejected. It assumes `NamesDistinct`, that no two users may take the same
  name: the server does not check this, and of two users of one name the popup
  cannot tell which one calls.
* `VoiceRolesProofs`, a single call: `NobodyCrashesInOneCall`, `ShownCallHasPeer`,
  `IdleAfterOneCall` and `CallEndsWithPeer`, for `OneCall`: every client makes at
  most one call over one connection, nobody is called by two users or both calls
  and is called, and names are distinct. The run `one_call` is the instance of
  two users; the theorems hold for any number of pairs at once. Without one call
  each, one caller each, `OneWay` or one connection, TLC finds a crash (see "What
  the passing runs do not claim"); `NamesDistinct` is used by the proof, and TLC
  found no behaviour of three users that needs it. The invariant, `OneInv`, says
  four things of each client. Its link is up or was never made, and it registers
  before it emits anything else (`OneLine`). Its second peer connection is the
  call's, and it has one entry for it (`OneEntries`), so everything in the queues
  names that one (`OneEvents`, `OneRequests`, `OneForwards`). A reject can only be
  on its way from somebody who was asked and never answered (`RejectedBy`), hence
  never meets an answered call; so the window shows the call exactly while it has
  a description of the other side and is not closed (`OneWindow`). And
  `endConnection` comes after every `connectionReady` and is waiting as long as
  the window shows a call that is over (`OneSound`). `InOrder` gives that a
  description is received once, and `RoleInv` that it is of the kind that fits:
  a client with an offer of its own is an offerer, only callers are, and no offer
  is on its way to a caller. Under `OneWay`, that a user who dials is never
  dialled, no role changes while a description is gathered, so nothing is
  claimed of the case in which it does.
* `AudioDevicesProofs`: `AudioTyped`; `NoSourceIsLeft`, with the invariant that
  what records is the newest source or was overtaken, and the newest only while
  `AudioInput` is open; `StartedSinkPlays` and `LatePacketsAreDropped`, with the
  invariant that a set pointer is null exactly while the sink is stopped, until
  the sink stops by itself. Nothing is assumed of the order of the slots or of
  the pointer at the start.
* `SioConnectionProofs`: `ConnectionTyped`, `OneSessionAtATime`,
  `ClosedForGood`, `OpenedHasOne`, `PingsAreAnswered`, `NormalEndsAreFinal`.
  That a client has one connection at a time rests on something that no variable
  holds: the right to make one. It is a queued "connect", an armed or queued
  retry that still finds the state closed, a handler on its way to arm one, or
  the live session itself; the invariant says that there is one such token at
  most, and none while the user's thread starts a new network thread.
  `ClosedForGood` adds that after a close no retry is armed or under way, and
  that a handler still queued finds a state other than closed (`ClosedIsOver`,
  `DueIsSeen`); without `PromptUser` it is false (a retry slips in), so it is
  assumed.
  `HInv` follows `m_con`: while the client is opened, or being closed after it
  was, `m_con` holds a session that is not over (`OpenedHolds`), and an open
  session is that one or in the handler of its opening (`OpenIsHeld`).
  `NormalEndsAreFinal` adds that after a normal end the client is at rest: its
  handler is in the branch that arms nothing, or it has passed it, and no retry
  is armed, queued or under way. The lemma `EnvironmentIsWs` is no result about
  the client: it checks that the guards of the external actions allow a session
  what `WsSession` allows.
* `SioSocketProofs`: `ConnectedStopsTimer`, `OneStranded` (an emit that is about
  to push finds the queue of a connected socket empty), `SocketTyped`,
  `AckedFirst` (under `PromptUser`) and `SocketIsChannel`, a refinement: every step is one of
  `EventChannel` or leaves it as it is. Its invariant, `OrderInv`, orders what
  waits: a dispatched event is older than the one the GUI thread holds, that one
  older than what is queued, and that older than the event of the emit; what is
  queued or held by the network thread is not direct and is nowhere else.
* `WebSocketProofs`: `WebSocketTyped`, `NothingBehindClose`, `MessagesInOrder`,
  `SessionSafe`. Every
  handler does one of six things to the life of the connection (`LifeStep`) and
  one of four to what is written (`OutStep`); the theorems are proved from these
  alone. `OrderOK` says that a close frame written, being written or waiting
  admits only close frames behind it and that the connection is then closing.
  `SendInv` says that the messages written, being written and waiting are, in
  this order, the numbers of the messages accepted, with control frames anywhere
  between; `SentInOrder` is stated with positions so that no recursion over the
  frames is needed.
  `SessionSafe` is the safety part of `ImplementsSession`, for answers without
  the header that `ws_extensions` shows to break it.

Only model-checked: the liveness properties (the prover has no reasoning about
fairness for them); `OpenedOnce`, which is true of two users but not of three;
`DiesInTwoWays`, which needs that nobody calls three times.

## 5. Not modelled

* RTP headers, sound data, Opus (never called), bit rate and SSRC setters.
* `setRemoteCandidate`, `generateAnswerSDP`, `sendIceCandidate`: no callers.
* `main.cpp` and `AudioSettings.qml`: no state, never opened.
* The data race on `m_peerConnections` (`webrtc.cpp:110` and `122`): lookups
  are atomic in the model.
* Of the socket.io client: `socket::close` with its three seconds, which needs a
  `close()` of a connected socket, and the application closes only in the
  destructor; acknowledgements and binary events, which it does not use; the
  text and JSON of packets; proxies and TLS.
* Of websocketpp: the server role, TLS, proxies, pings of the client, and the
  bytes (HTTP, masking, frame headers, UTF-8, compression).
* asio, rapidjson, libdatachannel (headers and a binary) and Opus.

Most of the repository's lines are of the last kind: asio, rapidjson, the parts
of websocketpp for servers, parsing and compression, and their examples and
tests are nine tenths of the code in `src/`. They hold no state or order of
their own that this program depends on beyond what the modules assume, so the
map stays a small share of all lines while it covers the program's own code and
the control of its signalling libraries.

## 6. Plan

Done, in this order: the server and its proofs; the composition with its runs;
the proofs of consent, of the use of the server, of the order of descriptions and
of a single call; the audio devices; websocketpp's
connection, the socket.io client's connection and socket, with their abstract
specifications and proofs.

Next:

1. Runs with three users: a second caller over an open popup, a microphone
   opened twice. A proof of `DiesInTwoWays` for any number of connections.
2. An abstract specification of a call (idle, ringing, talking, over) that
   `VoiceCall` implements for one call; `AudioDevices` under the calls.
3. `SioSocket` on top of `SioConnection` in one module, so that "the client
   connects again" is no assumption there.
