# Go-Webtools: formal models

TLA+ models, TLC configurations and TLAPS proofs for the Go library in `src/`.
The library has no unit tests of its own; its hardest code is the UDP
*connection stabilizer* (a small TCP-like protocol), the tunnels in `proxy/`
and the in-memory databases. This directory models the core of each of these
and says what is left.

Run a model with `tlc -config <cfg> <MC module>`, check the proofs with
`tlapm <Proofs module>`. `PROJECT.json` lists the runs, the source lines behind
every definition, the hazards and the theorems.

## 1. The system

| Component (source) | State | Operations | Talks to |
|---|---|---|---|
| **Replay window** `helpertools/ReplayWindow.go`, `BitOperations.go` | right edge (a wrapping counter), an array of words, "first value" flag, RW mutex | `ApplyWindowCheck`, `CheckValue`, `GetWindowDataBytes`, `JoinWindowDataBytes` | used twice per stabilizer connection: numbers that came in, and the copy of the peer's window |
| **Packet orderer** `helpertools/PacketOrdererHeap.go` | next order number, heap, "first" flag, mutex | `Push`, `PushWithMissingPacketOption`, `Dump`, `DumpAll`, `GetMissingOrderNumbers` | used twice per stabilizer connection: simple (frames 6, 7) and precise (frame 8) |
| **Connection stabilizer** `udp/UDPConnectionStabilizer.go` | per connection: counters, the two windows, the two orderers, ACK stamps, ping budget, RTT | `HandleRead`, `HandleWrite`, `resendWrite`, `handleACKSend`, `HandleConnect`, `HandleDisconnect`, `CleanupConnection(s)`, `keepAliveSender` | called by `UDPServerStable`/`UDPClientStable`; calls `readFunc` of the user, `Write` of the connection |
| **UDP client and server** `udp/UDPServer.go`, `UDPClient.go`, the `*Stable.go` pair, `UDPBridge.go` | connection map by remote address, time of last packet; the stable pair keeps a second map | read loop, `CleanupConnections` ticker, `Close`, `Write` | a datagram from an unknown address creates a connection; a clean-up runs the user's disconnect callback |
| **RTT calculator** `helpertools/RTTCalculator.go` | smoothed RTT and variation | `CalculateRTT`, `GetRTO` | feeds the retransmission timers |
| **Journaling RAM database** `database/JournalingRAMDatabase.go` | map, journal length, settings; three files: database, temporary, journal | `Set`, `Delete`, `Save`, `Load`, autosave | file system; user goroutines share it without a lock over one operation |
| **RAM database** `database/RAMDatabase.go`, formats in `DatabaseUniversal.go`, `DatabaseShared.go` | map; one file | same, without the journal | file system |
| **Tunnels** `proxy/HTTPProxy*`, `ConnectionMerger*`, `TCPProxy.go`, `ProxyShared.go` | connections by id, data held back while the far end has not answered | connect, data, disconnect frames; pending-data handshake | TCP clients/servers, WebSocket or UDP below, browser or target above |
| **TCP** `tcp/` | sockets, handlers, use counts | connect, read loop, handler switch | tunnels, WebSocket |
| **WebSocket / HTTP** `httptools/` | upgrade state, frame assembly | connect, read loop, `awaitingReady` handshake | TCP clients and servers |
| **File-system watcher, diff** `filesystem/` | watch descriptors, nested watchers; none | start, stop, event loop; diff and patch | kernel |
| **Containers, events** `helpertools/SafeMap.go`, `SafeSlice.go`, `Events.go` | map or slice behind a RW mutex | one critical section each | everything |
| **Encryption, UPnP, configuration, main** | none or pure I/O | – | – |

How a stabilizer connection runs. One goroutine reads datagrams and calls
`HandleRead` for one at a time. Retransmission timers, the delayed dump of a
frame 7, the delayed ACK, the keep-alive ticker and the clean-up ticker are
goroutines of their own, and `HandleWrite` is called by any goroutine of the
user. The windows and orderers lock themselves for one call; nothing locks two
calls together, and `readFunc` is called after the orderer's lock is released.
The datagrams travel over UDP and may be lost, repeated and reordered.

### What is hard, and what makes a component correct

- *Replay window*: numbers wrap and the right edge moves by any amount; a
  report may be older than the mirror it is joined into and shorter than the
  window. Correct: no number is let through twice, none in the window is turned
  away unseen, and no number is confirmed that did not arrive.
- *Packet orderer*: pushes, dumps of timers in any order and a final dump of
  everything. Correct: packets come out in order and at most once, and none
  stays stored without something that will take it out.
- *Ordered frames 6 and 7*: the lock of the orderer does not cover the
  hand-over. Correct: `readFunc` gets packets in order (it does not, see 5).
- *Retransmitted frames 5 and 8*: lost and late ACKs, ACKs at a limited rate,
  concurrent writers, a window without flow control. Correct: at most once, in
  order without a gap, confirmed only what arrived, and retransmission ends
  with everything ordered received (not always, see 5).
- *Connections*: a close reports the disconnect after the maps have forgotten
  the connection; a late datagram brings a connection back with counters at 0;
  the clean-up runs callbacks under a lock; keep-alive stops after its first
  tick. Correct: each connection is opened and closed once to the user, and a
  dead peer is noticed.
- *Journaling database*: crashes between any two steps, failing saves, and two
  goroutines whose map update and journal entry come in different orders.
  Correct: what a restart brings back is what the user saw, but for the
  operation under way.
- *Tunnels*: data sent before the connect answer, answers before the pending
  entry exists, disconnects while pending. Correct: the target gets the
  client's bytes once and in order, both sides forget a closed connection.

## 2. Modules

| Module | Models | Notes |
|---|---|---|
| `SerialNumbers` | truncation to a counter type, `IsSequenceNumberInFuture` | `Modulus` stands for 2^w; every comparison is modulo it |
| `ReplayWindow` | `ReplayWindow.go` as operators on a record | the word array is the set of distances from the right edge whose bit is set |
| `ReplayWindowHistory` | receiver's window, reports, the sender's mirror | carries the true, never wrapped numbers as history |
| `PacketOrderer` | `PacketOrdererHeap.go` as operators that return the orderer and what it hands out | the heap is the sequence it would pop |
| `StabilizerOrdering` | frames 6 and 7: `HandleWrite`, `HandleRead`, the dump timers, `CleanupConnection` | composes `PacketOrderer`; separate steps for "popped" and "passed to readFunc" |
| `ReliableChannel` | abstract: at most once, ordered without gap, confirmed only if arrived | |
| `ReliableLink` | frames 5, 8 and 3: `HandleWrite`, `resendWrite`, `HandleRead`, `handleACKSend`, its delayed retry, ACK headers of other frames, the network | composes `ReplayWindow` and `PacketOrderer`; implements `ReliableChannel` |
| `DurableMap` | abstract: a restart loses at most the operation under way, whole | |
| `JournalingRAMDatabase` | `Set`, `Delete`, `Save`, autosave, `Load`, crash | one step per system call; implements `DurableMap` |
| `TunnelLink` | the WebSocket of a proxy tunnel and the frames on it | an ordered, lossless pair of queues |
| `TunnelClient` | `HTTPProxyClientTCP`: both read handlers | every `Get` and `Set` that matters is a step |
| `TunnelServer` | `HTTPProxyServerTCP`: both read handlers, `Close` | using a nil connection sets `panicked` |
| `Tunnel` | both ends composed, fairness, properties | |
| `StableServer` | a stable UDP server's connections: `UDPServer`, `UDPServerStable`, the stabilizer's map, pings, clean-up, `Close`, `Stop` | a goroutine is the list of what it has to do; one access to a shared map is one step |
| `SocketLink` | one TCP connection: `ClientUniversal` at both ends, raw, framed or WebSocket | the stream is a sequence of atoms, parts of a frame, and a read takes any number |
| `DatabaseShared` | numbers, strings and collections as bytes, and back | bytes have `ByteValues` values |
| `DatabaseUniversal`, `DatabaseReader`, `ObjectFile` | schema strings; writing a value; reading it back into its own type, another type or a map of values; a program that does so | reflection types are records |
| `RAMDatabase` | `Set`, `Delete`, `Save` write by write, autosave, `Load`, crash | composes `DatabaseShared` |
| `DiffTools`, `DiffSession` | both differs and `PatchUsingChanges` as functions; a copy that follows a text by its changes | |
| `ConfigManager` | options, arguments, `LoadFrom`, `SaveAs`, `JSONCToJSON` | a file is its comment characters and its object |
| `FileSystemWatcher` | pairing of the two kernel events of a move, `moveTimer`, ignored events | |
| `SerialNumbersProofs`, `ReplayWindowProofs`, `OrderingProofs`, `ReliableLinkProofs`, `JournalingProofs`, `TunnelProofs`, `SeparateProofs`, `SocketLinkProofs` | theorems | section 6 |
| `MC*` | instances for TLC | section 4 |

How state and actions correspond to the code:

- `ReplayWindowHistory`: `window` is `incomingPacketsWindow`, `mirror` is
  `sendedPacketsACKsWindow`. `Apply` is `ApplyWindowCheck`, `Report(limit)` is
  `GetWindowDataBytes(limit, ...)`, `Join` is `JoinWindowDataBytes`. `top`,
  `mirrorTop` and `accepted` exist only in the model.
- `StabilizerOrdering`: `orderer` is `ordererSimple`, `reader` is the read
  loop (`push` before the orderer call, `hand` after it), `timers` are the
  pending `AfterFunc` calls of frame 7, `handing` are goroutines that have
  popped packets and call `readFunc`, `registered` says that `conns` has the
  connection. `exported` and `delivered` are histories.
- `ReliableLink`: sender and receiver of one direction. `packets`,
  `nextOrder`, `mirror` belong to the sender's connection, `window`,
  `orderer`, `recent` (stamps younger than `TimeBetweenACKPackets`) to the
  receiver's. `resending[n + 1]` is the try the timer goroutine of message n
  waits on. `TakeOrder`/`SendOrderResend` are the two halves of `HandleWrite`
  for frame 8, between which another goroutine may come. `ReceiveData` is
  `HandleRead` up to its last call, `RequestAck` that call, `RetryAck` the
  `AfterFunc` in it. `Piggyback` stands for every frame of the receiver that
  carries the one-word ACK header.
- `JournalingRAMDatabase`: `data` and `journalLen` are the struct's fields;
  `file`, `tmp`, `journal` the three files; `handle[c]` the journal file a
  goroutine has open, which a save may unlink under it. `Update`,
  `OpenJournal`, `AppendEntry` make up `Set` and `Delete`; `CreateTmp`,
  `WriteTmp`, `Rename`, `ResetLen`, `RemoveJournal` make up `Save`.
- `TunnelClient`: `waiting` is `pendingConnections`, `pending` is
  `pendingConnsData`, the maps keep their names. `Handle` is `handleTCPReadFunc`
  up to its first change of state, `FetchPending` and `StorePending` the `append`
  and the `Set` around it; `Confirmed` and the `Flush` actions are the branch
  for connect frames of `handleWebTransportReadFunc`. `TunnelServer`:
  `registered` and `known` are the keys of `idToClient` and the values of
  `clientToID`, `alive` is `IsAlive`; `dispatcher` is the goroutine in
  `handleWebSocketReadFunc`, `reader[id]` the one in `handleTCPReadFunc` of a
  target. `got`, `received`, `answered`, `owner` and `overlapped` are histories.
  Temporary ids and ids are random strings in the code; the model takes them
  to be distinct.
- `StableServer`: `udpConns` is `Server.conns`, `stab` the stabilizer's `conns`,
  `known` `ServerStable.conns`. `Receive` is `readFuncLocal` of `UDPServer` up
  to its first call; what that call and those after it do are tasks of the read
  loop (`Connect`, `HandleRead`, `Expire`, ...). `Close` is `ServerConn.Close`
  and `GetConn`, `FindConn`, `ForgetConn`, `CleanupConnection`, `DeleteConn`,
  `Report` what its event makes `UDPServerStable` do, one access to a map each.
  `Receive` may bring any frame at any time, `Stop` may come while the read loop
  deals with a datagram. `lock` and `waiting` are the RW mutex of `SafeMap` while
  `Range` or `RangeWithEmpty` calls back. `answered`, `robbed`, `closes` and
  `endsTold` (how often the user heard of an end by the connection's name) are
  histories; `panicked` is a nil connection that was used. `HandleConnect` sets
  two maps in one step here (section 7).
- `SocketLink`: `handlers` is `HandlerFuncs`, `current` `currentHandlers`;
  `reader` is where the goroutine of `readNextFunc` stands. `NextHandler` is one
  round of its loop, the `Read...` actions one frame in the read handler,
  `Finish` its end. `connecting` is where `Connect` of the client is: `Request`
  and `Poll` are the second half of `WebSocketClient.Connect`, `ReadAnswer` its
  first read handler; `DialFails` is both halves when nobody can be reached, as
  the second does not look at the first. `Astray` is what an end that has lost step may make of
  the bytes it is given.
- `RAMDatabase`: `ramData` is the map, `rows` are those a save under way has still to write, so that a
  crash may fall between any two writes; `SaveFails` is a save that has removed
  the old file and cannot create the new one. `ObjectFile`: `reading` is the outcome
  of the last read. `ConfigManager`: `managed` is `values`, `argv` what is left
  of `os.Args`. `FileSystemWatcher`: `moveEvent`, `movePath` and `moveOld` are
  `fileMoveEvent`, `dirMoveEvent` and the fields beside them, `queue` the events
  of inotify; `timer` is between which two lines `moveTimer` is.

## 3. Bounds and assumptions of the environment

- *Counters* have 3 bits (`Modulus = 8`), so a run of five to ten numbers
  wraps. Nothing in the code depends on the width but the comparisons modulo it.
- *Reordering below half a counter.* A truncated number identifies a packet
  only while it is less than half a counter away from what it is compared with.
  `InReach` and `JoinInReach` state that limit on the network; it is the only
  thing assumed of it. With the code's 32-bit counters the limit is 2^31
  packets of delay.
- *Windows*: two words of two bits in `replay_window` (shifts within and
  across words, reports of one and of two words); in `link` one word of two
  bits with three messages, so that the window overruns; in `link_live` one word
  that holds both messages. `link_overrun` is the way out of
  that bound: a word of one bit with two messages.
- *Ordering*: five packets from start 0 and from start 6 (the number wraps in
  the run); frame 6 over a network that also duplicates, frame 7 over one that
  loses and reorders. Both orderers refuse what they have handed out, but a
  repeated frame 7 that is still stored would be stored twice, which is kept as
  an open hazard, as is mixing both frames on one orderer.
- *Link*: three messages, two writers, two reports in flight (`link`); two
  messages, one delayed ACK (`link_live`). Numbers do not wrap there: wrapping
  is what `replay_window` is about. A full network loses a report it held.
  A datagram that arrives while the read loop is busy waits in the socket
  buffer, so a loss is never decided in the middle of a handler.
- *Time* is what the code asks of it: a timer may fire at any moment after it
  was armed, and a stamp is fresh or not. This covers every RTO.
- *Database*: two keys, two values, autosave after two entries, at most three
  entries (a failed save lets the journal grow past the threshold). A crash
  stops the process: what a `write` was given stays, whole. Failing journal
  writes (only logged by the code), torn entries, write errors in `Save` and
  two saves at once are outside the model and listed as hazards.
- *Tunnel*: two browser connections, one with a piece of data and a reply
  (`tunnel`): the least with which something can cross. One connection with two
  pieces each way (`tunnel_live`): the first piece is held back, the second may
  be appended before, during or after the flush, and the disconnect is one more
  thing to hold back. Dialling may fail, either side may close at any time. A
  WebSocket message holds one frame and the WebSocket stays up.
- *UDP server*: one address, two connections, two datagrams of any kind, three
  pings on connect against two tries: enough for a late datagram to bring a
  connection back while the old one is still being closed, and for the ping
  budget to run out. The proofs are for every number of tries, the ten that the
  code recommends included. Behaviours with the keep-alive ticker have neither
  silence nor `Stop` (`WithoutTicker`), and neither the tick nor `Stop` comes
  after the last datagram (`NotTheLast`).
- *Socket*: a small and a huge message (one whose size takes eight bytes more),
  each sent once by either end, a ping and a close frame; one reconnect. Reads
  take any part of what is there.
- *Files*: bytes with 12 values, so that sizes and counts carry into a second
  byte; two saves of a database with two keys; objects of every kind of field,
  each read into every target by a process that has or has not registered the
  custom type before, with and without repair;
  texts of up to five letters, all pairs of them; three options of different
  types and six argument lists, one path.
- *Watcher*: two files and one folder, three changes in any order.

## 4. Runs

| Run | Checks | Result |
|---|---|---|
| `replay_window` | `WindowsMatchHistory`, `AtMostOnce`, `FreshAccepted`, `AckSound` | holds, about 895,000 states |
| `ordering` | `ExportedInOrder`, `StoredIsTimed`, `NoStaleStored`, liveness `StoredIsExported` | holds, about 108,000 states |
| `ordering_drop` | `OnlyOlderDropped` | violated by the code |
| `ordering_race` | `DeliveredInOrder` | violated by the code |
| `link` | `ConfirmedArrived`, `NothingWithheld`, refinement `ImplementsChannel` | holds, about 1.28 million states |
| `link_live` | `OrderedIsReceived`, `ResendingEnds` with delayed ACKs, all in flight within one word | holds, about 45,000 states |
| `link_overrun` | `OrderedIsReceived`, two messages in a window of one | violated by the code |
| `journal_race` | `DurableWhenIdle`, two goroutines | violated by the code |
| `tunnel` | `OneTarget`, `NothingCrosses`, two connections | holds, about 1.9 million states |
| `tunnel_live` | `RepliesKept`, `IntactUnlessOverlapped`, liveness `DataArrives`, `CloseArrives` | holds, about 161,000 states |
| `separate` | 16 invariants and a refinement of eight parts, see below | holds, about 689,000 states |
| `config_reload` | `SavedFileLoads` | violated by the code |

`separate` (`MCSeparate`) puts side by side the parts that share no state with
others: the variable `subject` picks one in the initial state, and only that one
takes steps, so the state spaces add up and do not multiply. `config_reload` has
one subject. Its properties:

| Part | Property |
|---|---|
| RAM database | `LoadRestores`: what a save wrote is loaded, up to the row it was cut in |
| Journaling RAM database | `DurableWhenIdle`: while no operation is under way a crash loses nothing; refinement `ImplementsDurableMap`; one goroutine, about 129,000 of the states |
| Object files | `ObjectComesBack`: a written object is read back as it was; `FieldsSurviveAnUpgrade`: read into a later type, common fields keep their value and the others do not disturb them |
| Diff | `CopyFollows`: patching with the changes gives the new text, but for the edits a differ panics on; `NoNeedlessChange`: no more changes than a longest common subsequence needs |
| Options | `ArgumentWins`: an option set by an argument has the value behind its own name |
| Socket | `MessagesIntact`: what one end sends the other end's user gets, in order and whole; `DisconnectedOnce`: the server's user hears of an end once; `ConnectReturns`: while a WebSocket client's `Connect` waits, its request or the answer is still to be read, but for three named cases; `NothingHangs`: when nothing goes on, readers have ended with their connections and `Connect` waits in these cases only |
| UDP server | `MapsAgree`: both maps name the same connections when no goroutine is at work on one; `ClosedIsToldOrKept`: when all is done, a closed connection is gone from the stabilizer, and from the user's map if and only if the user was told by its name; `SilentIsCounted`: a connection kept without an answer has had all its pings, counted, within the budget; `NothingStuck`: no goroutine waits for a lock for ever but for the ticker's own |
| Watcher | `MovedAwayOnce`: a path moved away is reported deleted or moved exactly once |

Some of these say what must have happened by the time nothing is left to do:
`ClosedIsToldOrKept` and `SilentIsCounted` when every goroutine's list of tasks is
empty (`AllDone`), half of `MessagesIntact` when a stream is read empty,
`DisconnectedOnce` when the server has stopped reading. They are the safety half
of "eventually". `NothingStuck` and `NothingHangs` are the other half: when no
step of the code's own goroutines is enabled (`AtRest`, `SocketAtRest`), that is the
state they are in, or one of the exceptions that section 5 names. None of this
assumes fairness.

`separate` checks no type invariant: `DatabaseTypeCorrect` proves that of the
journaling database, and `ServerInv`, `SocketInv` and `WatcherInv` (section 6) have
the types of the server, the socket and the watcher as parts.

Deadlock is not checked: every one of these systems may stop, when the bounded
number of messages is sent and the network is empty, or when the process is down.

*Fairness.* `StabilizerOrdering` assumes that the read loop goes on, `readFunc`
returns and a pending timer fires (weak fairness): the Go runtime does that.
Nothing is assumed of senders, the network or the clean-up. `ReliableLink`
assumes weak fairness of goroutines inside `HandleWrite` and `HandleRead`, of
timers and of the passing of time, and strong fairness of the arrival of a
message that is sent again and again and of a report that covers it: a network
that is only lossy. It does not assume that the receiver ever sends a frame of
its own (`Piggyback` has no fairness). `Tunnel` assumes weak fairness of the
goroutines of both ends inside and between their handlers, and that a goroutine
which reads a closed connection is told so; browsers and targets owe nothing.

## 5. What the violated runs show

- `ordering_drop`: after a timer's `Dump` left a stored packet that has become
  the next one, the following push hands that one out, returns and forgets the
  packet that was pushed, although it is newer than everything handed out. The
  comment of frame 7 speaks of dropping *older* packets.
- `ordering_race`: a timer goroutine pops a packet, the read loop pushes and
  delivers a newer one, then the timer goroutine calls `readFunc`.
- `journal_race`: two goroutines that set one key may append to the journal in
  the other order, or to a journal that a concurrent save has just unlinked.
- `config_reload`: `JSONCToJSON` leaves the slash before and the slash after a
  comment in the JSON. `SaveAs` puts a comment in front, so no saved file loads.
- `link_overrun`: nothing holds a sender back. Once newer messages have moved the
  receiver's window past one of frame 8 that was lost, its retransmissions are
  rejected for ever (`ReplayWindow.go:107`), and all behind it wait in the
  orderer. The code's windows are larger, and so is what it takes to overrun them.

What the tunnel's properties leave open is as telling. They hold with these
exceptions, which TLC reaches and which the model keeps visible:

- a piece of data that `handleTCPReadFunc` stores while the answer is handled
  (`overlapped`) may be lost, sent twice or left behind for ever, as the two
  goroutines read, change and store one list (`HTTPProxyClientTCP.go:86`, `:111`);
- a browser that disconnects while its data is held back is never reported:
  an empty piece of data is sent in place of a close frame (`:85`);
- what the target says before the server has answered is dropped
  (`HTTPProxyServerTCP.go:146`), and a target that could not be reached is
  answered as connected (`:109`);
- a close between looking a connection up and using it ends the server's
  process with a nil connection (`:112`, `:118`, `:160`): that
  nothing but a close does that is proved (`NoNilBeforeClose`), and no run has it.

The properties of `link_live` and `separate` have limits of the same kind, named
in the definition or set by the instance. The failures behind them are in the
models:

- `ResendingEnds` is checked with one word. With more, the ACK stamps are written
  from one end of the array and read from the other
  (`UDPConnectionStabilizer.go:473`, `:435`), so that frames of the receiver's own
  keep fresh the stamp an older word is judged by, and its report is given up
  each time;
- `MapsAgree` leaves out a connection whose address entry was taken by the
  second `Close` of the one before it (`robbed`): `CleanupConnections` closes
  twice (`UDPServer.go:286`), by address, and a late datagram may come in between;
- `NothingStuck` leaves out the ticker: its `Range` holds the read lock while it
  writes pings, which look connections up under the same lock; with a writer
  waiting, neither goes on (`UDPConnectionStabilizer.go:673`, `SafeMap.go:158`).
  It is itself that writer when a ping too many closes a connection;
- `SilentIsCounted` does not say that a silent peer is closed: the keep-alive
  ticker returns after its first tick (`:677`). With ten tries allowed, three pings
  on connect and one of the ticker never use up the budget, and a peer that is
  gone is kept unless silence is cleaned up;
- `ClosedIsToldOrKept` leaves out what the user is told besides: a nil connection
  where another goroutine was first (`UDPServerStable.go:114`) or where the
  clean-up closes once more, and a second report by name where two goroutines
  found the connection before either forgot it. A connection the user is told
  of by nil alone stays in the user's map for ever. A datagram that meets an
  entry without its stabilizer connection ends the process (`panicked`);
- `MessagesIntact` leaves out an end that has lost step (`garbled`): the client
  took more or less than the answer to its upgrade in one `Read`, half a size
  (`WebSocketServer.go:287`), or was sent raw bytes before the peer's handlers
  were switched;
- `ConnectReturns` and `NothingHangs` leave out a dial that failed, a server that
  is gone before it answers, and a second `Connect` of one client, which has no
  handlers left (`refused`): in all three `Connect` polls for ever. A failed dial
  is ignored (`WebSocketClient.go:135`), the request is dropped on the nil
  connection, and nobody resets what the loop at `:157` waits for;
- `CopyFollows` and `NoNeedlessChange` leave out the edits that end the process.
  With `DiffInStringLCS` these are all that only delete: the matrix has no row
  and the first index of the way back is -1 (`DiffTools.go:197`). With
  `DiffInStringLCSAlt` they are those where a match was dropped (`:327`), the way
  back empties the list of its letter count (`:389`) and takes the first element
  (`:405`), as from "xyzab" to "abxyz" or from "abbc" to "bbabb";
- `LoadRestores` and `ObjectComesBack` have numbers, counts and lengths of one byte
  (`Holds`, `StoredOnly`): `ConvertDynamicUintToBytesDB` hands a size in bytes on as
  bits (`DatabaseShared.go:432`), and longer ones lose all but their first byte;
- `MovedAwayOnce` leaves out a move begun or ended while `moveTimer` is between
  its look and its reset (`raced`);
- `FieldsSurviveAnUpgrade` leaves out a `LimitedString` of size 0;
- `ArgumentWins` has options added before the file is loaded, and says nothing of
  an option that is passed over: the loop over arguments steps once too often
  after a value, or after an option without one (`ConfigManager.go:109`, `:142`,
  with `:88`).

## 6. Proofs

Proved by TLAPS for every value of the constants:

- `SerialNumbersProofs`: arithmetic of truncated numbers (`Wrap`, `Jump`): a
  jump between two numbers in reach determines their true distance.
- `ReplayWindowProofs`, for every counter width, word size, number of words,
  set of arrivals and number of reports: `TypeCorrect`, `MatchesHistory`,
  `AtMostOnceCorrect`, `FreshAcceptedCorrect`, `AckSoundCorrect`. The three
  properties are not inductive: they speak of what the window will answer, not
  of how it came about. The inductive invariant is `TypeOK /\
  WindowsMatchHistory`: the window's bits are *exactly* the accepted numbers
  under its edge, while reports and mirror are only *contained* in them (they
  are older, truncated or both). Each action moves bits by a jump, and the
  serial-number lemmas turn the jump into a true distance.
- `JournalingProofs`, for all keys, values, thresholds and journal lengths and
  one goroutine (`Clients = {c}`): `JournalInvariant`, `DatabaseTypeCorrect`,
  `DurableCorrect`, `ImplementsDurable`. "A restart brings back the map" is not
  inductive: it must hold between a crash and the end of the next save too, and
  in `Save` between rename and removal, when the journal is replayed over a map
  that already holds its entries. `JournalInv(c)` says, step by step, what disk
  and memory agree on: nothing under way, an operation in memory only, or a
  save at each of its stages. Lemma `ReplayTwice` is why replaying a journal
  over its own result changes nothing, `ReplayAppend` what one more entry does.
  The refinement follows: each step is a `Put`, a `Sync`, a `Restart` or a
  stutter of `DurableMap`. The hypothesis of one goroutine is needed:
  `journal_race` refutes the theorem without it.
- `TunnelProofs`, for every set of browser connections, number of ids and amount
  of data: `AtMostOneTarget`, `NoCrossing`, `NoNilBeforeClose`. `Inv` has seven
  parts. `AskedOnce` makes `OneTarget` inductive: a connection that the server
  was asked for has one request on the link or one id drawn, never both, and is
  `Asked` at the client (held-back data, an id, or a first list about to be
  stored), which shuts the branch of `handleTCPReadFunc` that asks. Between
  `FlushDelete` and the next read only the id keeps it shut, hence
  `FlushedIsKnown`. `Ownership` makes `NothingCrosses` inductive: frames, maps
  and what the dispatcher holds all agree with `owner`, which only grows
  (`GrownKeeps`). `Undrawn` and `Unclosed` say that what a goroutine of the
  server has found stays there as long as no target is closed. Assumed of the
  constants: a list of data is never nil, no reply or piece of data is empty
  data, and a browser sends a natural number of pieces.
  Its second half proves `RepliesInOrder`, `DataIntact` and `TunnelTypeCorrect`
  for the same constants. The first two compare the ends of a stream and are
  silent about what is under way, so neither is inductive. `Stream(q, i, k,
  first, last)` says that a link carries, behind position k, exactly the numbers
  first to last of the id i, in order; the lemmas `StreamNext`, `StreamTakes`
  and so on say what a frame put on or taken off does to it. Replies: the link
  holds those from the browser's next one to the last `Forwarded`, and behind an
  answer that the client still waits for lie all later ones (`AnsweredStream`),
  which is why handling the answer before the maps know the id loses nothing.
  Data: the pieces a browser has sent are split at some p, the first p on the
  link or delivered (`Arriving`), the rest in the handler, the held-back list or
  the flusher, in order (`HeldBack`); an overlap of the two goroutines, which
  the property excepts, is exactly what destroys `HeldBack`. Both rest on
  `HeardOf` and `ClosedFirst`: whoever has heard of an id deals with one that
  both maps of the server hold while its target is open, and entries leave the
  maps only after a close.

- `OrderingProofs`, for every counter width and any number of packets, sent from
  any number on: `HandedOutInOrder`, `NothingStale`, `StoredHasTimer`,
  `TypeCorrect`. First each call of `PacketOrderer` on its own: an orderer that
  `Expects` the true number e hands out a run that `Leads` from e to some f and
  then `Expects` f (`PopExpects`, `PushExpects`, `PushJumps`); what is on the
  heap lies less than half the counter's range after e, so that comparing
  truncated numbers sorts it rightly (`FutureIsGreater`). Then the goroutines:
  `IInv` says that the history ends where the orderer goes on (`InSequence`),
  that a packet is on its way to the orderer or on its heap but never both
  (`Fresh`), and that the timer of n leaves no n behind (`DumpPops`), without
  which a stored packet would lose its timer. Hypothesis `SeparateKinds`: one
  kind of frame per profile, and frames 7 that the network does not duplicate;
  with frames 6 and 7 mixed the orderer jumps over what it has stored.

- `ReliableLinkProofs`, for every window size, retry count, number of writers,
  reports and delayed calls: `LinkImplementsChannel` (the refinement of
  `ReliableChannel`), `ConfirmedHasArrived`, `WithholdsNothing`,
  `LinkTypeCorrect`. Hypothesis `NoWrap`: at most half the counter's range of
  messages is sent. It is needed because the model's network may deliver a
  datagram arbitrarily late: one that is a whole turn of the counter old would
  be taken for new. What window and orderer do across a wrap-around is proved
  about them alone (`ReplayWindowProofs`, `OrderingProofs`). A confirmation is
  believed from a report that may be old, truncated or merged into a mirror, so
  `ConfirmedArrived` is not inductive. `IInv` has the window exact (`Exact`),
  reports and mirror containing only what was let through (`Truthful`), order
  numbers taken once (`Sender`), each message let through either given to
  `readFunc` or held by the orderer (`Accounted`), and what was given a run
  without gaps up to where the orderer goes on (`Given`). `StepRefines` then maps
  each step to a `Send`, a `Deliver`, a `Confirm` or a stutter. `IndexInWindow`
  shows that the index into `lastACKTimestampsUnixNano` never leaves the array,
  by the recursive equation of the bitwise and that the index is taken with.

- `SeparateProofs`, for every set of addresses and of paths and any number of
  connections, datagrams and changes: `MapsAgreeWhenNothingPends` and
  `ClosesAreTold` and `SilentConnectionsEnd` of `StableServer`, `MovedPathsReported`
  of `FileSystemWatcher`. `MapsAgree` excepts connections that a goroutine is at work
  on, so it depends on what all lists of tasks hold and in which order.
  `ServerInv` says that of each list (`InOrder`): a connection that is still found
  by its address is taken out of the stabilizer's map only by a list in which its
  `Close` comes later, and "connect" only ever heads the list of the read loop.
  `NewIsUnknown`: until the read loop has connected a new connection, no other
  goroutine has a task about it, so none can remove it too early.
  `FoundIsStable` and `StableIsFound` are the two halves of the agreement.
  `StepKeeps` does all steps that put tasks in place of one (`StepOf`) at once,
  `RearrangedKeeps` those that only add tasks or do unimportant ones.
  `ClosesAreTold`: `known` and `endsTold` are changed by different steps, and of any
  goroutine. `TellInv` says that of each list: where a known connection is about
  to be reported it is forgotten first, and reported later on the same list
  (`InTurn`); what is known no more was told of, or a report is pending.
  `SilentConnectionsEnd` (of `SilentIsCounted`, for every `Tries`): for a
  connection that has not answered and that the stabilizer still has, either a
  task is pending that connects or removes it, or the pings that were counted
  and those still to be sent are three (`PingsLeft`). With fewer than three tries
  no such connection is left, with ten it stays.
  `MovedAwayOnce` counts reports only at rest; `Accounted` counts at all times:
  every departure was reported, lies in the queue, or is the one that waits for
  its new name and that the timer has not told of (`Waits`).

- `SocketLinkProofs`, for every set of messages, small or huge, however the
  stream is cut into reads: `SocketInvariant`, `MessagesAreIntact`,
  `DisconnectionsTold`, `ConnectsReturn`. The properties are silent about what
  lies on the stream and about which handler reads it, so none is inductive.
  `SocketInv` has the types, what the server's user was told of (`Informed`),
  what each user was given (`GivenInOrder`) and the phase of the connection: `Tcp`
  for a plain link; for a WebSocket `Unanswered` until the server reads the
  request, `Refused` where it never will, then `Answered`, with the client still
  waiting (`Awaited`) or having read the answer (`Seen`). Each phase fixes the
  handlers of both ends and what is on the streams. A raw stream is the messages
  that come next (`RawFlow`). A framed one (`FrameFlow`) is whole frames, however
  many atoms they have (`InFrames`), whose payloads are the messages after the n
  that were given (`Carries`), and none is missing while the socket they were
  written to is open. The lemmas `FramesJoin`, `FramesRest` and those behind them
  say what a frame put on, read, or skipped (ping, close) does to that. Two
  things are special to the upgrade: behind the answer frames may lie that the
  server's user sent at once (`AnswerFlow`), and what the client's user writes
  before the client's handlers are switched reaches the server raw
  (`OutOfStep`), from which the server recovers no frame; `MessagesIntact`
  excepts that as `garbled`. A dial that fails leads to `Refused` from any phase
  without readers (`DialFailsNext`).

Only model-checked:

- liveness, as TLAPS has no reasoning about fairness here (`StoredIsExported`,
  `OrderedIsReceived`, `ResendingEnds`, `DataArrives`, `CloseArrives`), and
  `NothingStuck` and `NothingHangs`, which use `ENABLED`;
- what is computed by recursion over data, on which the installed provers cannot
  do induction: the database formats (`LoadRestores`, `ObjectComesBack`,
  `FieldsSurviveAnUpgrade`), the differ (`NoNeedlessChange`, `CopyFollows`) and
  the loop over arguments (`ArgumentWins`).

## 7. What is not modelled, and the plan

Next, in this order:

1. `Tunnel`: the loss of the WebSocket (both ends close their connections),
   `Stop`, and messages with several frames; the variants over UDP
   (`HTTPProxyClientUDP`, `TCPConnectionMerger*`, `TCPProxy*`), whose link may
   lose and reorder frames.
2. `StableServer`: the client side (`UDPClient`, `UDPClientStable`), the UDP
   bridge, timers of frames 7 and 8 that outlive their connection, and
   `readFunc`s that write from within a clean-up.
3. Extensions: frames 6 and 7 mixed, two saves at once, `WordIndex` with three
   or more words, watchers of subdirectories and `StopWatching`'s wait.

Parts of modelled components that are left out:

- `HandleConnect` enters a connection in the stabilizer's map and the handler of
  `UDPServerStable` then in the user's; `Connect` does both at once. Left out is
  thus a close that falls between the two, of which the user is told with nil
  before being given the connection: it takes a ping budget that the first ping
  on connect, or it and the ticker's, use up.
- `PatchUsingChanges` removes letters within the slice it is given
  (`RandomTools.go:51`), so the caller's old text is spoilt; the texts of
  `DiffSession` are values.
- `TCPServer.Start` uses the connection of a failed accept, which is nil
  (`TCPServer.go:153`): accepting never fails in `SocketLink`.
- `WebSocketInstanceServer` looks an instance up after it has checked it, and a
  disconnect may delete it in between; `HTTPServer`, `HTTPClient` and the
  directory listing answer one request at a time.
- `SafeSlice` takes its first or last element under the read lock
  (`SafeSlice.go:26`); nothing that is modelled uses it.
- A target that could not be reached is answered as connected in the tunnel
  (`HTTPProxyServerTCP.go:109`): modelled by `Dial`, but the code promises
  nothing there to check.

Left out for good: encryption (calls into Go's packages), console, UPnP and the
main program (I/O without protocol state), RTT averages (floating point; the
timers of the models may fire at any time, whatever the RTO), the Windows
watcher, the code in `old-code/` and `*.deprecated`, which is not built.
