---- MODULE StabilizerOrdering ----
(***************************************************************************)
(* Ordered delivery without retransmission in the UDP connection           *)
(* stabilizer: frames of type 6 (instant) and 7 (timeout) from one sender  *)
(* to one receiver, which pass through the receiver's ordererSimple.       *)
(*                                                                         *)
(* Three kinds of goroutine use that orderer: the read loop (HandleRead,   *)
(* one datagram at a time), one timer goroutine per frame 7 (AfterFunc     *)
(* with Dump), and whoever closes the connection (CleanupConnection).      *)
(* The orderer's mutex makes each call atomic, but readFunc is called      *)
(* after it is released, so every hand-over to readFunc is its own step.   *)
(*                                                                         *)
(* A packet is its true order number n; on the wire it carries Wrap(n).    *)
(***************************************************************************)
EXTENDS PacketOrderer, SequencesExt

CONSTANTS Instant, Timeout,   \* the two frame types
          Profiles,           \* what the sender uses and the network may do (see Init)
          MaxSent             \* how many packets are sent from there on

ASSUME ProfilesAssumption ==
    Profiles \subseteq [kinds : SUBSET {Instant, Timeout}, duplicates : BOOLEAN, start : Nat]
ASSUME MaxSentAssumption == MaxSent \in Nat

VARIABLES profile,     \* the kinds of frames sent, whether datagrams are duplicated, and
                       \* how many packets had been delivered in order at the start
          sent,        \* packets sent so far (sendPacketOrderNumberSimple, not wrapped)
          network,     \* datagrams in flight: [n, kind]
          registered,  \* the receiver's stabilizer has the connection in `conns`
          orderer,     \* ordererSimple of the receiver
          reader,      \* the read loop: idle, about to push, or handing packets over
          timers,      \* frames 7 whose OrderDelay is running
          handing,     \* sequences other goroutines popped and still hand over
          exported,    \* history: the packets the orderer handed out, in that order
          delivered    \* history: the packets readFunc got, in that order

vars == <<profile, sent, network, registered, orderer, reader, timers, handing, exported, delivered>>

Idle          == [phase |-> "idle"]
Pushing(p)    == [phase |-> "push", packet |-> p]
Handing(p, s) == [phase |-> "hand", packet |-> p, out |-> s]

Payloads(out) == [i \in DOMAIN out |-> out[i].data]

(* The true number of the packet the orderer expects next. *)
Expected == IF exported = <<>> THEN profile.start ELSE Last(exported) + 1

(* n is close enough to that for its truncated number to be compared rightly. *)
InReach(n) == n - Expected \in -HalfRange .. HalfRange - 1

(* The orderer after `start` packets were pushed in order. *)
OrdererAfter(start) == [NewPacketOrderer EXCEPT !.first = (start = 0), !.next = Wrap(start)]

Numbered == profile.start .. profile.start + MaxSent - 1

Init == /\ profile \in Profiles
        /\ sent = profile.start
        /\ network = {}
        /\ registered = TRUE
        /\ orderer = OrdererAfter(profile.start)
        /\ reader = Idle
        /\ timers = {}
        /\ handing = {}
        /\ exported = <<>>
        /\ delivered = <<>>

(* HandleWrite with frame type 6 or 7: the next order number, under the mutex. *)
Send(kind) ==
    /\ sent \in Numbered
    /\ sent' = sent + 1
    /\ network' = network \cup {[n |-> sent, kind |-> kind]}
    /\ UNCHANGED <<profile, registered, orderer, reader, timers, handing, exported, delivered>>

(* A datagram is lost. *)
Lose(p) ==
    /\ network' = network \ {p}
    /\ UNCHANGED <<profile, sent, registered, orderer, reader, timers, handing, exported, delivered>>

(* HandleRead takes a datagram and looks its connection up. *)
Receive(p) ==
    /\ reader = Idle
    /\ InReach(p.n)
    /\ \/ network' = network \ {p}
       \/ profile.duplicates /\ UNCHANGED network
    /\ reader' = IF registered THEN Pushing(p) ELSE Idle
    /\ UNCHANGED <<profile, sent, registered, orderer, timers, handing, exported, delivered>>

(* The orderer is left as `result` says, and what it handed out is recorded. *)
Export(result) ==
    /\ orderer' = result.orderer
    /\ exported' = exported \o Payloads(result.out)

(* The read loop pushes its packet: in instant order with gaps allowed, in *)
(* timeout order without.                                                  *)
PushPacket ==
    /\ reader.phase = "push"
    /\ InReach(reader.packet.n)
    /\ LET p      == reader.packet
           allow  == IF p.kind = Instant THEN AllowInDumpAndPush ELSE AllowNone
           result == Push(orderer, [key |-> Wrap(p.n), data |-> p.n], allow)
       IN  Export(result) /\ reader' = Handing(p, Payloads(result.out))
    /\ UNCHANGED <<profile, sent, network, registered, timers, handing, delivered>>

(* The read loop passes the next packet to readFunc. *)
ReaderHands ==
    /\ reader.phase = "hand" /\ reader.out # <<>>
    /\ delivered' = Append(delivered, Head(reader.out))
    /\ reader' = Handing(reader.packet, Tail(reader.out))
    /\ UNCHANGED <<profile, sent, network, registered, orderer, timers, handing, exported>>

(* All handed over: a frame 7 starts its timer, and the read loop goes on. *)
ReaderDone ==
    /\ reader.phase = "hand" /\ reader.out = <<>>
    /\ timers' = IF reader.packet.kind = Timeout THEN timers \cup {reader.packet.n} ELSE timers
    /\ reader' = Idle
    /\ UNCHANGED <<profile, sent, network, registered, orderer, handing, exported, delivered>>

(* What a goroutine other than the read loop popped waits to be handed over. *)
HandLater(out) == handing' = handing \cup ({Payloads(out)} \ {<<>>})

(* OrderDelay of frame n is over: the timer goroutine dumps up to its number. *)
Fire(n) ==
    /\ InReach(n)
    /\ timers' = timers \ {n}
    /\ LET result == Dump(orderer, Wrap(n), AllowInDumpAndPush)
       IN  Export(result) /\ HandLater(result.out)
    /\ UNCHANGED <<profile, sent, network, registered, reader, delivered>>

(* Such a goroutine passes its next packet to readFunc. *)
TimerHands(out) ==
    /\ delivered' = Append(delivered, Head(out))
    /\ handing' = (handing \ {out}) \cup ({Tail(out)} \ {<<>>})
    /\ UNCHANGED <<profile, sent, network, registered, orderer, reader, timers, exported>>

(* CleanupConnection on another goroutine: dump everything, forget the connection. *)
Cleanup ==
    /\ registered
    /\ registered' = FALSE
    /\ LET result == DumpAll(orderer, AllowInDumpAndPush)
       IN  Export(result) /\ HandLater(result.out)
    /\ UNCHANGED <<profile, sent, network, reader, timers, delivered>>

Next == \/ \E kind \in profile.kinds : Send(kind)
        \/ \E p \in network : Receive(p) \/ Lose(p)
        \/ PushPacket
        \/ ReaderHands
        \/ ReaderDone
        \/ \E n \in timers : Fire(n)
        \/ \E out \in handing : TimerHands(out)
        \/ Cleanup

Spec == Init /\ [][Next]_vars

(* The packets any profile sends. *)
Everything == UNION {p.start .. p.start + MaxSent - 1 : p \in Profiles}

(* readFunc returns, the read loop goes on, and the runtime fires due timers. *)
FairSpec ==
    /\ Spec
    /\ WF_vars(PushPacket) /\ WF_vars(ReaderHands) /\ WF_vars(ReaderDone)
    /\ \A n \in Everything : WF_vars(n \in timers /\ Fire(n))

-----------------------------------------------------------------------------
Increasing(s) == \A i, j \in DOMAIN s : i < j => s[i] < s[j]

Stored == {orderer.heap[i].data : i \in DOMAIN orderer.heap}

Packets == [n : Numbered, kind : profile.kinds]

(* Types of the sender, the network, the goroutines and the orderer. *)
TypeOK == /\ profile \in Profiles
          /\ sent \in Numbered \cup {profile.start + MaxSent}
          /\ network \subseteq Packets
          /\ registered \in BOOLEAN
          /\ orderer.first \in BOOLEAN /\ orderer.next \in Numbers
          /\ \A i \in DOMAIN orderer.heap :
                orderer.heap[i].key = Wrap(orderer.heap[i].data)
          /\ reader.phase \in {"idle", "push", "hand"}
          /\ timers \subseteq Numbered
          /\ \A out \in handing : out # <<>>

(* The orderer never hands a packet out behind a newer one, nor twice: across   *)
(* wrap-around, with packets lost and overtaken, timers firing in any order and *)
(* the connection cleaned up at any moment.                                     *)
ExportedInOrder == Increasing(exported)

(* Every packet waiting on the heap has a goroutine that will dump it: its own  *)
(* timer, or the read loop that has not started it yet.  Otherwise the packet   *)
(* would wait for traffic that may never come.                                  *)
StoredIsTimed ==
    \A n \in Stored : n \in timers \/ (reader.phase = "hand" /\ reader.packet.n = n)

(* No stored packet is behind one already handed out: such a stale top would    *)
(* block everything behind it, and be handed out of order by the next dump.     *)
NoStaleStored == \A n \in Stored : n >= Expected

(* A packet that was stored is handed out, even if nothing else ever arrives. *)
StoredIsExported == \A n \in Everything : n \in Stored ~> n \in ToSet(exported)

(* "it waits timeout [...] before processing the packet 2 and dropping all     *)
(* older packets": only packets behind one already handed out are dropped.  A  *)
(* pushed packet is in the orderer, was handed out, or is behind one that was. *)
OnlyOlderDropped ==
    reader.phase = "hand" =>
        \/ reader.packet.n \in Stored \cup ToSet(exported)
        \/ \E n \in ToSet(exported) : n > reader.packet.n

(* "checking for order of packets": readFunc gets the packets in order. *)
DeliveredInOrder == Increasing(delivered)
====
