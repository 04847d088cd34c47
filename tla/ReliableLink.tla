---- MODULE ReliableLink ----
(***************************************************************************)
(* Frames with retransmission in the UDP connection stabilizer: type 5     *)
(* (resend) and type 8 (resend and strict order), one sender and one       *)
(* receiver over a network that loses, repeats and reorders datagrams.     *)
(*                                                                         *)
(* Sender: HandleWrite takes the numbers, resendWrite sends and arms a     *)
(* timer, the timer asks CheckValue on `mirror` and sends again or stops.  *)
(* Receiver: HandleRead applies `window`, hands data on (type 8 through    *)
(* ordererPrecise), and handleACKSend reports the window at a limited      *)
(* rate.  Every other frame of the receiver that carries the ACK header    *)
(* (ping, pong, data of its own) reports the newest word: Piggyback.       *)
(*                                                                         *)
(* A message is its sequence number n, not wrapped; message n is           *)
(* packets[n + 1].  Time is abstracted to what the code asks of it:        *)
(* whether a stamp is older than TimeBetweenACKPackets.                    *)
(***************************************************************************)
EXTENDS ReplayWindow, PacketOrderer, SequencesExt

CONSTANTS Resend, OrderResend,   \* the two frame types
          ResendRetries,         \* settings.ResendRetries, not 0
          MaxSent,               \* how many messages are sent
          MaxWriters,            \* goroutines inside HandleWrite at once
          MaxAcks,               \* reports in flight at once
          MaxRetries             \* delayed handleACKSend calls at once

ASSUME LinkAssumption == /\ Resend # OrderResend
                         /\ {ResendRetries, MaxSent, MaxWriters, MaxAcks, MaxRetries} \subseteq Nat
                         /\ ResendRetries > 0 /\ MaxAcks > 0

VARIABLES packets,     \* messages with a sequence number: [kind, order]
          nextOrder,   \* sendPacketOrderNumberPrecise, not wrapped
          writers,     \* order numbers taken by goroutines that have no sequence number yet
          resending,   \* per message: the try its timer waits on, Confirmed or GivenUp
          mirror,      \* sendedPacketsACKsWindow of the sender
          data,        \* messages in flight
          acks,        \* reports of the receiver in flight
          window,      \* incomingPacketsWindow of the receiver
          orderer,     \* ordererPrecise of the receiver
          ackDue,      \* the message HandleRead is about to acknowledge, as a set
          recent,      \* indices of lastACKTimestampsUnixNano stamped not long ago
          retries,     \* delayed handleACKSend calls: [n, fresh: indices stamped meanwhile]
          accepted,    \* history: messages ApplyWindowCheck let through
          received     \* history: what readFunc got, in that order

senderVars   == <<packets, nextOrder, writers, resending, mirror>>
receiverVars == <<window, orderer, ackDue, recent, retries, accepted, received>>
vars         == <<senderVars, receiverVars, data, acks>>

Confirmed == -1
GivenUp   == -2

Messages == 0 .. Len(packets) - 1
Packet(n) == packets[n + 1]
Words     == 0 .. WordCount - 1

Init == /\ packets = <<>>
        /\ nextOrder = 0
        /\ writers = {}
        /\ resending = <<>>
        /\ mirror = MakeReplayWindow
        /\ data = {}
        /\ acks = {}
        /\ window = MakeReplayWindow
        /\ orderer = NewPacketOrderer
        /\ ackDue = {}
        /\ recent = {}
        /\ retries = {}
        /\ accepted = {}
        /\ received = <<>>

-----------------------------------------------------------------------------
(* The sender *)

(* Another message may be sent within the bound. *)
Room == Len(packets) + Cardinality(writers) < MaxSent

(* The message gets the next sequence number, is sent, and its timer is armed *)
(* (try 0).                                                                   *)
Number(packet) ==
    /\ packets' = Append(packets, packet)
    /\ resending' = Append(resending, 0)
    /\ data' = data \cup {Len(packets)}

(* HandleWrite, type 5. *)
SendResend ==
    /\ Room
    /\ Number([kind |-> Resend, order |-> 0])
    /\ UNCHANGED <<nextOrder, writers, mirror, acks, receiverVars>>

(* HandleWrite, type 8: the order number is taken under its mutex ... *)
TakeOrder ==
    /\ Cardinality(writers) < MaxWriters
    /\ Room
    /\ writers' = writers \cup {nextOrder}
    /\ nextOrder' = nextOrder + 1
    /\ UNCHANGED <<packets, resending, mirror, data, acks, receiverVars>>

(* ... and the sequence number after it is released: another goroutine may *)
(* come in between.                                                        *)
SendOrderResend(order) ==
    /\ Number([kind |-> OrderResend, order |-> order])
    /\ writers' = writers \ {order}
    /\ UNCHANGED <<nextOrder, mirror, acks, receiverVars>>

(* Type 8 is sent without end, type 5 up to ResendRetries times more. *)
MayResend(n, try) == Packet(n).kind = OrderResend \/ try <= ResendRetries

(* The retransmission timer of n: stop, send again, or give up.  Only a try *)
(* of type 5 is counted: nothing depends on the count for type 8.           *)
ResendTimer(n) ==
    /\ resending[n + 1] >= 0
    /\ LET try   == resending[n + 1] + 1
           found == CheckValue(mirror, Wrap(n))
           again == ~found /\ MayResend(n, try)
       IN  /\ resending' = [resending EXCEPT ![n + 1] =
                               IF found THEN Confirmed
                               ELSE IF ~again THEN GivenUp
                               ELSE IF Packet(n).kind = Resend THEN try ELSE 0]
           /\ data' = IF again THEN data \cup {n} ELSE data
    /\ UNCHANGED <<packets, nextOrder, writers, mirror, acks, receiverVars>>

(* A report arrives: frame 3, or the ACK header of another frame.  It stays in *)
(* flight, to arrive again, until the network loses it.                        *)
ReceiveAck(ack) ==
    /\ mirror' = JoinWindowData(mirror, ack)
    /\ UNCHANGED <<packets, nextOrder, writers, resending, data, acks, receiverVars>>

-----------------------------------------------------------------------------
(* The receiver *)

(* A report leaves; a full network loses one of the reports it held. *)
Transmit(ack) ==
    \/ Cardinality(acks \cup {ack}) <= MaxAcks /\ acks' = acks \cup {ack}
    \/ /\ Cardinality(acks \cup {ack}) > MaxAcks
       /\ \E lost \in acks : acks' = (acks \ {lost}) \cup {ack}

(* The stamps of `indices` are renewed; a delayed call will find them fresh. *)
Stamp(indices, pending) ==
    /\ recent' = recent \cup indices
    /\ retries' = {[call EXCEPT !.fresh = @ \cup indices] : call \in pending}

(* HandleRead, types 5 and 8, up to the call of handleACKSend.  Only the read *)
(* loop touches ordererPrecise, so the hand-over is one step.  The datagram   *)
(* may arrive again.                                                          *)
ReceiveData(n) ==
    /\ ackDue = {}
    /\ LET ok     == Accepts(window, Wrap(n))
           p      == Packet(n)
           pushed == Push(orderer, [key |-> Wrap(p.order), data |-> n], AllowInDump)
       IN  /\ window' = AfterCheck(window, Wrap(n))
           /\ accepted' = IF ok THEN accepted \cup {n} ELSE accepted
           /\ IF ok /\ p.kind = OrderResend
              THEN /\ orderer' = pushed.orderer
                   /\ received' = received \o [i \in DOMAIN pushed.out |-> pushed.out[i].data]
              ELSE /\ UNCHANGED orderer
                   /\ received' = IF ok THEN Append(received, n) ELSE received
    /\ ackDue' = {n}
    /\ UNCHANGED <<senderVars, data, acks, recent, retries>>

(* a & b of two unsigned numbers. *)
BitAnd[a \in Numbers] ==
    [b \in Numbers |-> IF a = 0 \/ b = 0 THEN 0
                       ELSE 2 * BitAnd[a \div 2][b \div 2] + (a % 2) * (b % 2)]

(* The word of the window message n is in, counted from the right edge. *)
WordIndex(n) == BitAnd[Jump(Wrap(n), window.right)][Size - 1] \div WordBits

(* HandleWrite, type 3: report the words up to `word`, stamping each.  Word i *)
(* is stamped at WordCount - 1 - i.                                           *)
SendAck(word, pending) ==
    /\ Transmit(GetWindowData(window, word + 1))
    /\ Stamp({WordCount - 1 - i : i \in 0 .. word}, pending)

(* handleACKSend at the end of HandleRead: report now, or ask once more after *)
(* TimeBetweenACKPackets.  The stamp looked at is the one at index `word`.    *)
RequestAck(n) ==
    /\ ackDue' = {}
    /\ \/ WordIndex(n) \notin recent /\ SendAck(WordIndex(n), retries)
       \/ /\ WordIndex(n) \in recent
          /\ Cardinality(retries) < MaxRetries
          /\ retries' = retries \cup {[n |-> n, fresh |-> {}]}
          /\ UNCHANGED <<acks, recent>>
    /\ UNCHANGED <<senderVars, data, window, orderer, accepted, received>>

(* The delayed handleACKSend: report unless the stamp was renewed meanwhile. *)
RetryAck(call) ==
    /\ \/ WordIndex(call.n) \notin call.fresh /\ SendAck(WordIndex(call.n), retries \ {call})
       \/ /\ WordIndex(call.n) \in call.fresh
          /\ retries' = retries \ {call}
          /\ UNCHANGED <<acks, recent>>
    /\ UNCHANGED <<senderVars, data, window, orderer, ackDue, accepted, received>>

(* TimeBetweenACKPackets has passed since the stamp at this index. *)
Age(index) ==
    /\ recent' = recent \ {index}
    /\ UNCHANGED <<senderVars, data, acks, window, orderer, ackDue, retries, accepted, received>>

(* The receiver sends a ping, a pong or data of its own with an ACK header. *)
Piggyback ==
    /\ Transmit(GetWindowData(window, 1))
    /\ Stamp({WordCount - 1}, retries)
    /\ UNCHANGED <<senderVars, data, window, orderer, ackDue, accepted, received>>

-----------------------------------------------------------------------------
(* The network loses a datagram: one that comes while the read loop is busy *)
(* waits in the socket, and is lost, if at all, after that.                 *)
LoseData(n)  == ackDue = {} /\ data' = data \ {n} /\ UNCHANGED <<senderVars, acks, receiverVars>>
LoseAck(ack) == acks' = acks \ {ack} /\ UNCHANGED <<senderVars, data, receiverVars>>

Next == \/ SendResend
        \/ TakeOrder
        \/ \E order \in writers : SendOrderResend(order)
        \/ \E n \in Messages : ResendTimer(n)
        \/ \E ack \in acks : ReceiveAck(ack) \/ LoseAck(ack)
        \/ \E n \in data : ReceiveData(n) \/ LoseData(n)
        \/ \E n \in ackDue : RequestAck(n)
        \/ \E call \in retries : RetryAck(call)
        \/ \E index \in recent : Age(index)
        \/ Piggyback

Spec == Init /\ [][Next]_vars

(* Timers fire, goroutines run on, stamps age, and a datagram sent again and *)
(* again gets through: a message, and a report that covers it.               *)
FairSpec ==
    /\ Spec
    /\ WF_vars(\E order \in writers : SendOrderResend(order))
    /\ WF_vars(\E n \in ackDue : RequestAck(n))
    /\ \A index \in Words : WF_vars(index \in recent /\ Age(index))
    /\ \A n \in 0 .. MaxSent - 1 :
          /\ WF_vars(n \in Messages /\ ResendTimer(n))
          /\ SF_vars(n \in data /\ ReceiveData(n))
          /\ WF_vars(\E call \in retries : call.n = n /\ RetryAck(call))
          /\ SF_vars(\E ack \in acks : CheckValue(ack, Wrap(n)) /\ ReceiveAck(ack))

-----------------------------------------------------------------------------
IsOrderResend(n) == Packet(n).kind = OrderResend

Reports == [right : Numbers, words : 1 .. WordCount, bits : SUBSET Distances]

(* Types of the two sides and the network. *)
TypeOK == /\ packets \in Seq([kind : {Resend, OrderResend}, order : 0 .. MaxSent])
          /\ nextOrder \in 0 .. MaxSent /\ writers \subseteq 0 .. MaxSent - 1
          /\ Len(resending) = Len(packets)
          /\ \A n \in Messages : resending[n + 1] \in GivenUp .. ResendRetries
          /\ {mirror, window} \subseteq Windows
          /\ data \subseteq Messages /\ ackDue \subseteq Messages /\ accepted \subseteq Messages
          /\ acks \subseteq Reports /\ Cardinality(acks) <= MaxAcks
          /\ recent \subseteq Words
          /\ retries \subseteq [n : Messages, fresh : SUBSET Words]
          /\ received \in Seq(Messages)

(* The sender stops resending a message as confirmed only if the receiver let it *)
(* through: no loss, repetition or reordering of reports, and no report of a     *)
(* part of the window, makes it believe in a delivery that never happened.       *)
ConfirmedArrived == \A n \in Messages : resending[n + 1] = Confirmed => n \in accepted

(* Strict order withholds nothing it need not: a message the window let through  *)
(* has been given to readFunc as soon as all lower order numbers were let        *)
(* through, whatever the order they came in.                                     *)
NothingWithheld ==
    \A n \in accepted :
        (IsOrderResend(n) => \A k \in 0 .. Packet(n).order - 1 :
              \E m \in accepted : IsOrderResend(m) /\ Packet(m).order = k)
        => n \in ToSet(received)

(* The link implements the channel: at most once, in order without a gap, and  *)
(* confirmed only when arrived.                                                *)
Channel == INSTANCE ReliableChannel
              WITH sent <- packets, arrived <- accepted, received <- received,
                   confirmed <- {n \in Messages : resending[n + 1] = Confirmed}

ImplementsChannel == Channel!ChannelSpec

(* "It works like TCP": every order number taken is eventually given to        *)
(* readFunc, though messages and reports are lost and two writers compete.  So  *)
(* it is where the window holds all that is in flight; nothing holds a sender   *)
(* back, and in a smaller window a message that is overtaken by a window's      *)
(* length is rejected for ever.                                                 *)
OrderedIsReceived ==
    \A k \in 0 .. MaxSent - 1 :
        nextOrder > k ~> \E n \in ToSet(received) : IsOrderResend(n) /\ Packet(n).order = k

(* Retransmission comes to an end: every message is confirmed or given up.  A   *)
(* message of type 8 cannot be given up, so a receiver that has it must get a   *)
(* report through that covers it, though the stamp of another frame puts that   *)
(* off and may cancel it.  So it is with one word that holds all that is in     *)
(* flight: every report has that word.  With a second one the stamps are        *)
(* written at one end and read at the other, and a receiver that writes itself  *)
(* never reports the older word.                                                *)
ResendingEnds ==
    \A n \in 0 .. MaxSent - 1 :
        n \in Messages ~> (n \in Messages /\ resending[n + 1] < 0)
====
