---- MODULE PacketOrderer ----
(***************************************************************************)
(* The packet orderer of helpertools: it hands packets out in the order of *)
(* their order numbers and keeps the ones that came too early on a heap.   *)
(* An orderer is a record                                                  *)
(*   first  nothing has been pushed yet (isFirst)                          *)
(*   next   nextOrderNumberToBeExported                                    *)
(*   heap   the stored packets in pop order.  The binary heap is kept by   *)
(*          serial-number comparison; equal keys pop in either order.      *)
(* A packet is a record [key: order number, data: payload].  The callers   *)
(* never set allowOlderPackets, so packets behind `next` are dropped.      *)
(* Push, Dump and DumpAll return the orderer they leave and the packets    *)
(* they hand out.                                                          *)
(***************************************************************************)
EXTENDS SerialNumbers, Sequences, FiniteSets

CONSTANTS AllowNone, AllowInDump, AllowInDumpAndPush

ASSUME OptionsAssumption ==
    AllowNone # AllowInDump /\ AllowNone # AllowInDumpAndPush /\ AllowInDump # AllowInDumpAndPush

NewPacketOrderer == [first |-> TRUE, next |-> 0, heap |-> <<>>]

(* The longest prefix of a heap all of whose positions satisfy P. *)
PrefixLength(heap, P(_)) ==
    CHOOSE k \in 0 .. Len(heap) :
        /\ \A i \in 1 .. k : P(i)
        /\ k < Len(heap) => ~P(k + 1)

(* heap.Push: a packet takes its place behind the ones it is not before. *)
Store(o, packet) ==
    LET ahead == {i \in DOMAIN o.heap : ~IsSequenceNumberInFuture(packet.key, o.heap[i].key)}
        at    == Cardinality(ahead)
    IN  [o EXCEPT !.heap = SubSeq(@, 1, at) \o <<packet>> \o SubSeq(@, at + 1, Len(@))]

(* Pop the first k packets; the number after the last of them is expected next. *)
Pop(o, k) ==
    [orderer |-> IF k = 0 THEN o
                 ELSE [o EXCEPT !.heap = SubSeq(@, k + 1, Len(@)), !.next = Succ(o.heap[k].key)],
     out     |-> SubSeq(o.heap, 1, k)]

(* Pop as long as the top of the heap is the packet expected next. *)
Drain(o) ==
    Pop(o, PrefixLength(o.heap, LAMBDA i : o.heap[i].key = (o.next + i - 1) % Modulus))

(* Mutant of IsTooOld: the check on packets behind `next` is missing. *)
IsNeverTooOld(o, packet) == FALSE

(* A packet behind the last one handed out. *)
IsTooOld(o, packet) == ~o.first /\ ~IsSequenceNumberInFuture(Pred(o.next), packet.key)

(* Mutant of PushInOrder: the heap is not looked at again after the packet. *)
PushWithoutDrain(o, packet) ==
    LET before == Drain(o)
    IN  IF before.orderer.next = packet.key
        THEN [orderer |-> [before.orderer EXCEPT !.next = Succ(packet.key)],
              out     |-> before.out \o <<packet>>]
        ELSE IF before.out = <<>>
             THEN [orderer |-> Store(o, packet), out |-> <<>>]
             ELSE before

(* The export loop of a push: the heap, the packet itself once it is its turn, *)
(* and the heap again.  If nothing came out the packet is stored; if something *)
(* did and the packet was not part of it, the packet is dropped.               *)
PushInOrder(o, packet) ==
    LET before == Drain(o)
        after  == Drain([before.orderer EXCEPT !.next = Succ(packet.key)])
    IN  IF before.orderer.next = packet.key
        THEN [orderer |-> after.orderer, out |-> before.out \o <<packet>> \o after.out]
        ELSE IF before.out = <<>>
             THEN [orderer |-> Store(o, packet), out |-> <<>>]
             ELSE before

(* The very first packet: number 0 is handed out, any other one waits. *)
PushFirst(o, packet) ==
    IF packet.key = 0
    THEN [orderer |-> [o EXCEPT !.first = FALSE, !.next = Succ(packet.key)], out |-> <<packet>>]
    ELSE [orderer |-> Store([o EXCEPT !.first = FALSE], packet), out |-> <<>>]

(* PushWithMissingPacketOption *)
Push(o, packet, allow) ==
    IF IsTooOld(o, packet)
    THEN [orderer |-> o, out |-> <<>>]
    ELSE IF allow = AllowInDumpAndPush
         THEN [orderer |-> [o EXCEPT !.first = FALSE, !.next = Succ(packet.key)],
               out |-> <<packet>>]
         ELSE IF o.first THEN PushFirst(o, packet) ELSE PushInOrder(o, packet)

(* How many packets a dump may pop: all of them with gaps allowed, else the ones *)
(* in sequence, and then one that is alone on the heap whatever the limit.       *)
DumpLength(o, allow, Within(_)) ==
    PrefixLength(o.heap, LAMBDA i :
        /\ Within(o.heap[i].key) \/ (allow = AllowNone /\ Len(o.heap) = 1)
        /\ allow = AllowNone => o.heap[i].key = (o.next + i - 1) % Modulus)

(* Mutant of Dump: the limit itself is left on the heap. *)
DumpExclusive(o, orderNumber, allow) ==
    IF IsSequenceNumberInFuture(Pred(o.next), orderNumber)
    THEN Pop(o, DumpLength(o, allow, LAMBDA key : IsSequenceNumberInFuture(key, orderNumber)))
    ELSE [orderer |-> o, out |-> <<>>]

(* Dump: everything up to orderNumber, unless that was handed out already. *)
Dump(o, orderNumber, allow) ==
    IF IsSequenceNumberInFuture(Pred(o.next), orderNumber)
    THEN Pop(o, DumpLength(o, allow, LAMBDA key : ~IsSequenceNumberInFuture(orderNumber, key)))
    ELSE [orderer |-> o, out |-> <<>>]

(* DumpAll: Dump without the limit. *)
DumpAll(o, allow) == Pop(o, DumpLength(o, allow, LAMBDA key : TRUE))
====
