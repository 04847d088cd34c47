---- MODULE ReliableChannel ----
(***************************************************************************)
(* What the stabilizer promises for frames with retransmission, seen from  *)
(* the two applications: a message is received at most once, the ordered   *)
(* ones in the order of their numbers without a gap, and the sender counts *)
(* a message as confirmed only once the receiver has it.                   *)
(***************************************************************************)
EXTENDS Naturals, Sequences, SequencesExt

CONSTANTS Resend, OrderResend   \* the two frame types

VARIABLES sent,       \* the messages sent: [kind, order]; message n is sent[n + 1]
          arrived,    \* the messages that reached the receiving side
          received,   \* the messages given to the application, in that order
          confirmed   \* the messages the sender need not send again

channelVars == <<sent, arrived, received, confirmed>>

IsOrdered(messages, n) == messages[n + 1].kind = OrderResend

(* The order numbers of the ordered messages given before the i-th. *)
OrdersBefore(messages, s, i) ==
    {messages[s[j] + 1].order : j \in {k \in 1 .. i - 1 : IsOrdered(messages, s[k])}}

(* s is something an application may have been given: before an ordered message, *)
(* the ones with a lower number, all of them and no other ordered one.           *)
Legal(messages, present, s) ==
    /\ IsInjective(s)
    /\ ToSet(s) \subseteq present
    /\ \A i \in DOMAIN s :
          IsOrdered(messages, s[i]) =>
              OrdersBefore(messages, s, i) = 0 .. messages[s[i] + 1].order - 1

ChannelInit == /\ sent = <<>>
               /\ arrived = {}
               /\ received = <<>>
               /\ confirmed = {}

(* A message is sent; no two ordered ones have the same number. *)
ChannelSend ==
    /\ Len(sent') = Len(sent) + 1 /\ IsPrefix(sent, sent')
    /\ LET m == Last(sent')
       IN  /\ m \in [kind : {Resend, OrderResend}, order : Nat]
           /\ m.kind = OrderResend =>
                 \A i \in DOMAIN sent : sent[i].kind = OrderResend => sent[i].order # m.order
    /\ UNCHANGED <<arrived, received, confirmed>>

(* One message arrives, and what it completes is given to the application. *)
ChannelArrive ==
    /\ \E n \in 0 .. Len(sent) - 1 : n \notin arrived /\ arrived' = arrived \cup {n}
    /\ IsPrefix(received, received')
    /\ Legal(sent, arrived', received')
    /\ UNCHANGED <<sent, confirmed>>

(* The sender learns that a message has arrived. *)
ChannelConfirm ==
    /\ \E n \in arrived : confirmed' = confirmed \cup {n}
    /\ UNCHANGED <<sent, arrived, received>>

ChannelNext == ChannelSend \/ ChannelArrive \/ ChannelConfirm

ChannelSpec == ChannelInit /\ [][ChannelNext]_channelVars
====
