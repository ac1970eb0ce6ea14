------------------------------ MODULE Delivery ------------------------------
(***************************************************************************)
(* What the message-passing simulation promises as a whole: a stream of    *)
(* packets per consumer, delivered in order and exactly once, and closed   *)
(* by the producer; a consumer stops only at the end of its stream.        *)
(***************************************************************************)
EXTENDS Naturals, Sequences

CONSTANTS Consumers, Packets

VARIABLES sent,      \* [Consumers -> Seq(Packets)], packets addressed to each
          received,  \* [Consumers -> Seq(Packets)], packets each has consumed
          closed,    \* the producer will send no more
          stopped    \* the consumers that have finished

vars == <<sent, received, closed, stopped>>

Init == /\ sent = [c \in Consumers |-> << >>]
        /\ received = [c \in Consumers |-> << >>]
        /\ closed = FALSE
        /\ stopped = {}

Send(c, m) == /\ ~closed
              /\ sent' = [sent EXCEPT ![c] = Append(@, m)]
              /\ UNCHANGED <<received, closed, stopped>>

Close == /\ ~closed
         /\ closed' = TRUE
         /\ UNCHANGED <<sent, received, stopped>>

Deliver(c) == /\ Len(received[c]) < Len(sent[c])
              /\ received' = [received EXCEPT
                                ![c] = Append(@, sent[c][Len(@) + 1])]
              /\ UNCHANGED <<sent, closed, stopped>>

Stop(c) == /\ closed
           /\ received[c] = sent[c]
           /\ stopped' = stopped \cup {c}
           /\ UNCHANGED <<sent, received, closed>>

Next == \/ \E c \in Consumers : \/ \E m \in Packets : Send(c, m)
                                \/ Deliver(c)
                                \/ Stop(c)
        \/ Close

Spec == Init /\ [][Next]_vars
=============================================================================
