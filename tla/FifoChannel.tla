---------------------------- MODULE FifoChannel ----------------------------
(***************************************************************************)
(* What a producer/consumer queue promises to its users: every value is    *)
(* delivered at most once, in the order in which the pushes took effect,   *)
(* and nothing that was not pushed is ever delivered.  After Close the     *)
(* consumer may still deliver what it finds, until it Finishes; as long as *)
(* the channel is open everything that was sent gets delivered.            *)
(***************************************************************************)
EXTENDS Naturals, Sequences

CONSTANT Value              \* what is sent

VARIABLES sent,             \* the values sent, in the order of the sends
          delivered,        \* the values the consumer got, in its order
          phase             \* "open", "closing" or "closed"

vars == <<sent, delivered, phase>>

Init == /\ sent = << >>
        /\ delivered = << >>
        /\ phase = "open"

Send(v) == /\ sent' = Append(sent, v)
           /\ UNCHANGED <<delivered, phase>>

Deliver == /\ phase # "closed"
           /\ Len(delivered) < Len(sent)
           /\ delivered' = Append(delivered, sent[Len(delivered) + 1])
           /\ UNCHANGED <<sent, phase>>

Close == /\ phase = "open"
         /\ phase' = "closing"
         /\ UNCHANGED <<sent, delivered>>

Finish == /\ phase = "closing"
          /\ phase' = "closed"
          /\ UNCHANGED <<sent, delivered>>

Next == \/ \E v \in Value : Send(v)
        \/ Deliver
        \/ Close
        \/ Finish

SafeSpec == Init /\ [][Next]_vars

Spec == SafeSpec /\ WF_vars(Deliver \/ Finish)
=============================================================================
