---------------------------- MODULE CableChannel ----------------------------
(***************************************************************************)
(* What the framing of src/common/cable.c promises: cables arrive whole,   *)
(* once, and in the order in which they were sent.                         *)
(***************************************************************************)
EXTENDS Naturals, Sequences

CONSTANT Total  \* the possible lengths of a cable

VARIABLES
    sent,    \* lengths of the cables sent so far, in order
    relayed  \* numbers of the cables handed on, in order

Init == sent = << >> /\ relayed = << >>

Send(n) == sent' = Append(sent, n) /\ UNCHANGED relayed

Relay ==
    /\ Len(relayed) < Len(sent)
    /\ relayed' = Append(relayed, Len(relayed) + 1)
    /\ UNCHANGED sent

Next == Relay \/ \E n \in Total : Send(n)

Spec == Init /\ [][Next]_<<sent, relayed>>

=============================================================================
