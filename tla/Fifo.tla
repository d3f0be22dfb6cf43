-------------------------------- MODULE Fifo --------------------------------
(* What a ring of the core promises to its two ends and to a saved state: a   *)
(* bounded queue, whose contents a state carries.  RingUnit implements it.    *)
EXTENDS Naturals, Sequences

CONSTANTS Item, Capacity

VARIABLES
    queue,  \* what the ring holds, the oldest first
    saved   \* what the state file holds

Init == queue = <<>> /\ saved = <<>>

\* A full queue drops what comes.
Put == /\ Len(queue) < Capacity
       /\ \E x \in Item : queue' = Append(queue, x)
       /\ UNCHANGED saved

Take == /\ \E n \in 1..Len(queue) : queue' = SubSeq(queue, n + 1, Len(queue))
        /\ UNCHANGED saved

Clear == queue' = <<>> /\ UNCHANGED saved

Save == saved' = queue /\ UNCHANGED queue

Load == queue' = saved /\ UNCHANGED saved

\* A load that fails half way can leave other items, and not another number of them.
Spoil == queue' \in [1..Len(queue) -> Item] /\ UNCHANGED saved

Next == Put \/ Take \/ Clear \/ Save \/ Load \/ Spoil

Spec == Init /\ [][Next]_<<queue, saved>>
=============================================================================
