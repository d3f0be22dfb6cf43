------------------------------ MODULE RingUnit ------------------------------
(* The two kinds of rings of the core and the state file that carries them:   *)
(* an edge queue of ir.c, which has a head and a count, and the sample ring   *)
(* of dac.c, which has both positions and a count.  A state holds each ring   *)
(* at its full size, from the oldest entry on, with zeros after the last one. *)
EXTENDS Integers

CONSTANTS
    Item,          \* edges or samples
    Zero,          \* the entry of an empty slot in a file
    Old,           \* what a slot holds before its first use
    EdgeSlots,     \* IR_EDGE_QUEUE_CAPACITY
    SampleSlots    \* DAC_SAMPLE_BUFFER_SIZE

ASSUME RingAssumption ==
    /\ Zero \in Item /\ Old \in Item
    /\ EdgeSlots \in Nat \ {0} /\ SampleSlots \in Nat \ {0}

VARIABLES
    edges,       \* ir_edge_queue_t: slots, head, count
    samples,     \* the ring of dac_t: slots, read, write, count
    edgeFile,    \* the two rings in the state file: entries, count
    sampleFile

ringVars == <<edges, samples, edgeFile, sampleFile>>

NewEdges   == [slots |-> [i \in 0..EdgeSlots - 1 |-> Old], head |-> 0, count |-> 0]
NewSamples == [slots |-> [i \in 0..SampleSlots - 1 |-> Old], read |-> 0, write |-> 0, count |-> 0]

NoEntries(size) == [entries |-> [i \in 0..size - 1 |-> Zero], count |-> 0]

\* psemu_create, and the state of such a machine.
RingInit ==
    /\ edges = NewEdges /\ samples = NewSamples
    /\ edgeFile = NoEntries(EdgeSlots) /\ sampleFile = NoEntries(SampleSlots)

-----------------------------------------------------------------------------
(* The ends of the rings                                                      *)

\* queue_push
PushEdge(x) ==
    /\ edges.count < EdgeSlots
    /\ edges' = [edges EXCEPT !.slots[(edges.head + edges.count) % EdgeSlots] = x,
                              !.count = @ + 1]
    /\ UNCHANGED <<samples, edgeFile, sampleFile>>

\* queue_pop
PopEdge ==
    /\ edges.count > 0
    /\ edges' = [edges EXCEPT !.head = (@ + 1) % EdgeSlots, !.count = @ - 1]
    /\ UNCHANGED <<samples, edgeFile, sampleFile>>

\* dac_tick, for one sample.
PutSample(x) ==
    /\ samples.count < SampleSlots
    /\ samples' = [samples EXCEPT !.slots[samples.write] = x,
                                  !.write = (@ + 1) % SampleSlots, !.count = @ + 1]
    /\ UNCHANGED <<edges, edgeFile, sampleFile>>

\* dac_read_samples
ReadSamples(n) ==
    /\ n <= samples.count
    /\ samples' = [samples EXCEPT !.read = (@ + n) % SampleSlots, !.count = @ - n]
    /\ UNCHANGED <<edges, edgeFile, sampleFile>>

\* ir_init and dac_init: the slots keep what they hold.
ResetRings ==
    /\ edges' = [edges EXCEPT !.head = 0, !.count = 0]
    /\ samples' = [samples EXCEPT !.read = 0, !.write = 0, !.count = 0]
    /\ UNCHANGED <<edgeFile, sampleFile>>

-----------------------------------------------------------------------------
(* The state file                                                             *)

\* The entries that a write visits, and zeros after them.
Entries(slots, first, count, size) ==
    [i \in 0..size - 1 |-> IF i < count THEN slots[(first + i) % size] ELSE Zero]

\* Mutant: the write goes through the slots from the first one.
SaveRingsFromSlotZero ==
    /\ edgeFile' = [entries |-> Entries(edges.slots, 0, edges.count, EdgeSlots),
                    count |-> edges.count]
    /\ sampleFile' = [entries |-> Entries(samples.slots, 0, samples.count, SampleSlots),
                      count |-> samples.count]
    /\ UNCHANGED <<edges, samples>>

\* st_ir_queue and the sample ring of state_visit, in a write.
SaveRings ==
    /\ edgeFile' = [entries |-> Entries(edges.slots, edges.head, edges.count, EdgeSlots),
                    count |-> edges.count]
    /\ sampleFile' = [entries |-> Entries(samples.slots, samples.read, samples.count, SampleSlots),
                      count |-> samples.count]
    /\ UNCHANGED <<edges, samples>>

\* The same in a read of a whole file.
LoadRings ==
    /\ edges' = [slots |-> edgeFile.entries, head |-> 0, count |-> edgeFile.count]
    /\ samples' = [slots |-> sampleFile.entries, read |-> 0,
                   write |-> sampleFile.count % SampleSlots, count |-> sampleFile.count]
    /\ UNCHANGED <<edgeFile, sampleFile>>

\* The slots after a read that ended with an error before entry n.
Overwritten(slots, entries, n) ==
    [i \in DOMAIN slots |-> IF i < n THEN entries[i] ELSE slots[i]]

\* A read that ends before entry n of the edges, because the file is short or its
\* count is not one of this format (n is 0 then).  Head and count stay.
LoadFailsInEdges(n) ==
    /\ edges' = [edges EXCEPT !.slots = Overwritten(@, edgeFile.entries, n)]
    /\ UNCHANGED <<samples, edgeFile, sampleFile>>

\* The same in the samples, which come after the edges.
LoadFailsInSamples(n) ==
    /\ edges' = [slots |-> edgeFile.entries, head |-> 0, count |-> edgeFile.count]
    /\ samples' = [samples EXCEPT !.slots = Overwritten(@, sampleFile.entries, n)]
    /\ UNCHANGED <<edgeFile, sampleFile>>

RingNext ==
    \/ \E x \in Item : PushEdge(x) \/ PutSample(x)
    \/ PopEdge
    \/ \E n \in 1..SampleSlots : ReadSamples(n)
    \/ ResetRings \/ SaveRings \/ LoadRings
    \/ \E n \in 0..EdgeSlots - 1 : LoadFailsInEdges(n)
    \/ \E n \in 0..SampleSlots - 1 : LoadFailsInSamples(n)

RingSpec == RingInit /\ [][RingNext]_ringVars

-----------------------------------------------------------------------------
\* What a ring holds, the oldest entry first, and what a file holds.
Contents(slots, first, count, size) == [i \in 1..count |-> slots[(first + i - 1) % size]]
FileContents(f) == [i \in 1..f.count |-> f.entries[i - 1]]

Edges == INSTANCE Fifo WITH
    Capacity <- EdgeSlots,
    queue <- Contents(edges.slots, edges.head, edges.count, EdgeSlots),
    saved <- FileContents(edgeFile)

Samples == INSTANCE Fifo WITH
    Capacity <- SampleSlots,
    queue <- Contents(samples.slots, samples.read, samples.count, SampleSlots),
    saved <- FileContents(sampleFile)

\* Each ring is a bounded queue that a state carries: at any position of the ring
\* a save and a load, also on another machine, give the same entries in the same
\* order, and a load that fails keeps the ring well formed (state.c:168).
RingsAreQueues == Edges!Spec /\ Samples!Spec
=============================================================================
