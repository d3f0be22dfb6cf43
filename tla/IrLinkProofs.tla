---------------------------- MODULE IrLinkProofs ----------------------------
(* Proofs about IrLink.  What one instance still has for the other on a       *)
(* connection, on the wire and in its write queue, is one stream.  The        *)
(* invariants say what is in a stream: the edges that are not delivered yet,  *)
(* in order (InOrder), and what is left of a PING and its answer (OneInFlight *)
(* and SyncRuns).                                                             *)
EXTENDS IrLink, SequenceTheorems, FiniteSetTheorems, TLAPS

\* There are two instances, and each is the peer of the other.
LEMMA Peers ==
  ASSUME NEW n \in Node
  PROVE  /\ Peer(n) \in Node /\ Peer(n) # n /\ Peer(Peer(n)) = n
         /\ \A m \in Node : m = n \/ m = Peer(n)
<1>1. \E m \in Node : m # n
  BY ConstantsAssumption
<1>2. Peer(n) \in Node /\ Peer(n) # n
  BY <1>1 DEF Peer
<1>3. \A m \in Node : m = n \/ m = Peer(n)
  BY <1>2, ConstantsAssumption
<1>4. \E m \in Node : m # Peer(n)
  BY <1>2
<1>5. Peer(Peer(n)) \in Node /\ Peer(Peer(n)) # Peer(n)
  BY <1>4 DEF Peer
<1>6. QED
  BY <1>2, <1>3, <1>5

LEMMA Constants ==
  /\ Capacity \in Nat /\ Capacity >= 2
  /\ CoreCapacity \in Nat /\ MaxSessions \in Nat
  BY ConstantsAssumption

-----------------------------------------------------------------------------
(* Streams                                                                    *)

\* What n still has for its peer on connection s.
Stream(s, n) == wire[s][Peer(n)] \o (IF session[n] = s THEN queue[n] ELSE <<>>)

\* The peer takes messages of s from the wire, now or after its connection is
\* complete.
Hears(n, s) == Attached(n, s) /\ link[n] # "error"

\* A message m brings a receiver of the edges in a log from `before` to `after`
\* of them.
Passes(before, after, m, log) ==
    IF m.kind = "edge" THEN after = before + 1 /\ log[after] = m.id ELSE after = before

Counts(position, q, log) ==
    \A i \in 1..Len(q) : Passes(position[i], position[i + 1], q[i], log)

\* The messages q bring a receiver from the first `from` edges of a log to its
\* first `to` edges.
Delivers(q, from, to, log) ==
    \E position \in [1..Len(q) + 1 -> 0..Len(log)] :
        position[1] = from /\ position[Len(q) + 1] = to /\ Counts(position, q, log)

\* The same messages, but for the timestamps.
Alike(q, r) ==
    /\ Len(q) = Len(r)
    /\ \A i \in 1..Len(q) : q[i].kind = r[i].kind /\ q[i].id = r[i].id

LEMMA DeliversNothing ==
  ASSUME NEW log \in Seq(Nat), NEW from \in 0..Len(log)
  PROVE  Delivers(<<>>, from, from, log)
<1> DEFINE f == [i \in 1..1 |-> from]
<1>1. f \in [1..Len(<<>>) + 1 -> 0..Len(log)] /\ f[1] = from /\ f[Len(<<>>) + 1] = from
  OBVIOUS
<1>2. Counts(f, <<>>, log)
  BY DEF Counts, Passes
<1> HIDE DEF f
<1>3. QED
  BY <1>1, <1>2 DEF Delivers

LEMMA DeliversOther ==
  ASSUME NEW log \in Seq(Nat), NEW from \in 0..Len(log), NEW m \in Message,
         m.kind # "edge"
  PROVE  Delivers(<<m>>, from, from, log)
<1> DEFINE f == [i \in 1..2 |-> from]
<1>1. f \in [1..Len(<<m>>) + 1 -> 0..Len(log)] /\ f[1] = from /\ f[Len(<<m>>) + 1] = from
  OBVIOUS
<1>2. Counts(f, <<m>>, log)
  BY DEF Counts, Passes
<1> HIDE DEF f
<1>3. QED
  BY <1>1, <1>2 DEF Delivers

LEMMA DeliversHead ==
  ASSUME NEW log \in Seq(Nat), NEW from \in Nat, NEW to \in Nat,
         NEW q \in Seq(Message), q # <<>>, Delivers(q, from, to, log)
  PROVE  IF Head(q).kind = "edge"
         THEN /\ from < Len(log) /\ log[from + 1] = Head(q).id
              /\ Delivers(Tail(q), from + 1, to, log)
         ELSE Delivers(Tail(q), from, to, log)
<1>1. PICK f \in [1..Len(q) + 1 -> 0..Len(log)] :
          f[1] = from /\ f[Len(q) + 1] = to /\ Counts(f, q, log)
  BY DEF Delivers
<1>2. Len(Tail(q)) = Len(q) - 1 /\ \A i \in 1..Len(Tail(q)) : Tail(q)[i] = q[i + 1]
  BY HeadTailProperties
<1>3. 1 \in 1..Len(q) /\ Head(q) = q[1] /\ Len(q) \in Nat
  BY HeadTailProperties
<1> DEFINE g == [i \in 1..Len(Tail(q)) + 1 |-> f[i + 1]]
<1>4. g \in [1..Len(Tail(q)) + 1 -> 0..Len(log)]
  BY <1>2, <1>3
<1>5. g[Len(Tail(q)) + 1] = to
  BY <1>1, <1>2, <1>3
<1>6. Counts(g, Tail(q), log)
  <2> SUFFICES ASSUME NEW i \in 1..Len(Tail(q))
               PROVE  Passes(g[i], g[i + 1], Tail(q)[i], log)
    BY DEF Counts
  <2>1. i + 1 \in 1..Len(q) /\ g[i] = f[i + 1] /\ g[i + 1] = f[(i + 1) + 1]
    BY <1>2, <1>3
  <2> HIDE DEF g
  <2>2. QED
    BY <1>1, <1>2, <2>1 DEF Counts
<1>7. Delivers(Tail(q), g[1], to, log)
  <2> HIDE DEF g
  <2> QED
    BY <1>4, <1>5, <1>6 DEF Delivers
<1>8. g[1] = f[1 + 1] /\ f[1 + 1] \in 0..Len(log)
  BY <1>2, <1>3
<1>9. Passes(f[1], f[1 + 1], q[1], log)
  BY <1>1, <1>3 DEF Counts
<1> HIDE DEF g
<1>10. QED
  BY <1>1, <1>3, <1>7, <1>8, <1>9 DEF Passes

LEMMA DeliversConcat ==
  ASSUME NEW log \in Seq(Nat), NEW from \in Nat, NEW mid \in Nat, NEW to \in Nat,
         NEW q \in Seq(Message), NEW r \in Seq(Message),
         Delivers(q, from, mid, log), Delivers(r, mid, to, log)
  PROVE  Delivers(q \o r, from, to, log)
<1>1. PICK f \in [1..Len(q) + 1 -> 0..Len(log)] :
          f[1] = from /\ f[Len(q) + 1] = mid /\ Counts(f, q, log)
  BY DEF Delivers
<1>2. PICK g \in [1..Len(r) + 1 -> 0..Len(log)] :
          g[1] = mid /\ g[Len(r) + 1] = to /\ Counts(g, r, log)
  BY DEF Delivers
<1>3. /\ Len(q \o r) = Len(q) + Len(r) /\ Len(q) \in Nat /\ Len(r) \in Nat
      /\ \A i \in 1..Len(q) + Len(r) :
            (q \o r)[i] = IF i <= Len(q) THEN q[i] ELSE r[i - Len(q)]
  BY ConcatProperties
<1> DEFINE h == [i \in 1..Len(q \o r) + 1 |-> IF i <= Len(q) THEN f[i] ELSE g[i - Len(q)]]
<1>4. h \in [1..Len(q \o r) + 1 -> 0..Len(log)]
  BY <1>3
<1>5. h[1] = from /\ h[Len(q \o r) + 1] = to
  BY <1>1, <1>2, <1>3
<1>6. Counts(h, q \o r, log)
  <2> SUFFICES ASSUME NEW i \in 1..Len(q \o r)
               PROVE  Passes(h[i], h[i + 1], (q \o r)[i], log)
    BY DEF Counts
  <2>1. CASE i \in 1..Len(q)
    <3>1. h[i] = f[i] /\ h[i + 1] = f[i + 1] /\ (q \o r)[i] = q[i]
      BY <1>1, <1>2, <1>3, <2>1
    <3> HIDE DEF h
    <3>2. QED
      BY <1>1, <2>1, <3>1 DEF Counts
  <2>2. CASE i > Len(q)
    <3>1. i - Len(q) \in 1..Len(r) /\ (i + 1) - Len(q) = (i - Len(q)) + 1
      BY <1>3, <2>2
    <3>2. /\ h[i] = g[i - Len(q)] /\ h[i + 1] = g[(i - Len(q)) + 1]
          /\ (q \o r)[i] = r[i - Len(q)]
      BY <1>3, <2>2, <3>1
    <3> HIDE DEF h
    <3>3. QED
      BY <1>2, <3>1, <3>2 DEF Counts
  <2>3. QED
    BY <1>3, <2>1, <2>2
<1>7. QED
  <2> HIDE DEF h
  <2> QED
    BY <1>4, <1>5, <1>6 DEF Delivers

LEMMA DeliversPrefix ==
  ASSUME NEW log \in Seq(Nat), NEW from \in Nat, NEW to \in Nat,
         NEW q \in Seq(Message), NEW r \in Seq(Message),
         Delivers(q \o r, from, to, log)
  PROVE  \E mid \in 0..Len(log) : Delivers(q, from, mid, log)
<1>1. PICK f \in [1..Len(q \o r) + 1 -> 0..Len(log)] :
          f[1] = from /\ f[Len(q \o r) + 1] = to /\ Counts(f, q \o r, log)
  BY DEF Delivers
<1>2. /\ Len(q \o r) = Len(q) + Len(r) /\ Len(q) \in Nat /\ Len(r) \in Nat
      /\ \A i \in 1..Len(q) : (q \o r)[i] = q[i]
  BY ConcatProperties
<1> DEFINE g == [i \in 1..Len(q) + 1 |-> f[i]]
<1>3. g \in [1..Len(q) + 1 -> 0..Len(log)]
  BY <1>2
<1>4. Counts(g, q, log) /\ g[1] = from
  <2>1. \A i \in 1..Len(q) : g[i] = f[i] /\ g[i + 1] = f[i + 1] /\ i \in 1..Len(q \o r)
    BY <1>2
  <2>2. g[1] = f[1]
    BY <1>2
  <2> HIDE DEF g
  <2>3. QED
    BY <1>1, <1>2, <2>1, <2>2 DEF Counts
<1>5. g[Len(q) + 1] \in 0..Len(log)
  <2>1. Len(q) + 1 \in 1..Len(q) + 1
    BY <1>2
  <2> HIDE DEF g
  <2>2. QED
    BY <1>3, <2>1
<1> HIDE DEF g
<1>6. QED
  BY <1>3, <1>4, <1>5 DEF Delivers

LEMMA DeliversLonger ==
  ASSUME NEW log \in Seq(Nat), NEW t \in Seq(Nat), NEW from \in Nat, NEW to \in Nat,
         NEW q \in Seq(Message), Delivers(q, from, to, log)
  PROVE  Delivers(q, from, to, log \o t)
<1>1. PICK f \in [1..Len(q) + 1 -> 0..Len(log)] :
          f[1] = from /\ f[Len(q) + 1] = to /\ Counts(f, q, log)
  BY DEF Delivers
<1>2. /\ Len(log \o t) = Len(log) + Len(t) /\ Len(log) \in Nat /\ Len(t) \in Nat
      /\ \A i \in 1..Len(log) : (log \o t)[i] = log[i]
  BY ConcatProperties
<1>3. f \in [1..Len(q) + 1 -> 0..Len(log \o t)]
  BY <1>2
<1>4. Counts(f, q, log \o t)
  <2> SUFFICES ASSUME NEW i \in 1..Len(q)
               PROVE  Passes(f[i], f[i + 1], q[i], log \o t)
    BY DEF Counts
  <2>1. f[i] \in 0..Len(log) /\ f[i + 1] \in 0..Len(log)
    <3>1. Len(q) \in Nat /\ i \in 1..Len(q) + 1 /\ i + 1 \in 1..Len(q) + 1
      OBVIOUS
    <3>2. QED
      BY <3>1
  <2>2. Passes(f[i], f[i + 1], q[i], log)
    BY <1>1 DEF Counts
  <2>3. QED
    BY <1>2, <2>1, <2>2 DEF Passes
<1>5. QED
  BY <1>1, <1>3, <1>4 DEF Delivers

LEMMA DeliversAlike ==
  ASSUME NEW log, NEW from, NEW to, NEW q, NEW r, Alike(q, r), Delivers(q, from, to, log)
  PROVE  Delivers(r, from, to, log)
  BY DEF Alike, Delivers, Counts, Passes

\* A block of edges that a link takes from its core.
Edges(t) == [i \in DOMAIN t |-> Msg("edge", t[i])]

LEMMA EdgesType ==
  ASSUME NEW t \in Seq(Nat)
  PROVE  Edges(t) \in Seq(Message) /\ Len(Edges(t)) = Len(t)
<1>1. DOMAIN t = 1..Len(t) /\ Len(t) \in Nat /\ \A i \in 1..Len(t) : t[i] \in Nat
  OBVIOUS
<1>2. \A i \in 1..Len(t) : Msg("edge", t[i]) \in Message
  BY <1>1 DEF Msg, Message
<1>3. Edges(t) \in [1..Len(t) -> Message]
  BY <1>1, <1>2 DEF Edges
<1>4. QED
  BY <1>1, <1>3

LEMMA DeliversEdges ==
  ASSUME NEW log \in Seq(Nat), NEW t \in Seq(Nat)
  PROVE  Delivers(Edges(t), Len(log), Len(log \o t), log \o t)
<1>1. /\ Len(log \o t) = Len(log) + Len(t) /\ Len(log) \in Nat /\ Len(t) \in Nat
      /\ \A i \in 1..Len(t) : (log \o t)[Len(log) + i] = t[i]
  BY ConcatProperties
<1>2. /\ Len(Edges(t)) = Len(t)
      /\ \A i \in 1..Len(t) : Edges(t)[i].kind = "edge" /\ Edges(t)[i].id = t[i]
  BY EdgesType DEF Edges, Msg
<1> DEFINE f == [i \in 1..Len(t) + 1 |-> Len(log) + i - 1]
<1>3. f \in [1..Len(Edges(t)) + 1 -> 0..Len(log \o t)]
  BY <1>1, <1>2
<1>4. \A i \in 1..Len(t) : f[i + 1] = f[i] + 1 /\ f[i + 1] = Len(log) + i
  BY <1>1
<1>5. f[1] = Len(log) /\ f[Len(Edges(t)) + 1] = Len(log \o t)
  BY <1>1, <1>2
<1> HIDE DEF f
<1>6. Counts(f, Edges(t), log \o t)
  BY <1>1, <1>2, <1>4 DEF Counts, Passes
<1>7. QED
  BY <1>3, <1>5, <1>6 DEF Delivers

-----------------------------------------------------------------------------
(* Types                                                                      *)

\* What the states of the loop, the link and the transport of n say together.
StateOfLink(n) ==
    /\ pc[n] # "frame" => Carries(n)
    /\ Carries(n) => tp[n] = "connected"
    /\ tp[n] = "connected" => session[n] # NoSession
    /\ tp[n] \in {"listening", "connecting"} => link[n] # "error"
    /\ tp[n] \in {"idle", "listening", "connecting"} => queue[n] = <<>>
    /\ backlog[n] # NoSession => session[n] = NoSession /\ tp[n] \in {"listening", "error"}
    /\ tp[n] = "listening" => session[n] = NoSession
    /\ session[n] <= opened /\ backlog[n] <= opened

TypeInv == TypeOK /\ \A n \in Node : StateOfLink(n)

LEMMA Reading ==
  ASSUME TypeInv, NEW n \in Node, pc[n] # "frame"
  PROVE  Carries(n) /\ tp[n] = "connected" /\ session[n] \in Session /\ backlog[n] = NoSession
  BY DEF TypeInv, TypeOK, StateOfLink, Session, NoSession

LEMMA MsgType ==
  ASSUME NEW kind \in {"edge", "hello", "ping", "pong"}, NEW id \in Nat
  PROVE  /\ Msg(kind, id) \in Message
         /\ Msg(kind, id).kind = kind /\ Msg(kind, id).id = id
  BY DEF Msg, Message

LEMMA EnqueueType ==
  ASSUME NEW q \in Seq(Message), NEW m \in Message, Len(q) <= Capacity
  PROVE  Enqueue(q, m) \in Seq(Message) /\ Len(Enqueue(q, m)) <= Capacity
<1>1. Len(q) \in Nat /\ Capacity \in Nat
  BY Constants
<1>2. Append(q, m) \in Seq(Message) /\ Len(Append(q, m)) = Len(q) + 1
  BY AppendProperties
<1>3. QED
  BY <1>1, <1>2 DEF Enqueue

LEMMA RunBound ==
  ASSUME NEW q \in Seq(Message)
  PROVE  Run(q) \in Nat /\ Run(q) <= Len(q)
<1>1. Len(q) \in Nat /\ DOMAIN q = 1..Len(q)
  OBVIOUS
<1>2. IsFiniteSet(DOMAIN q) /\ Cardinality(DOMAIN q) = Len(q)
  BY <1>1, FS_Interval
<1> DEFINE S == {i \in DOMAIN q : \A j \in 1..i : q[j].kind \notin Timed}
<1>3. IsFiniteSet(S) /\ Cardinality(S) <= Len(q) /\ Cardinality(S) \in Nat
  <2>1. S \in SUBSET DOMAIN q
    OBVIOUS
  <2> HIDE DEF S
  <2>2. QED
    BY <1>2, <2>1, FS_Subset, FS_CardinalityType
<1>4. q # <<>> => Len(q) >= 1
  BY <1>1
<1>5. Run(q) = IF q # <<>> /\ Head(q).kind \in Timed THEN 1 ELSE Cardinality(S)
  BY DEF Run
<1> HIDE DEF S
<1>6. QED
  BY <1>1, <1>3, <1>4, <1>5

\* EndRead moves a block t of edges from the core to the write queue.
LEMMA EndReadTakes ==
  ASSUME TypeInv, NEW n \in Node, EndRead(n)
  PROVE  \E t \in Seq(Nat) :
            /\ link[n] # "connected" => t = <<>>
            /\ Len(queue[n]) + Len(t) <= Capacity
            /\ core' = [core EXCEPT ![n] = IF link[n] = "connected" THEN <<>> ELSE @]
            /\ sent' = [sent EXCEPT ![session[n]][n] = @ \o t]
            /\ PingNow(n, queue[n] \o Edges(t)) \/ NoPingNow(n, queue[n] \o Edges(t))
<1> DEFINE drained == IF link[n] = "connected" THEN core[n] ELSE <<>>
           room    == Capacity - Len(queue[n])
           t       == SubSeq(drained, 1, IF Len(drained) < room THEN Len(drained) ELSE room)
<1>1. /\ queue[n] \in Seq(Message) /\ core[n] \in Seq(Nat)
      /\ Len(queue[n]) \in Nat /\ Len(queue[n]) <= Capacity /\ Capacity \in Nat
  BY Constants DEF TypeInv, TypeOK
<1>2. drained \in Seq(Nat) /\ Len(drained) \in Nat /\ room \in Nat
  BY <1>1
<1>3. link[n] # "connected" => drained = <<>>
  OBVIOUS
<1>4. Len(queue[n]) + room = Capacity
  BY <1>1
<1>5. t \in Seq(Nat) /\ Len(t) <= room /\ (drained = <<>> => t = <<>>)
  <2> HIDE DEF drained, room
  <2>1. \A i \in 1..Len(drained) : drained[i] \in Nat
    BY <1>2, ElementOfSeq
  <2> DEFINE k == IF Len(drained) < room THEN Len(drained) ELSE room
  <2>2. k \in Nat /\ k <= Len(drained) /\ k <= room
    BY <1>2
  <2>3. t \in Seq(Nat) /\ Len(t) = k
    <3> HIDE DEF k
    <3>1. SubSeq(drained, 1, k) \in Seq(Nat) /\ Len(SubSeq(drained, 1, k)) = k
      BY <2>1, <2>2, SubSeqProperties
    <3>2. QED
      BY <3>1 DEF k
  <2>4. drained = <<>> => k = 0
    BY <1>2
  <2>5. QED
    BY <1>2, <2>2, <2>3, <2>4
<1>6. /\ core' = [core EXCEPT ![n] = IF link[n] = "connected" THEN <<>> ELSE @]
      /\ sent' = [sent EXCEPT ![session[n]][n] = @ \o t]
      /\ PingNow(n, queue[n] \o Edges(t)) \/ NoPingNow(n, queue[n] \o Edges(t))
  BY DEF EndRead, Edges
<1> HIDE DEF t
<1>7. Len(t) \in Nat
  BY <1>5
<1>8. Len(queue[n]) + Len(t) <= Capacity
  <2> HIDE DEF room
  <2>1. QED
    BY <1>1, <1>2, <1>4, <1>5, <1>7
<1>9. (link[n] # "connected" => t = <<>>) /\ t \in Seq(Nat)
  <2> HIDE DEF drained
  <2>1. QED
    BY <1>3, <1>5
<1>10. QED
  BY <1>6, <1>8, <1>9

\* PollWrite moves the first k messages of the write queue to the wire.
LEMMA PollWriteTakes ==
  ASSUME TypeInv, NEW n \in Node, PollWrite(n)
  PROVE  \E head \in Seq(Message), k \in 1..Len(queue[n]) :
            /\ Alike(queue[n], head)
            /\ queue' = [queue EXCEPT ![n] = SubSeq(queue[n], k + 1, Len(queue[n]))]
            /\ IF Attached(Peer(n), session[n])
               THEN wire' = [wire EXCEPT ![session[n]][Peer(n)] = @ \o SubSeq(head, 1, k)]
               ELSE UNCHANGED wire
<1> DEFINE q == queue[n]
           head == IF q # <<>> /\ Head(q).kind \in Timed
                   THEN [q EXCEPT ![1].stamped = TRUE] ELSE q
<1>1. q \in Seq(Message)
  BY DEF TypeInv, TypeOK
<1>2. PICK k \in 1..Run(q) :
            /\ queue' = [queue EXCEPT ![n] = SubSeq(q, k + 1, Len(q))]
            /\ IF Attached(Peer(n), session[n])
               THEN wire' = [wire EXCEPT ![session[n]][Peer(n)] = @ \o SubSeq(head, 1, k)]
               ELSE UNCHANGED wire
  BY DEF PollWrite
<1>3. head \in Seq(Message) /\ Alike(q, head)
  <2> HIDE DEF q
  <2>1. CASE q # <<>> /\ Head(q).kind \in Timed
    <3>1. 1 \in 1..Len(q) /\ q[1] \in Message
      BY <1>1, <2>1
    <3>2. [q[1] EXCEPT !.stamped = TRUE] \in Message
      BY <3>1 DEF Message
    <3>3. head = [q EXCEPT ![1] = [q[1] EXCEPT !.stamped = TRUE]]
      BY <2>1
    <3>4. /\ [q[1] EXCEPT !.stamped = TRUE].kind = q[1].kind
          /\ [q[1] EXCEPT !.stamped = TRUE].id = q[1].id
      BY <3>1 DEF Message
    <3>5. QED
      BY <1>1, <3>1, <3>2, <3>3, <3>4, ExceptSeq DEF Alike
  <2>2. CASE ~(q # <<>> /\ Head(q).kind \in Timed)
    BY <1>1, <2>2 DEF Alike
  <2>3. QED
    BY <2>1, <2>2
<1>4. k \in 1..Len(q)
  <2> HIDE DEF q
  <2> QED
    BY <1>1, RunBound
<1> HIDE DEF head
<1>5. QED
  BY <1>2, <1>3, <1>4

\* What on_connected puts into the empty write queue.
Greeting == <<Msg("hello", 0), Msg("ping", 1)>>

LEMMA GreetingType ==
  /\ Greeting \in Seq(Message) /\ Len(Greeting) = 2
  /\ Greeting[1].kind = "hello" /\ Greeting[2].kind = "ping" /\ Greeting[2].id = 1
  BY MsgType DEF Greeting

\* An update of one entry of wire, sent or rcvd, or of one write queue.
LEMMA TableUpdate ==
  ASSUME NEW S, NEW table \in [Session -> [Node -> S]], NEW s \in Session, NEW n \in Node,
         NEW v \in S
  PROVE  /\ [table EXCEPT ![s][n] = v] \in [Session -> [Node -> S]]
         /\ \A r \in Session, m \in Node :
               [table EXCEPT ![s][n] = v][r][m] = IF r = s /\ m = n THEN v ELSE table[r][m]
  OBVIOUS

LEMMA QueueUpdate ==
  ASSUME queue \in [Node -> Seq(Message)], \A m \in Node : Len(queue[m]) <= Capacity,
         NEW n \in Node, NEW q \in Seq(Message), Len(q) <= Capacity
  PROVE  /\ [queue EXCEPT ![n] = q] \in [Node -> Seq(Message)]
         /\ \A m \in Node : Len([queue EXCEPT ![n] = q][m]) <= Capacity
  OBVIOUS

LEMMA OkStep ==
  ASSUME TypeInv, [Next]_vars
  PROVE  TypeOK'
<1> USE DEF TypeInv, TypeOK, Goto, Become
<1>1. ASSUME NEW n \in Node, Transmit(n) PROVE TypeOK'
  <2>1. made[n] + 1 \in Nat /\ core[n] \in Seq(Nat) /\ Len(core[n]) \in Nat
    OBVIOUS
  <2>2. made' \in [Node -> Nat] /\ made'[n] = made[n] + 1
    BY <1>1, <2>1 DEF Transmit
  <2>3. /\ Append(core[n], made'[n]) \in Seq(Nat)
        /\ Len(Append(core[n], made'[n])) = Len(core[n]) + 1
    BY <2>1, <2>2
  <2>4. core' \in [Node -> Seq(Nat)] /\ \A m \in Node : Len(core'[m]) <= CoreCapacity
    BY <1>1, <2>1, <2>3, Constants DEF Transmit
  <2>5. UNCHANGED <<pc, link, tp, session, backlog, opened, broken, wire, build, queue, ping,
                    sample, sent, rcvd>>
    BY <1>1 DEF Transmit, transport
  <2>6. QED
    BY <2>2, <2>4, <2>5
<1>2. ASSUME NEW n \in Node,
             NEW l \in {"idle", "hosting", "connecting", "error"},
             NEW t \in {"idle", "listening", "connecting", "error"},
             Close(n, l, t)
      PROVE  TypeOK'
  <2>1. queue' \in [Node -> Seq(Message)] /\ \A m \in Node : Len(queue'[m]) <= Capacity
    BY <1>2, Constants DEF Close
  <2>2. wire' \in [Session -> [Node -> Seq(Message)]]
    BY <1>2 DEF Close
  <2>3. QED
    BY <1>2, <2>1, <2>2 DEF Close
<1>3. ASSUME NEW n \in Node, OnConnected(n)
      PROVE  /\ pc' \in [Node -> {"frame", "read", "write"}]
             /\ link' \in [Node -> {"idle", "hosting", "connecting", "syncing", "connected",
                                    "error"}]
             /\ tp' \in [Node -> {"idle", "listening", "connecting", "connected", "error"}]
             /\ queue' \in [Node -> Seq(Message)]
             /\ \A m \in Node : Len(queue'[m]) <= Capacity
             /\ ping' \in [Node -> [outstanding : BOOLEAN, id : Nat]]
             /\ sample' \in [Node -> [ping : Nat, pong : Nat]]
  <2>1. queue' = [queue EXCEPT ![n] = Greeting]
    BY <1>3 DEF OnConnected, Greeting
  <2>2. queue' \in [Node -> Seq(Message)] /\ \A m \in Node : Len(queue'[m]) <= Capacity
    BY <2>1, GreetingType, Constants
  <2>3. QED
    BY <1>3, <2>2 DEF OnConnected, NoSample
<1>4. ASSUME NEW n \in Node, Accept(n) PROVE TypeOK'
  BY <1>3, <1>4 DEF Accept
<1>5. ASSUME NEW n \in Node, AcceptFails(n) PROVE TypeOK'
  BY <1>5 DEF AcceptFails, Fail
<1>6. ASSUME NEW n \in Node, Dial(n) PROVE TypeOK'
  <2>1. opened' \in 0..MaxSessions /\ opened' \in Session
    <3>1. opened' = opened + 1 /\ opened < MaxSessions /\ MaxSessions \in Nat /\ opened \in Nat
      BY <1>6, Constants DEF Dial
    <3>2. QED
      BY <3>1 DEF Session
  <2>2. /\ session' \in [Node -> Session \cup {NoSession}]
        /\ backlog' \in [Node -> Session \cup {NoSession}]
    BY <1>6, <2>1 DEF Dial
  <2>3. CASE OnConnected(n)
    BY <1>3, <1>6, <2>1, <2>2, <2>3 DEF Dial
  <2>4. CASE UNCHANGED <<pc, link, tp, queue, ping, sample>>
    BY <1>6, <2>1, <2>2, <2>4 DEF Dial
  <2>5. QED
    BY <1>6, <2>3, <2>4 DEF Dial
<1>7. ASSUME NEW n \in Node, DialCompletes(n) PROVE TypeOK'
  BY <1>3, <1>7 DEF DialCompletes
<1>8. ASSUME NEW n \in Node, DialRefused(n) PROVE TypeOK'
  BY <1>8 DEF DialRefused
<1>9. ASSUME NEW n \in Node, StartPump(n) \/ EndPump(n) PROVE TypeOK'
  BY <1>9 DEF StartPump, EndPump, transport
<1>10. ASSUME NEW n \in Node, PollRead(n) PROVE TypeOK'
  <2> DEFINE s == session[n]
             m == Head(Incoming(n))
  <2>1. s \in Session /\ Incoming(n) \in Seq(Message) /\ Incoming(n) # <<>>
    BY <1>10, Reading DEF PollRead, Incoming
  <2>2. m \in Message /\ Tail(Incoming(n)) \in Seq(Message)
    BY <2>1, HeadTailProperties
  <2>3. m.kind \in {"edge", "hello", "ping", "pong"} /\ m.id \in Nat
    BY <2>2 DEF Message
  <2>4. wire' \in [Session -> [Node -> Seq(Message)]]
    BY <1>10, <2>1, <2>2 DEF PollRead, Take, Incoming
  <2>5. UNCHANGED <<tp, session, backlog, opened, broken, core, build, made, sent>>
    BY <1>10 DEF PollRead, transport
  <2> HIDE DEF m
  <2>6. CASE HandleMismatch(n)
    BY <2>4, <2>5, <2>6 DEF HandleMismatch
  <2>7. CASE HandleHello(n, m) \/ HandleDuplicate(n, m)
    BY <2>4, <2>5, <2>7 DEF HandleHello, HandleDuplicate
  <2>8. CASE HandlePing(n, m)
    <3>1. queue' = [queue EXCEPT ![n] = Enqueue(queue[n], Msg("pong", m.id))]
      BY <2>8 DEF HandlePing
    <3>2. /\ Enqueue(queue[n], Msg("pong", m.id)) \in Seq(Message)
          /\ Len(Enqueue(queue[n], Msg("pong", m.id))) <= Capacity
      BY <2>3, MsgType, EnqueueType
    <3>3. queue' \in [Node -> Seq(Message)] /\ \A i \in Node : Len(queue'[i]) <= Capacity
      BY <3>1, <3>2, QueueUpdate
    <3>4. QED
      BY <2>4, <2>5, <2>8, <3>3 DEF HandlePing
  <2>9. CASE HandleSample(n, m)
    BY <2>3, <2>4, <2>5, <2>9, ZenonT(60) DEF HandleSample
  <2>10. CASE HandleBadSample(n, m)
    BY <2>3, <2>4, <2>5, <2>10 DEF HandleBadSample
  <2>11. CASE HandleEdge(n, m)
    <3>1. rcvd' = [rcvd EXCEPT ![s][n] = Append(rcvd[s][n], m.id)]
      BY <2>11 DEF HandleEdge
    <3>2. Append(rcvd[s][n], m.id) \in Seq(Nat)
      BY <2>1, <2>3, AppendProperties
    <3>3. rcvd' \in [Session -> [Node -> Seq(Nat)]]
      BY <2>1, <3>1, <3>2, TableUpdate
    <3>4. UNCHANGED <<pc, link, queue, ping, sample>>
      BY <2>11 DEF HandleEdge
    <3>5. QED
      BY <2>4, <2>5, <3>3, <3>4
  <2>12. QED
    BY <1>10, <2>6, <2>7, <2>8, <2>9, <2>10, <2>11 DEF PollRead, Handle, m
<1>11. ASSUME NEW n \in Node, PeerDisconnected(n) PROVE TypeOK'
  BY <1>11 DEF PeerDisconnected, Fail
<1>12. ASSUME NEW n \in Node, EndRead(n) PROVE TypeOK'
  <2>1. PICK t \in Seq(Nat) :
            /\ Len(queue[n]) + Len(t) <= Capacity
            /\ core' = [core EXCEPT ![n] = IF link[n] = "connected" THEN <<>> ELSE @]
            /\ sent' = [sent EXCEPT ![session[n]][n] = @ \o t]
            /\ PingNow(n, queue[n] \o Edges(t)) \/ NoPingNow(n, queue[n] \o Edges(t))
    BY <1>12, EndReadTakes
  <2> DEFINE q == queue[n] \o Edges(t)
  <2>2. q \in Seq(Message) /\ Len(q) <= Capacity
    <3>1. queue[n] \in Seq(Message) /\ Len(queue[n]) \in Nat /\ Len(t) \in Nat
      OBVIOUS
    <3>2. Edges(t) \in Seq(Message) /\ Len(Edges(t)) = Len(t)
      BY EdgesType
    <3>3. q \in Seq(Message) /\ Len(q) = Len(queue[n]) + Len(Edges(t))
      BY <3>1, <3>2, ConcatProperties, SMTT(30)
    <3> HIDE DEF q
    <3>4. QED
      BY <2>1, <3>2, <3>3
  <2>3. core' \in [Node -> Seq(Nat)] /\ \A m \in Node : Len(core'[m]) <= CoreCapacity
    <3>1. Len(<<>>) <= CoreCapacity
      BY Constants
    <3>2. QED
      BY <2>1, <3>1
  <2>4. sent' \in [Session -> [Node -> Seq(Nat)]]
    <3>1. session[n] \in Session
      BY <1>12, Reading DEF EndRead
    <3>2. sent[session[n]][n] \o t \in Seq(Nat)
      BY <3>1, ConcatProperties
    <3>3. QED
      BY <2>1, <3>1, <3>2, TableUpdate
  <2> HIDE DEF q
  <2>5. /\ queue' \in [Node -> Seq(Message)] /\ \A i \in Node : Len(queue'[i]) <= Capacity
        /\ ping' \in [Node -> [outstanding : BOOLEAN, id : Nat]]
    <3>1. CASE PingNow(n, q)
      <4>1. ping' = [ping EXCEPT ![n] = [outstanding |-> TRUE, id |-> ping[n].id + 1]]
        BY <3>1 DEF PingNow
      <4>2. ping[n].id + 1 \in Nat
        OBVIOUS
      <4>3. ping' \in [Node -> [outstanding : BOOLEAN, id : Nat]] /\ ping'[n].id \in Nat
        BY <4>1, <4>2
      <4>4. queue' = [queue EXCEPT ![n] = Enqueue(q, Msg("ping", ping'[n].id))]
        BY <3>1 DEF PingNow
      <4>5. /\ Enqueue(q, Msg("ping", ping'[n].id)) \in Seq(Message)
            /\ Len(Enqueue(q, Msg("ping", ping'[n].id))) <= Capacity
        BY <2>2, <4>3, MsgType, EnqueueType
      <4>6. QED
        BY <4>3, <4>4, <4>5, QueueUpdate
    <3>2. CASE NoPingNow(n, q)
      BY <2>2, <3>2 DEF NoPingNow
    <3>3. QED
      BY <2>1, <3>1, <3>2 DEF q
  <2>6. QED
    BY <1>12, <2>3, <2>4, <2>5 DEF EndRead, transport
<1>13. ASSUME NEW n \in Node, PollWrite(n) PROVE TypeOK'
  <2>1. PICK head \in Seq(Message), k \in 1..Len(queue[n]) :
            /\ Alike(queue[n], head)
            /\ queue' = [queue EXCEPT ![n] = SubSeq(queue[n], k + 1, Len(queue[n]))]
            /\ IF Attached(Peer(n), session[n])
               THEN wire' = [wire EXCEPT ![session[n]][Peer(n)] = @ \o SubSeq(head, 1, k)]
               ELSE UNCHANGED wire
    BY <1>13, PollWriteTakes
  <2>2. Len(queue[n]) \in Nat /\ Len(head) = Len(queue[n]) /\ Len(queue[n]) <= Capacity
    BY <2>1 DEF Alike
  <2>3. /\ SubSeq(queue[n], k + 1, Len(queue[n])) \in Seq(Message)
        /\ Len(SubSeq(queue[n], k + 1, Len(queue[n]))) <= Capacity
    <3>1. \A i \in k + 1..Len(queue[n]) : queue[n][i] \in Message
      BY <2>2, ElementOfSeq
    <3>2. /\ SubSeq(queue[n], k + 1, Len(queue[n])) \in Seq(Message)
          /\ Len(SubSeq(queue[n], k + 1, Len(queue[n]))) =
                IF k + 1 <= Len(queue[n]) THEN Len(queue[n]) - (k + 1) + 1 ELSE 0
      BY <2>2, <3>1, SubSeqProperties
    <3> HIDE DEF TypeInv, TypeOK
    <3>3. QED
      BY <2>2, <3>2, Constants
  <2>4. SubSeq(head, 1, k) \in Seq(Message)
    <3>1. \A i \in 1..k : head[i] \in Message
      BY <2>2, ElementOfSeq
    <3>2. QED
      BY <3>1, SubSeqProperties
  <2>5. wire' \in [Session -> [Node -> Seq(Message)]]
    <3>1. session[n] \in Session /\ Peer(n) \in Node
      BY <1>13, Reading, Peers DEF PollWrite
    <3>2. wire[session[n]][Peer(n)] \o SubSeq(head, 1, k) \in Seq(Message)
      BY <2>4, <3>1, ConcatProperties
    <3>3. [wire EXCEPT ![session[n]][Peer(n)] =
              wire[session[n]][Peer(n)] \o SubSeq(head, 1, k)]
                  \in [Session -> [Node -> Seq(Message)]]
      BY <3>1, <3>2, TableUpdate, SMTT(30)
    <3>4. QED
      BY <2>1, <3>3
  <2>6. queue' \in [Node -> Seq(Message)] /\ \A i \in Node : Len(queue'[i]) <= Capacity
    BY <2>1, <2>3, QueueUpdate
  <2>7. QED
    BY <1>13, <2>5, <2>6 DEF PollWrite, transport
<1>14. ASSUME NEW s \in Session, Break(s) PROVE TypeOK'
  BY <1>14 DEF Break
<1>15. CASE UNCHANGED vars
  BY <1>15 DEF vars, transport
<1>16. QED
  BY <1>1, <1>2, <1>4, <1>5, <1>6, <1>7, <1>8, <1>9, <1>10, <1>11, <1>12, <1>13, <1>14, <1>15
     DEF Next, User, Establish, Pump, Disconnect, Host, Connect

LEMMA StateStep ==
  ASSUME TypeInv, [Next]_vars, NEW m \in Node
  PROVE  StateOfLink(m)'
<1> USE DEF TypeInv, TypeOK, StateOfLink, Attached, transport, Goto, Become, Carries
<1>1. ASSUME NEW n \in Node, Transmit(n) PROVE StateOfLink(m)'
  BY <1>1 DEF Transmit
<1>2. ASSUME NEW n \in Node, Disconnect(n) \/ Host(n) \/ Connect(n) PROVE StateOfLink(m)'
  <2>1. PICK l, t : Close(n, l, t) /\ <<l, t>> \in {<<"idle", "idle">>, <<"hosting", "listening">>,
                       <<"connecting", "connecting">>, <<"error", "error">>}
    BY <1>2 DEF Disconnect, Host, Connect
  <2>2. CASE m = n
    <3>1. /\ pc'[n] = "frame" /\ link'[n] = l /\ tp'[n] = t
          /\ session'[n] = NoSession /\ backlog'[n] = NoSession /\ queue'[n] = <<>>
          /\ opened' = opened
      BY <2>1 DEF Close
    <3>2. NoSession <= opened
      BY Constants DEF NoSession
    <3>3. QED
      BY <2>1, <2>2, <3>1, <3>2
  <2>3. CASE m # n
    BY <2>1, <2>3 DEF Close
  <2>4. QED
    BY <2>2, <2>3
<1>3. ASSUME NEW n \in Node, Accept(n) PROVE StateOfLink(m)'
  BY <1>3 DEF Accept, OnConnected
<1>4. ASSUME NEW n \in Node, AcceptFails(n) PROVE StateOfLink(m)'
  BY <1>4 DEF AcceptFails, Fail
<1>5. ASSUME NEW n \in Node, Dial(n) PROVE StateOfLink(m)'
  <2>1. opened' = opened + 1 /\ opened \in Nat /\ opened' # NoSession
    BY <1>5, Constants DEF Dial, NoSession
  <2>2. /\ Peer(n) \in Node /\ Peer(n) # n /\ (m = n \/ m = Peer(n))
        /\ session' = [session EXCEPT ![n] = opened']
        /\ backlog' = [backlog EXCEPT ![Peer(n)] = opened']
        /\ pc[n] = "frame" /\ tp[n] = "connecting" /\ session[n] = NoSession
        /\ tp[Peer(n)] = "listening"
    BY <1>5, Peers DEF Dial
  <2>3. /\ \A i \in Node : i # n => UNCHANGED <<pc[i], link[i], tp[i], queue[i]>>
        /\ \/ pc'[n] = "read" /\ link'[n] = "syncing" /\ tp'[n] = "connected"
           \/ UNCHANGED <<pc[n], link[n], tp[n], queue[n]>>
    BY <1>5, SMTT(30) DEF Dial, OnConnected
  <2>4. backlog[n] = NoSession /\ session[Peer(n)] = NoSession
    BY <2>2
  <2>5. CASE m = n
    BY <2>1, <2>2, <2>3, <2>4, <2>5 DEF NoSession
  <2>6. CASE m = Peer(n)
    BY <2>1, <2>2, <2>3, <2>4, <2>6 DEF NoSession
  <2>7. QED
    BY <2>2, <2>5, <2>6
<1>6. ASSUME NEW n \in Node, DialCompletes(n) PROVE StateOfLink(m)'
  BY <1>6 DEF DialCompletes, OnConnected
<1>7. ASSUME NEW n \in Node, DialRefused(n) PROVE StateOfLink(m)'
  BY <1>7, SMTT(30) DEF DialRefused
<1>8. ASSUME NEW n \in Node, StartPump(n) PROVE StateOfLink(m)'
  BY <1>8 DEF StartPump
<1>9. ASSUME NEW n \in Node, PollRead(n) PROVE StateOfLink(m)'
  <2>1. UNCHANGED <<tp, session, backlog, opened>>
    BY <1>9 DEF PollRead
  <2>2. tp[n] = "connected" /\ pc[n] = "read"
    BY <1>9 DEF PollRead
  <2>3. /\ \A i \in Node : i # n => UNCHANGED <<pc[i], link[i], queue[i]>>
        /\ \/ pc'[n] = "frame" /\ link'[n] = "error"
           \/ pc'[n] = "read" /\ link'[n] \in {link[n], "connected"}
    <3> DEFINE h == Head(Incoming(n))
    <3>1. HandleMismatch(n) \/ Handle(n, h)
      BY <1>9 DEF PollRead
    <3> HIDE DEF h
    <3>2. CASE HandleMismatch(n)
      BY <3>2 DEF HandleMismatch
    <3>3. CASE HandleHello(n, h) \/ HandlePing(n, h) \/ HandleDuplicate(n, h)
      BY <2>2, <3>3 DEF HandleHello, HandlePing, HandleDuplicate
    <3>4. CASE HandleSample(n, h) \/ HandleBadSample(n, h) \/ HandleEdge(n, h)
      BY <2>2, <3>4 DEF HandleSample, HandleBadSample, HandleEdge
    <3>5. QED
      BY <3>1, <3>2, <3>3, <3>4 DEF Handle
  <2>5. Carries(n) /\ session[n] # NoSession
    BY <2>2
  <2>6. CASE m = n
    BY <2>1, <2>2, <2>3, <2>5, <2>6
  <2>7. CASE m # n
    BY <2>1, <2>3, <2>7
  <2>8. QED
    BY <2>6, <2>7
<1>10. ASSUME NEW n \in Node, PeerDisconnected(n) PROVE StateOfLink(m)'
  BY <1>10 DEF PeerDisconnected, Fail
<1>11. ASSUME NEW n \in Node, EndRead(n) PROVE StateOfLink(m)'
  <2>1. /\ UNCHANGED <<link, tp, session, backlog, opened>>
        /\ pc[n] = "read" /\ pc' = [pc EXCEPT ![n] = "write"]
    BY <1>11 DEF EndRead
  <2>2. \A i \in Node : i # n => queue'[i] = queue[i]
    BY <1>11 DEF EndRead, PingNow, NoPingNow
  <2>3. Carries(n) /\ tp[n] = "connected"
    BY <2>1
  <2>4. QED
    BY <2>1, <2>2, <2>3
<1>12. ASSUME NEW n \in Node, PollWrite(n) PROVE StateOfLink(m)'
  BY <1>12 DEF PollWrite
<1>13. ASSUME NEW n \in Node, EndPump(n) PROVE StateOfLink(m)'
  BY <1>13 DEF EndPump
<1>14. ASSUME NEW s \in Session, Break(s) PROVE StateOfLink(m)'
  BY <1>14 DEF Break
<1>15. CASE UNCHANGED vars
  BY <1>15 DEF vars, transport
<1>16. QED
  BY <1>1, <1>2, <1>3, <1>4, <1>5, <1>6, <1>7, <1>8, <1>9, <1>10, <1>11, <1>12, <1>13, <1>14, <1>15
     DEF Next, User, Establish, Pump

LEMMA TypeStep ==
  ASSUME TypeInv, [Next]_vars
  PROVE  TypeInv'
  BY OkStep, StateStep DEF TypeInv

LEMMA TypeInit ==
  ASSUME Init
  PROVE  TypeInv
<1>1. TypeOK
  <2>1. Len(<<>>) <= Capacity /\ Len(<<>>) <= CoreCapacity /\ 0 \in 0..MaxSessions
    BY Constants
  <2>2. QED
    BY <2>1 DEF Init, TypeOK, NoSample
<1>2. ASSUME NEW n \in Node PROVE StateOfLink(n)
  BY DEF Init, StateOfLink, Carries, NoSession
<1>3. QED
  BY <1>1, <1>2 DEF TypeInv

\* The states of two instances with their connections are of their types, with
\* each fault and for each capacity.
THEOREM TypeCorrect == Spec => []TypeOK
<1>1. Init => TypeInv
  BY TypeInit
<1>2. TypeInv /\ [Next]_vars => TypeInv'
  BY TypeStep
<1>3. TypeInv => TypeOK
  BY DEF TypeInv
<1>4. QED
  BY <1>1, <1>2, <1>3, PTL DEF Spec

-----------------------------------------------------------------------------
(* What the steps do to the streams                                           *)

LEMMA StreamType ==
  ASSUME TypeInv, NEW s \in Session, NEW n \in Node
  PROVE  /\ Stream(s, n) \in Seq(Message)
         /\ wire[s][Peer(n)] \in Seq(Message) /\ queue[n] \in Seq(Message)
<1>1. wire[s][Peer(n)] \in Seq(Message) /\ queue[n] \in Seq(Message)
  BY Peers DEF TypeInv, TypeOK
<1>2. QED
  BY <1>1, ConcatProperties DEF Stream

LEMMA TailOfConcat ==
  ASSUME NEW q \in Seq(Message), NEW r \in Seq(Message), q # <<>>
  PROVE  q \o r # <<>> /\ Head(q \o r) = Head(q) /\ Tail(q \o r) = Tail(q) \o r
<1>1. /\ Tail(q) \in Seq(Message) /\ Len(Tail(q)) = Len(q) - 1
      /\ \A i \in 1..Len(Tail(q)) : Tail(q)[i] = q[i + 1]
      /\ Len(q) \in Nat /\ Len(q) >= 1 /\ Len(r) \in Nat
  BY HeadTailProperties
<1>2. /\ q \o r \in Seq(Message) /\ Len(q \o r) = Len(q) + Len(r)
      /\ \A i \in 1..Len(q) + Len(r) :
            (q \o r)[i] = IF i <= Len(q) THEN q[i] ELSE r[i - Len(q)]
  BY ConcatProperties
<1>3. q \o r # <<>>
  BY <1>1, <1>2
<1>4. Head(q \o r) = Head(q)
  BY <1>1, <1>2, <1>3
<1>5. /\ Tail(q \o r) \in Seq(Message) /\ Len(Tail(q \o r)) = Len(q \o r) - 1
      /\ \A i \in 1..Len(Tail(q \o r)) : Tail(q \o r)[i] = (q \o r)[i + 1]
  BY <1>2, <1>3, HeadTailProperties
<1>6. /\ Tail(q) \o r \in Seq(Message) /\ Len(Tail(q) \o r) = Len(Tail(q)) + Len(r)
      /\ \A i \in 1..Len(Tail(q)) + Len(r) :
            (Tail(q) \o r)[i] = IF i <= Len(Tail(q)) THEN Tail(q)[i] ELSE r[i - Len(Tail(q))]
  BY <1>1, ConcatProperties
<1>7. ASSUME NEW i \in 1..Len(Tail(q \o r))
      PROVE  Tail(q \o r)[i] = (Tail(q) \o r)[i]
  <2>1. i + 1 \in 1..Len(q) + Len(r) /\ (i + 1) - Len(q) = i - Len(Tail(q))
    BY <1>1, <1>2, <1>5
  <2>2. CASE i <= Len(Tail(q))
    BY <1>1, <1>2, <1>5, <1>6, <2>1, <2>2
  <2>3. CASE i > Len(Tail(q))
    BY <1>1, <1>2, <1>5, <1>6, <2>1, <2>3
  <2>4. QED
    BY <1>1, <2>2, <2>3
<1>8. QED
  BY <1>1, <1>2, <1>3, <1>4, <1>5, <1>6, <1>7, SeqEqual

LEMMA AppendToConcat ==
  ASSUME NEW q \in Seq(Message), NEW r \in Seq(Message), NEW m \in Message
  PROVE  q \o Append(r, m) = (q \o r) \o <<m>>
<1>1. Append(r, m) = r \o <<m>> /\ <<m>> \in Seq(Message)
  BY AppendIsConcat
<1>2. QED
  BY <1>1, ConcatAssociative

\* Of two parts in which a queue leaves, the first one is now on the wire.
LEMMA MovedIsAlike ==
  ASSUME NEW w \in Seq(Message), NEW q \in Seq(Message), NEW head \in Seq(Message),
         Alike(q, head), NEW k \in 1..Len(q)
  PROVE  /\ SubSeq(head, 1, k) \in Seq(Message)
         /\ SubSeq(q, k + 1, Len(q)) \in Seq(Message)
         /\ Alike(w \o q, (w \o SubSeq(head, 1, k)) \o SubSeq(q, k + 1, Len(q)))
<1> DEFINE a == SubSeq(head, 1, k)
           b == SubSeq(q, k + 1, Len(q))
<1>1. Len(q) \in Nat /\ Len(w) \in Nat /\ k \in Nat /\ Len(head) = Len(q)
  BY DEF Alike
<1>2. a \in Seq(Message) /\ Len(a) = k /\ \A i \in 1..k : a[i] = head[i]
  <2>1. \A i \in 1..k : head[i] \in Message
    BY <1>1, ElementOfSeq
  <2>2. QED
    BY <1>1, <2>1, SubSeqProperties
<1>3. b \in Seq(Message) /\ Len(b) = Len(q) - k /\ \A i \in 1..Len(q) - k : b[i] = q[k + i]
  <2>1. \A i \in k + 1..Len(q) : q[i] \in Message
    BY <1>1, ElementOfSeq
  <2>2. /\ b \in Seq(Message)
        /\ Len(b) = IF k + 1 <= Len(q) THEN Len(q) - (k + 1) + 1 ELSE 0
        /\ \A i \in 1..Len(q) - (k + 1) + 1 : b[i] = q[(k + 1) + i - 1]
    BY <1>1, <2>1, SubSeqProperties
  <2>3. Len(q) - (k + 1) + 1 = Len(q) - k /\ k + 1 <= Len(q) + 1
    BY <1>1
  <2>4. Len(b) = Len(q) - k
    <3> HIDE DEF b
    <3>1. CASE k + 1 <= Len(q)
      BY <2>2, <2>3, <3>1
    <3>2. CASE ~(k + 1 <= Len(q))
      BY <1>1, <2>2, <2>3, <3>2
    <3> QED BY <3>1, <3>2
  <2>5. ASSUME NEW i \in 1..Len(q) - k PROVE b[i] = q[k + i]
    <3> HIDE DEF b
    <3>1. (k + 1) + i - 1 = k + i /\ i \in 1..Len(q) - (k + 1) + 1
      BY <1>1, <2>3
    <3>2. b[i] = q[(k + 1) + i - 1]
      BY <2>2, <3>1
    <3> QED BY <3>1, <3>2
  <2> HIDE DEF b
  <2>6. QED
    BY <2>2, <2>4, <2>5
<1> HIDE DEF a, b
<1>4. /\ w \o a \in Seq(Message) /\ Len(w \o a) = Len(w) + k
      /\ \A i \in 1..Len(w) + k : (w \o a)[i] = IF i <= Len(w) THEN w[i] ELSE a[i - Len(w)]
  BY <1>2, ConcatProperties
<1>5. /\ Len((w \o a) \o b) = Len(w) + Len(q)
      /\ \A i \in 1..Len(w) + Len(q) :
            ((w \o a) \o b)[i] = IF i <= Len(w) + k THEN (w \o a)[i] ELSE b[i - (Len(w) + k)]
  <2>1. /\ Len((w \o a) \o b) = Len(w \o a) + Len(b)
        /\ \A i \in 1..Len(w \o a) + Len(b) :
              ((w \o a) \o b)[i] = IF i <= Len(w \o a) THEN (w \o a)[i]
                                   ELSE b[i - Len(w \o a)]
    BY <1>3, <1>4, ConcatProperties
  <2>2. Len(w \o a) + Len(b) = Len(w) + Len(q) /\ Len(w \o a) = Len(w) + k
    BY <1>1, <1>3, <1>4
  <2>3. QED
    BY <2>1, <2>2
<1>6. /\ Len(w \o q) = Len(w) + Len(q)
      /\ \A i \in 1..Len(w) + Len(q) :
            (w \o q)[i] = IF i <= Len(w) THEN w[i] ELSE q[i - Len(w)]
  BY ConcatProperties
<1>7. ASSUME NEW i \in 1..Len(w) + Len(q)
      PROVE  /\ (w \o q)[i].kind = ((w \o a) \o b)[i].kind
             /\ (w \o q)[i].id = ((w \o a) \o b)[i].id
  <2>1. CASE i <= Len(w)
    BY <1>1, <1>4, <1>5, <1>6, <2>1
  <2>2. CASE i > Len(w) /\ i <= Len(w) + k
    <3>1. i - Len(w) \in 1..k /\ i - Len(w) \in 1..Len(q)
      BY <1>1, <2>2
    <3>2. ((w \o a) \o b)[i] = head[i - Len(w)] /\ (w \o q)[i] = q[i - Len(w)]
      BY <1>1, <1>2, <1>4, <1>5, <1>6, <2>2, <3>1
    <3>3. QED
      BY <3>1, <3>2 DEF Alike
  <2>3. CASE i > Len(w) + k
    <3>1. i - (Len(w) + k) \in 1..Len(q) - k /\ k + (i - (Len(w) + k)) = i - Len(w)
      BY <1>1, <2>3
    <3>2. ((w \o a) \o b)[i] = q[i - Len(w)] /\ (w \o q)[i] = q[i - Len(w)]
      BY <1>1, <1>3, <1>5, <1>6, <2>3, <3>1
    <3>3. QED
      BY <3>2
  <2>4. i <= Len(w) \/ (i > Len(w) /\ i <= Len(w) + k) \/ i > Len(w) + k
    BY <1>1
  <2>5. QED
    BY <2>1, <2>2, <2>3, <2>4
<1>8. QED
  BY <1>2, <1>3, <1>5, <1>6, <1>7 DEF Alike, a, b

\* n is a part of connection s, but does not read or write yet.
Joining(n, s) ==
    \/ tp[n] = "listening" /\ backlog[n] = s
    \/ tp[n] = "connecting" /\ session[n] = s

\* A step that leaves the streams alone, and gives up a link or an attempt to
\* connect at the most.
Quiet ==
    /\ UNCHANGED <<wire, queue, backlog, opened, sent, rcvd, ping, sample>>
    /\ \A m \in Node :
          /\ link'[m] \in {link[m], "error"} /\ tp'[m] \in {tp[m], "error"}
          /\ session'[m] # session[m] =>
                session'[m] = NoSession /\ queue[m] = <<>> /\ tp[m] = "connecting"

\* A connection is complete at n.
Joins(n, s) ==
    /\ Joining(n, s)
    /\ session' = [session EXCEPT ![n] = s]
    /\ backlog' = [backlog EXCEPT ![n] = NoSession]
    /\ OnConnected(n)
    /\ UNCHANGED <<wire, opened, sent, rcvd>>

Closes(n) ==
    \E l \in {"idle", "hosting", "connecting", "error"},
       t \in {"idle", "listening", "connecting", "error"} : Close(n, l, t)

LEMMA StepKinds ==
  ASSUME TypeInv, [Next]_vars
  PROVE  \/ Quiet
         \/ \E n \in Node :
               \/ Closes(n) \/ Dial(n) \/ PollRead(n) \/ EndRead(n) \/ PollWrite(n)
               \/ \E s \in Session : Joins(n, s)
<1>1. ASSUME NEW n \in Node, Accept(n) PROVE \E s \in Session : Joins(n, s)
  <2>1. backlog[n] \in Session /\ Joining(n, backlog[n])
    BY <1>1 DEF Accept, Joining, TypeInv, TypeOK
  <2>2. QED
    BY <1>1, <2>1 DEF Accept, Joins
<1>2. ASSUME NEW n \in Node, DialCompletes(n) PROVE \E s \in Session : Joins(n, s)
  <2>1. session[n] \in Session /\ Joining(n, session[n])
    BY <1>2 DEF DialCompletes, Joining, TypeInv, TypeOK
  <2>2. /\ session' = [session EXCEPT ![n] = session[n]]
        /\ backlog' = [backlog EXCEPT ![n] = NoSession]
    BY <1>2, <2>1 DEF DialCompletes, TypeInv, TypeOK, StateOfLink, Session, NoSession
  <2>3. QED
    BY <1>2, <2>1, <2>2 DEF DialCompletes, Joins
<1>3. ASSUME NEW n \in Node, AcceptFails(n) \/ PeerDisconnected(n) PROVE Quiet
  BY <1>3 DEF AcceptFails, PeerDisconnected, Fail, Become, Quiet, TypeInv, TypeOK
<1>4. ASSUME NEW n \in Node, DialRefused(n) PROVE Quiet
  BY <1>4 DEF DialRefused, Quiet, TypeInv, TypeOK, StateOfLink
<1>5. ASSUME NEW n \in Node, Transmit(n) \/ StartPump(n) \/ EndPump(n) PROVE Quiet
  BY <1>5 DEF Transmit, StartPump, EndPump, transport, Quiet
<1>6. ASSUME NEW s \in Session, Break(s) PROVE Quiet
  BY <1>6 DEF Break, Quiet
<1>7. CASE UNCHANGED vars
  BY <1>7 DEF vars, transport, Quiet
<1>8. ASSUME NEW n \in Node, Disconnect(n) \/ Host(n) \/ Connect(n) PROVE Closes(n)
  BY <1>8 DEF Disconnect, Host, Connect, Closes
<1>9. QED
  BY <1>1, <1>2, <1>3, <1>4, <1>5, <1>6, <1>7, <1>8 DEF Next, User, Establish, Pump

LEMMA QuietStreams ==
  ASSUME TypeInv, Quiet, NEW s \in Session, NEW n \in Node
  PROVE  /\ Stream(s, n)' = Stream(s, n)
         /\ Hears(n, s)' => Hears(n, s)
         /\ Joining(n, s)' => Joining(n, s)
         /\ session'[n] = s => session[n] = s
         /\ tp'[n] = "connected" => tp[n] = "connected" /\ session'[n] = session[n]
<1>1. s # NoSession
  BY DEF Session, NoSession
<1>2. session'[n] = s => session[n] = s
  BY <1>1 DEF Quiet
<1>3. tp'[n] = "connected" => tp[n] = "connected" /\ session'[n] = session[n]
  BY DEF Quiet
<1>4. (Hears(n, s)' => Hears(n, s)) /\ (Joining(n, s)' => Joining(n, s))
  BY <1>2 DEF Quiet, Hears, Attached, Joining
<1>5. Stream(s, n)' = Stream(s, n)
  BY <1>1 DEF Quiet, Stream
<1>6. QED
  BY <1>2, <1>3, <1>4, <1>5

LEMMA JoinsStreams ==
  ASSUME TypeInv, NEW n \in Node, NEW s \in Session, Joins(n, s)
  PROVE  /\ Stream(s, n)' = Stream(s, n) \o Greeting
         /\ \A r \in Session : r # s => Stream(r, n)' = Stream(r, n)
         /\ \A r \in Session : Stream(r, Peer(n))' = Stream(r, Peer(n))
         /\ \A m \in Node, r \in Session :
               /\ Hears(m, r)' => Hears(m, r)
               /\ Joining(m, r)' => Joining(m, r) /\ m # n
               /\ session'[m] = r => session[m] = r \/ (m = n /\ r = s)
<1>1. /\ s # NoSession /\ (session[n] = s \/ session[n] = NoSession) /\ queue[n] = <<>>
      /\ link[n] # "error" /\ session'[n] = s
      /\ \A m \in Node : m # n => session'[m] = session[m]
  BY DEF Joins, Joining, TypeInv, TypeOK, StateOfLink, Session, NoSession
<1>2. /\ queue'[n] = Greeting /\ UNCHANGED wire
      /\ \A m \in Node : m # n => queue'[m] = queue[m]
  BY DEF Joins, OnConnected, Greeting, TypeInv, TypeOK
<1>3. Stream(s, n)' = Stream(s, n) \o Greeting
  <2>1. wire[s][Peer(n)] \in Seq(Message)
    BY StreamType
  <2>2. Stream(s, n) = wire[s][Peer(n)]
    BY <1>1, <2>1, ConcatEmptySeq DEF Stream
  <2>3. Stream(s, n)' = wire[s][Peer(n)] \o Greeting
    BY <1>1, <1>2 DEF Stream
  <2>4. QED
    BY <2>2, <2>3
<1>4. ASSUME NEW r \in Session, r # s PROVE Stream(r, n)' = Stream(r, n)
  BY <1>1, <1>2, <1>4 DEF Stream, Session, NoSession
<1>5. ASSUME NEW r \in Session PROVE Stream(r, Peer(n))' = Stream(r, Peer(n))
  <2>1. Peer(n) \in Node /\ Peer(n) # n
    BY Peers
  <2>2. UNCHANGED <<session[Peer(n)], queue[Peer(n)], wire>>
    BY <1>1, <1>2, <2>1
  <2>3. QED
    BY <2>2 DEF Stream
<1>6. ASSUME NEW m \in Node, NEW r \in Session
      PROVE  /\ Hears(m, r)' => Hears(m, r)
             /\ Joining(m, r)' => Joining(m, r) /\ m # n
             /\ session'[m] = r => session[m] = r \/ (m = n /\ r = s)
  <2>1. /\ m # n => link'[m] = link[m] /\ tp'[m] = tp[m] /\ backlog'[m] = backlog[m]
        /\ tp'[n] = "connected" /\ backlog'[n] = NoSession
    BY DEF Joins, OnConnected, Become, TypeInv, TypeOK
  <2>2. Attached(n, s)
    BY DEF Joins, Joining, Attached
  <2>3. r # NoSession
    BY DEF Session, NoSession
  <2>4. CASE m = n
    BY <1>1, <2>1, <2>2, <2>3, <2>4 DEF Hears, Attached, Joining
  <2>5. CASE m # n
    BY <1>1, <2>1, <2>5 DEF Hears, Attached, Joining
  <2>6. QED
    BY <2>4, <2>5
<1>7. QED
  BY <1>3, <1>4, <1>5, <1>6

\* A connection that is not opened yet has no data.
Unopened ==
    \A s \in Session, n \in Node :
        s > opened => wire[s][n] = <<>> /\ sent[s][n] = <<>> /\ rcvd[s][n] = <<>>

LEMMA DialStreams ==
  ASSUME TypeInv, Unopened, NEW n \in Node, Dial(n)
  PROVE  \E s \in Session :
         /\ s = opened + 1 /\ opened' = s
         /\ session[n] = NoSession /\ session'[n] = s /\ queue[n] = <<>>
         /\ session'[Peer(n)] = session[Peer(n)] /\ session[Peer(n)] # s
         /\ UNCHANGED <<wire, sent, rcvd>>
         /\ Stream(s, Peer(n))' = <<>>
         /\ \/ OnConnected(n) /\ Stream(s, n)' = Greeting
            \/ /\ UNCHANGED <<link, tp, queue, ping>> /\ Stream(s, n)' = <<>>
               /\ tp[n] = "connecting"
         /\ \A r \in Session, m \in Node :
               r # s =>
                   /\ Stream(r, m)' = Stream(r, m)
                   /\ Hears(m, r)' => Hears(m, r)
                   /\ Joining(m, r)' => Joining(m, r)
                   /\ session'[m] = r => session[m] = r
         /\ \A m \in Node : tp'[m] = "connected" => m = n \/ tp[m] = "connected"
<1> DEFINE p == Peer(n)
<1>1. PICK s \in Session : s = opened + 1 /\ opened' = s /\ s # NoSession /\ s > opened
  <2>1. opened \in Nat /\ opened < MaxSessions /\ opened' = opened + 1
    BY Constants DEF Dial, TypeInv, TypeOK
  <2>2. QED
    BY <2>1, Constants DEF Session, NoSession
<1>2. /\ session[n] = NoSession /\ tp[n] = "connecting" /\ tp[p] = "listening"
      /\ backlog[p] = NoSession /\ session[p] = NoSession /\ backlog[n] = NoSession
      /\ queue[n] = <<>> /\ p \in Node /\ p # n
      /\ link[n] # "error" /\ link[p] # "error" /\ queue[p] = <<>>
  BY Peers DEF Dial, TypeInv, StateOfLink
<1>3. /\ session' = [session EXCEPT ![n] = s] /\ backlog' = [backlog EXCEPT ![p] = s]
      /\ UNCHANGED <<wire, sent, rcvd>>
  BY <1>1 DEF Dial
<1>4. /\ session'[n] = s /\ \A m \in Node : m # n => session'[m] = session[m]
      /\ backlog'[p] = s /\ \A m \in Node : m # p => backlog'[m] = backlog[m]
  BY <1>2, <1>3 DEF TypeInv, TypeOK
<1>5. OnConnected(n) \/ UNCHANGED <<link, tp, queue, ping>>
  BY DEF Dial
<1>6. \A m \in Node : m # n => queue'[m] = queue[m] /\ tp'[m] = tp[m] /\ link'[m] = link[m]
  BY <1>5 DEF OnConnected, Become, TypeInv, TypeOK
<1>7. \A m \in Node : wire[s][m] = <<>>
  BY <1>1 DEF Unopened
<1>8. Peer(p) = n
  BY Peers
<1>9. Stream(s, p)' = <<>>
  BY <1>1, <1>2, <1>3, <1>4, <1>7, <1>8 DEF Stream
<1>10. Stream(s, n)' = queue'[n]
  <2>1. queue'[n] \in Seq(Message)
    <3>1. CASE OnConnected(n)
      BY <3>1, GreetingType DEF OnConnected, Greeting, TypeInv, TypeOK
    <3>2. CASE UNCHANGED queue
      BY <3>2 DEF TypeInv, TypeOK
    <3>3. QED
      BY <1>5, <3>1, <3>2
  <2>2. QED
    BY <1>2, <1>3, <1>4, <1>7, <2>1, ConcatEmptySeq DEF Stream
<1>11. OnConnected(n) => queue'[n] = Greeting
  BY DEF OnConnected, Greeting, TypeInv, TypeOK
<1>12. ASSUME NEW r \in Session, NEW m \in Node, r # s
       PROVE  /\ Stream(r, m)' = Stream(r, m)
              /\ Hears(m, r)' => Hears(m, r)
              /\ Joining(m, r)' => Joining(m, r)
              /\ session'[m] = r => session[m] = r
  <2>1. session'[m] = r <=> session[m] = r
    BY <1>2, <1>4, <1>12 DEF Session, NoSession
  <2>2. backlog'[m] = r <=> backlog[m] = r
    BY <1>2, <1>4, <1>12 DEF Session, NoSession
  <2>3. Stream(r, m)' = Stream(r, m)
    <3>1. session[m] = r => queue'[m] = queue[m]
      BY <1>2, <1>6 DEF Session, NoSession
    <3>2. QED
      BY <1>3, <2>1, <3>1 DEF Stream
  <2>4. CASE m # n
    BY <1>6, <2>1, <2>2, <2>3, <2>4 DEF Hears, Attached, Joining
  <2>5. CASE m = n
    <3>1. session[n] # r /\ backlog[n] # r
      BY <1>2 DEF Session, NoSession
    <3>2. QED
      BY <2>1, <2>2, <2>3, <2>5, <3>1 DEF Hears, Attached, Joining
  <2>6. QED
    BY <2>4, <2>5
<1>13. \A m \in Node : tp'[m] = "connected" => m = n \/ tp[m] = "connected"
  BY <1>6
<1>14. session'[p] = session[p] /\ session[p] # s
  BY <1>1, <1>2, <1>4
<1>15. \/ OnConnected(n) /\ Stream(s, n)' = Greeting
       \/ UNCHANGED <<link, tp, queue, ping>> /\ Stream(s, n)' = <<>> /\ tp[n] = "connecting"
  BY <1>2, <1>5, <1>10, <1>11
<1> HIDE DEF p
<1>16. QED
  BY <1>1, <1>2, <1>3, <1>4, <1>9, <1>12, <1>13, <1>14, <1>15 DEF p

LEMMA CloseStreams ==
  ASSUME TypeInv, NEW n \in Node, Closes(n), NEW s \in Session
  PROVE  /\ UNCHANGED <<opened, sent, rcvd, ping>>
         /\ \A m \in Node : m # n => UNCHANGED <<session[m], queue[m], link[m], tp[m]>>
         /\ Stream(s, n)' = wire[s][Peer(n)]
         /\ wire'[s][Peer(n)] = wire[s][Peer(n)]
         /\ ~Hears(n, s)' /\ ~Joining(n, s)' /\ session'[n] # s
         /\ tp'[n] # "connected" /\ link'[n] \notin {"syncing", "connected"}
         /\ Hears(Peer(n), s)' => Hears(Peer(n), s)
         /\ Joining(Peer(n), s)' => Joining(Peer(n), s)
         /\ wire'[s][n] \in {<<>>, wire[s][n]}
<1>1. PICK l \in {"idle", "hosting", "connecting", "error"},
           t \in {"idle", "listening", "connecting", "error"} : Close(n, l, t)
  BY DEF Closes
<1>2. /\ UNCHANGED <<opened, sent, rcvd, ping>>
      /\ session' = [session EXCEPT ![n] = NoSession]
      /\ backlog' = [backlog EXCEPT ![n] = NoSession]
      /\ queue' = [queue EXCEPT ![n] = <<>>]
      /\ link' = [link EXCEPT ![n] = l] /\ tp' = [tp EXCEPT ![n] = t]
  BY <1>1 DEF Close
<1>3. /\ \A m \in Node : m # n => UNCHANGED <<session[m], backlog[m], queue[m], link[m], tp[m]>>
      /\ session'[n] = NoSession /\ backlog'[n] = NoSession /\ tp'[n] = t /\ link'[n] = l
  BY <1>2 DEF TypeInv, TypeOK
<1>4. /\ wire'[s][Peer(n)] = wire[s][Peer(n)]
      /\ wire'[s][n] \in {<<>>, wire[s][n]}
  BY <1>1, Peers DEF Close
<1>5. s # NoSession
  BY DEF Session, NoSession
<1>6. Stream(s, n)' = wire[s][Peer(n)]
  <2>1. wire[s][Peer(n)] \in Seq(Message)
    BY StreamType
  <2>2. QED
    BY <1>3, <1>4, <1>5, <2>1, ConcatEmptySeq DEF Stream
<1>7. /\ Hears(Peer(n), s)' => Hears(Peer(n), s)
      /\ Joining(Peer(n), s)' => Joining(Peer(n), s)
  BY <1>3, Peers DEF Hears, Attached, Joining
<1>8. ~Hears(n, s)' /\ ~Joining(n, s)' /\ session'[n] # s
  BY <1>3, <1>5 DEF Hears, Attached, Joining
<1>9. QED
  BY <1>2, <1>3, <1>4, <1>6, <1>7, <1>8

LEMMA ReadStreams ==
  ASSUME TypeInv, NEW n \in Node, NEW s, session[n] = s, PollRead(n)
  PROVE  \E m \in Message :
            /\ s \in Session /\ Carries(n) /\ tp[n] = "connected"
            /\ UNCHANGED <<tp, session, backlog, opened, sent>>
            /\ \A i \in Node : i # n => UNCHANGED <<link[i], queue[i], ping[i]>>
            /\ Stream(s, Peer(n)) # <<>> /\ m = Head(Stream(s, Peer(n)))
            /\ Stream(s, Peer(n))' = Tail(Stream(s, Peer(n)))
            /\ wire[s][n] # <<>>
            /\ wire' = [wire EXCEPT ![s][n] = Tail(@)]
            /\ \A r \in Session : r # s => Stream(r, Peer(n))' = Stream(r, Peer(n))
            /\ HandleMismatch(n) \/ Handle(n, m)
<1> DEFINE p == Peer(n)
<1>1. s \in Session /\ Carries(n) /\ tp[n] = "connected"
  BY Reading DEF PollRead
<1>2. /\ UNCHANGED <<tp, session, backlog, opened, sent>>
      /\ wire' = [wire EXCEPT ![s][n] = Tail(@)]
      /\ HandleMismatch(n) \/ Handle(n, Head(wire[s][n]))
      /\ wire[s][n] # <<>>
  BY DEF PollRead, Take, Incoming, transport
<1>3. p \in Node /\ p # n /\ Peer(p) = n
  BY Peers
<1>4. wire[s][n] \in Seq(Message) /\ queue[p] \in Seq(Message)
  BY <1>1, <1>3 DEF TypeInv, TypeOK
<1>5. \A i \in Node : i # n => UNCHANGED <<link[i], queue[i], ping[i]>>
  <2>1. CASE HandleMismatch(n)
    BY <2>1 DEF HandleMismatch, Become, TypeInv, TypeOK
  <2>2. CASE Handle(n, Head(wire[s][n]))
    <3> DEFINE h == Head(wire[s][n])
    <3> HIDE DEF h
    <3>1. CASE HandleHello(n, h) \/ HandlePing(n, h) \/ HandleDuplicate(n, h)
      BY <3>1 DEF HandleHello, HandlePing, HandleDuplicate, TypeInv, TypeOK
    <3>2. CASE HandleSample(n, h) \/ HandleBadSample(n, h) \/ HandleEdge(n, h)
      BY <3>2 DEF HandleSample, HandleBadSample, HandleEdge, Become, TypeInv, TypeOK
    <3>3. QED
      BY <2>2, <3>1, <3>2 DEF Handle, h
  <2>3. QED
    BY <1>2, <2>1, <2>2
<1>6. /\ Stream(s, p) = wire[s][n] \o (IF session[p] = s THEN queue[p] ELSE <<>>)
      /\ Stream(s, p)' = Tail(wire[s][n]) \o (IF session[p] = s THEN queue[p] ELSE <<>>)
  <2>1. wire'[s][n] = Tail(wire[s][n])
    BY <1>1, <1>2 DEF TypeInv, TypeOK
  <2>2. QED
    BY <1>2, <1>3, <1>5, <2>1 DEF Stream
<1>7. /\ Stream(s, p) # <<>> /\ Head(wire[s][n]) = Head(Stream(s, p))
      /\ Stream(s, p)' = Tail(Stream(s, p))
  <2> DEFINE rest == IF session[p] = s THEN queue[p] ELSE <<>>
             w    == wire[s][n]
  <2>1. rest \in Seq(Message) /\ w \in Seq(Message) /\ w # <<>>
    BY <1>2, <1>4
  <2>2. Stream(s, p) = w \o rest /\ Stream(s, p)' = Tail(w) \o rest
    BY <1>6
  <2> HIDE DEF rest, w
  <2>3. w \o rest # <<>> /\ Head(w \o rest) = Head(w) /\ Tail(w \o rest) = Tail(w) \o rest
    BY <2>1, TailOfConcat
  <2>4. QED
    BY <2>2, <2>3 DEF w
<1>8. ASSUME NEW r \in Session, r # s PROVE Stream(r, p)' = Stream(r, p)
  <2>1. wire'[r][n] = wire[r][n]
    BY <1>1, <1>2, <1>8 DEF TypeInv, TypeOK
  <2>2. QED
    BY <1>2, <1>3, <1>5, <2>1 DEF Stream
<1>9. Head(wire[s][n]) \in Message
  BY <1>2, <1>4
<1>10. QED
  BY <1>1, <1>2, <1>5, <1>7, <1>8, <1>9

\* The stream of n itself, after a step of n that adds to its write queue.
LEMMA OwnStream ==
  ASSUME TypeInv, NEW n \in Node, NEW q \in Seq(Message), NEW s \in Session, session[n] = s,
         queue' = [queue EXCEPT ![n] = queue[n] \o q], UNCHANGED session,
         \A r \in Session : wire'[r][Peer(n)] = wire[r][Peer(n)]
  PROVE  /\ Stream(s, n)' = Stream(s, n) \o q
         /\ \A r \in Session : r # s => Stream(r, n)' = Stream(r, n)
<1>1. queue'[n] = queue[n] \o q
  BY DEF TypeInv, TypeOK
<1>2. ASSUME NEW r \in Session, r # s PROVE Stream(r, n)' = Stream(r, n)
  BY <1>2 DEF Stream
<1>3. Stream(s, n)' = Stream(s, n) \o q
  <2>1. wire[s][Peer(n)] \in Seq(Message) /\ queue[n] \in Seq(Message)
    BY StreamType
  <2>2. Stream(s, n)' = wire[s][Peer(n)] \o (queue[n] \o q)
    BY <1>1 DEF Stream
  <2>3. Stream(s, n) = wire[s][Peer(n)] \o queue[n]
    BY DEF Stream
  <2>4. \A w, u \in Seq(Message) : (w \o u) \o q = w \o (u \o q)
    BY ConcatAssociative
  <2>5. QED
    BY <2>1, <2>2, <2>3, <2>4
<1>4. QED
  BY <1>2, <1>3

LEMMA EnqueueIsConcat ==
  ASSUME NEW q \in Seq(Message), NEW m \in Message
  PROVE  \E r \in {<<>>, <<m>>} :
            r \in Seq(Message) /\ Enqueue(q, m) = q \o r /\ (Len(q) < Capacity => r = <<m>>)
<1>1. CASE Len(q) < Capacity
  BY <1>1, AppendIsConcat DEF Enqueue
<1>2. CASE ~(Len(q) < Capacity)
  BY <1>2, ConcatEmptySeq DEF Enqueue
<1>3. QED
  BY <1>1, <1>2

\* A message that n handles changes the stream of n only if it is a PING, which
\* gets an answer if there is room.
LEMMA AnswerStream ==
  ASSUME TypeInv, NEW n \in Node, NEW s, session[n] = s, PollRead(n), NEW m \in Message,
         HandleMismatch(n) \/ Handle(n, m)
  PROVE  /\ \A r \in Session : r # s => Stream(r, n)' = Stream(r, n)
         /\ \/ ~HandlePing(n, m) /\ Stream(s, n)' = Stream(s, n) /\ queue' = queue
            \/ /\ HandlePing(n, m)
               /\ \E r \in {<<>>, <<Msg("pong", m.id)>>} :
                     /\ Stream(s, n)' = Stream(s, n) \o r
                     /\ Len(queue[n]) < Capacity => r = <<Msg("pong", m.id)>>
<1>1. /\ s \in Session /\ UNCHANGED session
      /\ \A r \in Session : wire'[r][Peer(n)] = wire[r][Peer(n)]
  <2>1. s \in Session /\ Peer(n) \in Node /\ Peer(n) # n
    BY Reading, Peers DEF PollRead
  <2>2. UNCHANGED session /\ wire' = [wire EXCEPT ![s][n] = Tail(@)]
    BY DEF PollRead, Take, transport
  <2>3. QED
    BY <2>1, <2>2 DEF TypeInv, TypeOK
<1>2. CASE ~HandlePing(n, m)
  <2>1. UNCHANGED queue
    BY <1>2 DEF HandleMismatch, Handle, HandleHello, HandleDuplicate, HandleSample,
                HandleBadSample, HandleEdge
  <2>2. \A r \in Session : Stream(r, n)' = Stream(r, n)
    BY <1>1, <2>1 DEF Stream
  <2>3. QED
    BY <1>1, <1>2, <2>1, <2>2
<1>3. CASE HandlePing(n, m)
  <2>1. Msg("pong", m.id) \in Message /\ queue[n] \in Seq(Message)
    BY MsgType DEF Message, TypeInv, TypeOK
  <2>2. PICK r \in {<<>>, <<Msg("pong", m.id)>>} :
            /\ r \in Seq(Message) /\ Enqueue(queue[n], Msg("pong", m.id)) = queue[n] \o r
            /\ Len(queue[n]) < Capacity => r = <<Msg("pong", m.id)>>
    BY <2>1, EnqueueIsConcat
  <2>3. queue' = [queue EXCEPT ![n] = queue[n] \o r]
    BY <1>3, <2>2 DEF HandlePing
  <2>4. /\ Stream(s, n)' = Stream(s, n) \o r
        /\ \A v \in Session : v # s => Stream(v, n)' = Stream(v, n)
    BY <1>1, <2>2, <2>3, OwnStream
  <2>5. QED
    BY <1>3, <2>2, <2>4
<1>4. QED
  BY <1>2, <1>3

\* The link of n takes the edges t, and sends the messages r.
Drains(n, s, t, r) ==
    /\ s \in Session /\ Carries(n) /\ tp[n] = "connected"
    /\ UNCHANGED <<tp, session, backlog, opened, wire, link, rcvd>>
    /\ link[n] # "connected" => t = <<>>
    /\ sent'[s][n] = sent[s][n] \o t
    /\ \A v \in Session, i \in Node : v # s \/ i # n => sent'[v][i] = sent[v][i]
    /\ sent' = [sent EXCEPT ![s][n] = @ \o t]
    /\ Stream(s, n)' = Stream(s, n) \o (Edges(t) \o r)
    /\ \A v \in Session : Stream(v, Peer(n))' = Stream(v, Peer(n))
    /\ \A v \in Session : v # s => Stream(v, n)' = Stream(v, n)
    /\ \A i \in Node : i # n => UNCHANGED <<queue[i], ping[i]>>
    /\ queue'[n] = queue[n] \o (Edges(t) \o r)
    /\ r \in {<<>>, <<Msg("ping", ping'[n].id)>>}
    /\ \/ r = <<>> /\ UNCHANGED ping
       \/ (~ping[n].outstanding \/ "timeout" \in Faults) /\ ping'[n].outstanding

LEMMA EndReadStreams ==
  ASSUME TypeInv, NEW n \in Node, NEW s, session[n] = s, EndRead(n)
  PROVE  \E t \in Seq(Nat), r \in Seq(Message) : Drains(n, s, t, r)
<1>1. s \in Session /\ Carries(n) /\ tp[n] = "connected"
  BY Reading DEF EndRead
<1>2. UNCHANGED <<tp, session, backlog, opened, wire, link, rcvd>>
  BY DEF EndRead, transport
<1>3. PICK t \in Seq(Nat) :
            /\ link[n] # "connected" => t = <<>>
            /\ sent' = [sent EXCEPT ![session[n]][n] = @ \o t]
            /\ PingNow(n, queue[n] \o Edges(t)) \/ NoPingNow(n, queue[n] \o Edges(t))
  BY EndReadTakes
<1> DEFINE q == queue[n] \o Edges(t)
<1>4. queue[n] \in Seq(Message) /\ Edges(t) \in Seq(Message) /\ q \in Seq(Message)
  BY EdgesType, ConcatProperties DEF TypeInv, TypeOK
<1> HIDE DEF q
<1>5. \E r \in Seq(Message) :
         /\ queue' = [queue EXCEPT ![n] = q \o r]
         /\ \A i \in Node : i # n => UNCHANGED ping[i]
         /\ \/ r = <<>> /\ UNCHANGED ping
            \/ /\ ~ping[n].outstanding \/ "timeout" \in Faults
               /\ ping'[n].outstanding
               /\ r \in {<<>>, <<Msg("ping", ping'[n].id)>>}
  <2>1. CASE PingNow(n, q)
    <3>1. /\ ping' = [ping EXCEPT ![n] = [outstanding |-> TRUE, id |-> ping[n].id + 1]]
          /\ queue' = [queue EXCEPT ![n] = Enqueue(q, Msg("ping", ping'[n].id))]
          /\ ~ping[n].outstanding \/ "timeout" \in Faults
      BY <2>1 DEF PingNow
    <3>2. /\ ping'[n].outstanding /\ ping'[n].id \in Nat
          /\ \A i \in Node : i # n => UNCHANGED ping[i]
      BY <3>1 DEF TypeInv, TypeOK
    <3>3. Msg("ping", ping'[n].id) \in Message
      BY <3>2, MsgType
    <3>4. PICK r \in {<<>>, <<Msg("ping", ping'[n].id)>>} :
              r \in Seq(Message) /\ Enqueue(q, Msg("ping", ping'[n].id)) = q \o r
      BY <1>4, <3>3, EnqueueIsConcat
    <3>5. queue' = [queue EXCEPT ![n] = q \o r]
      BY <3>1, <3>4
    <3>6. QED
      BY <3>1, <3>2, <3>4, <3>5
  <2>2. CASE NoPingNow(n, q)
    <3>1. UNCHANGED ping /\ queue' = [queue EXCEPT ![n] = q \o <<>>]
      BY <1>4, <2>2, ConcatEmptySeq DEF NoPingNow
    <3>2. <<>> \in Seq(Message) /\ \A i \in Node : UNCHANGED ping[i]
      BY <3>1
    <3>3. QED
      BY <3>1, <3>2
  <2>3. QED
    BY <1>3, <2>1, <2>2 DEF q
<1>6. PICK r \in Seq(Message) :
         /\ queue' = [queue EXCEPT ![n] = q \o r]
         /\ \A i \in Node : i # n => UNCHANGED ping[i]
         /\ \/ r = <<>> /\ UNCHANGED ping
            \/ /\ ~ping[n].outstanding \/ "timeout" \in Faults
               /\ ping'[n].outstanding
               /\ r \in {<<>>, <<Msg("ping", ping'[n].id)>>}
  BY <1>5
<1> DEFINE added == Edges(t) \o r
<1>7. added \in Seq(Message) /\ queue' = [queue EXCEPT ![n] = queue[n] \o added]
  <2>1. (queue[n] \o Edges(t)) \o r = queue[n] \o added
    <3>1. \A u, v, w \in Seq(Message) : (u \o v) \o w = u \o (v \o w)
      BY ConcatAssociative, SMTT(30)
    <3>2. QED
      BY <1>4, <1>6, <3>1
  <2>2. QED
    BY <1>4, <1>6, <2>1, ConcatProperties DEF q
<1> HIDE DEF added
<1>8. /\ Stream(s, n)' = Stream(s, n) \o added
      /\ \A v \in Session : v # s => Stream(v, n)' = Stream(v, n)
  BY <1>1, <1>2, <1>7, OwnStream
<1>9. \A i \in Node : i # n => UNCHANGED <<queue[i], ping[i]>>
  BY <1>6, <1>7 DEF TypeInv, TypeOK
<1>10. \A v \in Session : Stream(v, Peer(n))' = Stream(v, Peer(n))
  BY <1>2, <1>9, Peers DEF Stream
<1>11. queue'[n] = queue[n] \o added
  BY <1>7 DEF TypeInv, TypeOK
<1>12. /\ sent'[s][n] = sent[s][n] \o t
       /\ \A v \in Session, i \in Node : v # s \/ i # n => sent'[v][i] = sent[v][i]
  BY <1>1, <1>3 DEF TypeInv, TypeOK
<1>13. QED
  <2>1. r \in {<<>>, <<Msg("ping", ping'[n].id)>>}
    BY <1>6
  <2>2. \/ r = <<>> /\ UNCHANGED ping
        \/ (~ping[n].outstanding \/ "timeout" \in Faults) /\ ping'[n].outstanding
    BY <1>6
  <2>3. Drains(n, s, t, r)
    BY <1>1, <1>2, <1>3, <1>8, <1>9, <1>10, <1>11, <1>12, <2>1, <2>2 DEF Drains, added
  <2>4. QED
    BY <1>6, <2>3

LEMMA WriteStreams ==
  ASSUME TypeInv, NEW n \in Node, NEW s, session[n] = s, PollWrite(n)
  PROVE  /\ s \in Session /\ Carries(n) /\ tp[n] = "connected"
         /\ UNCHANGED <<link, tp, session, backlog, opened, sent, rcvd, ping>>
         /\ \A v \in Session, m \in Node :
               /\ Attached(Peer(m), v) => Alike(Stream(v, m), Stream(v, m)')
               /\ Joining(m, v) => wire'[v][Peer(m)] = wire[v][Peer(m)]
               /\ v # s => wire'[v][m] = wire[v][m]
         /\ \A m \in Node : Len(queue'[m]) <= Len(queue[m])
<1>1. s \in Session /\ Carries(n) /\ tp[n] = "connected" /\ Peer(n) \in Node /\ Peer(n) # n
  BY Reading, Peers DEF PollWrite
<1>2. UNCHANGED <<link, tp, session, backlog, opened, sent, rcvd, ping>>
  BY DEF PollWrite, transport
<1>3. PICK head \in Seq(Message), k \in 1..Len(queue[n]) :
            /\ Alike(queue[n], head)
            /\ queue' = [queue EXCEPT ![n] = SubSeq(queue[n], k + 1, Len(queue[n]))]
            /\ IF Attached(Peer(n), session[n])
               THEN wire' = [wire EXCEPT ![session[n]][Peer(n)] = @ \o SubSeq(head, 1, k)]
               ELSE UNCHANGED wire
  BY PollWriteTakes
<1>4. queue[n] \in Seq(Message) /\ wire[s][Peer(n)] \in Seq(Message)
  BY <1>1, StreamType
<1> DEFINE a == SubSeq(head, 1, k)
           b == SubSeq(queue[n], k + 1, Len(queue[n]))
<1>5. /\ a \in Seq(Message) /\ b \in Seq(Message)
      /\ Alike(wire[s][Peer(n)] \o queue[n], (wire[s][Peer(n)] \o a) \o b)
  BY <1>3, <1>4, MovedIsAlike
<1> HIDE DEF a, b
<1>6. /\ queue'[n] = b /\ \A m \in Node : m # n => queue'[m] = queue[m]
      /\ \A v \in Session, m \in Node : v # s \/ m # Peer(n) => wire'[v][m] = wire[v][m]
      /\ Attached(Peer(n), s) => wire'[s][Peer(n)] = wire[s][Peer(n)] \o a
  <2>1. queue' = [queue EXCEPT ![n] = b]
    BY <1>3 DEF b
  <2>2. IF Attached(Peer(n), s)
        THEN wire' = [wire EXCEPT ![s][Peer(n)] = wire[s][Peer(n)] \o a] ELSE UNCHANGED wire
    BY <1>3 DEF a
  <2>3. /\ queue'[n] = b /\ \A m \in Node : m # n => queue'[m] = queue[m]
        /\ wire \in [Session -> [Node -> Seq(Message)]]
    BY <2>1 DEF TypeInv, TypeOK
  <2>4. CASE Attached(Peer(n), s)
    <3>1. wire[s][Peer(n)] \o a \in Seq(Message)
      BY <1>4, <1>5, ConcatProperties
    <3>2. wire' = [wire EXCEPT ![s][Peer(n)] = wire[s][Peer(n)] \o a]
      BY <2>2, <2>4
    <3>3. \A v \in Session, m \in Node :
              wire'[v][m] = IF v = s /\ m = Peer(n) THEN wire[s][Peer(n)] \o a
                            ELSE wire[v][m]
      BY <1>1, <2>3, <3>1, <3>2, TableUpdate
    <3>4. QED
      BY <1>1, <2>3, <3>3
  <2>5. CASE ~Attached(Peer(n), s)
    BY <2>2, <2>3, <2>5
  <2>6. QED
    BY <2>4, <2>5
<1>7. ASSUME NEW v \in Session, NEW m \in Node, Attached(Peer(m), v)
      PROVE  Alike(Stream(v, m), Stream(v, m)')
  <2>1. CASE v = s /\ m = n
    <3>1. /\ Stream(s, n) = wire[s][Peer(n)] \o queue[n]
          /\ Stream(s, n)' = (wire[s][Peer(n)] \o a) \o b
      BY <1>2, <1>6, <1>7, <2>1 DEF Stream
    <3>2. QED
      BY <1>5, <2>1, <3>1
  <2>2. CASE ~(v = s /\ m = n)
    <3>1. wire'[v][Peer(m)] = wire[v][Peer(m)]
      BY <1>1, <1>6, <2>2, Peers
    <3>2. session[m] = v => queue'[m] = queue[m]
      BY <1>6, <2>2
    <3>3. Stream(v, m)' = Stream(v, m)
      BY <1>2, <3>1, <3>2 DEF Stream
    <3>4. QED
      BY <3>3 DEF Alike
  <2>3. QED
    BY <2>1, <2>2
<1>8. ASSUME NEW v \in Session, NEW m \in Node, Joining(m, v)
      PROVE  wire'[v][Peer(m)] = wire[v][Peer(m)]
  <2>1. m # n
    BY <1>1, <1>8 DEF Joining
  <2>2. QED
    BY <1>1, <1>6, <2>1, Peers
<1>9. Len(b) <= Len(queue[n])
  <2>1. \A i \in k + 1..Len(queue[n]) : queue[n][i] \in Message
    BY <1>4, ElementOfSeq
  <2>2. Len(b) = IF k + 1 <= Len(queue[n]) THEN Len(queue[n]) - (k + 1) + 1 ELSE 0
    BY <1>4, <2>1, SubSeqProperties DEF b
  <2>3. QED
    BY <1>4, <2>2
<1>10. \A m \in Node : Len(queue'[m]) <= Len(queue[m])
  <2>1. \A m \in Node : Len(queue[m]) \in Nat
    BY DEF TypeInv, TypeOK
  <2>2. QED
    BY <1>6, <1>9, <2>1
<1>11. QED
  BY <1>1, <1>2, <1>6, <1>7, <1>8, <1>10

-----------------------------------------------------------------------------
(* The order of the edges                                                     *)

\* An instance that does not read or write yet has sent nothing.
Silent ==
    \A s \in Session, n \in Node :
        Joining(n, s) => wire[s][Peer(n)] = <<>> /\ sent[s][n] = <<>>

\* The stream of n has the edges of n that the core of the peer did not get: all
\* of them, while n keeps the connection.
InOrderAt(s, n) ==
    Hears(Peer(n), s) =>
        \E to \in 0..Len(sent[s][n]) :
            /\ Delivers(Stream(s, n), Len(rcvd[s][Peer(n)]), to, sent[s][n])
            /\ session[n] = s => to = Len(sent[s][n])

InOrder == \A s \in Session, n \in Node : InOrderAt(s, n)

ChannelInv == TypeInv /\ Unopened /\ Silent /\ InOrder

\* What a received message does to rcvd.
LEMMA ReadRcvd ==
  ASSUME TypeInv, NEW n \in Node, NEW s \in Session, session[n] = s, NEW m \in Message,
         HandleMismatch(n) \/ Handle(n, m)
  PROVE  \/ m.kind # "edge" /\ UNCHANGED rcvd
         \/ /\ m.kind = "edge" /\ rcvd'[s][n] = Append(rcvd[s][n], m.id)
            /\ \A v \in Session, i \in Node : v # s \/ i # n => rcvd'[v][i] = rcvd[v][i]
         \/ HandleMismatch(n) /\ UNCHANGED rcvd
<1>1. CASE HandleMismatch(n)
  BY <1>1 DEF HandleMismatch
<1>2. CASE HandleHello(n, m) \/ HandlePing(n, m) \/ HandleDuplicate(n, m)
  BY <1>2 DEF HandleHello, HandlePing, HandleDuplicate
<1>3. CASE HandleSample(n, m) \/ HandleBadSample(n, m)
  BY <1>3 DEF HandleSample, HandleBadSample
<1>4. CASE HandleEdge(n, m)
  <2>1. rcvd' = [rcvd EXCEPT ![s][n] = Append(rcvd[s][n], m.id)] /\ m.kind = "edge"
    BY <1>4 DEF HandleEdge
  <2>2. Append(rcvd[s][n], m.id) \in Seq(Nat) /\ rcvd \in [Session -> [Node -> Seq(Nat)]]
    <3>1. rcvd[s][n] \in Seq(Nat) /\ m.id \in Nat
      BY DEF TypeInv, TypeOK, Message
    <3>2. QED
      BY <3>1, AppendProperties DEF TypeInv, TypeOK
  <2>3. \A v \in Session, i \in Node :
            rcvd'[v][i] = IF v = s /\ i = n THEN Append(rcvd[s][n], m.id) ELSE rcvd[v][i]
    BY <2>1, <2>2, TableUpdate
  <2>4. rcvd'[s][n] = Append(rcvd[s][n], m.id)
    BY <2>3
  <2>5. ASSUME NEW v \in Session, NEW i \in Node, v # s \/ i # n
        PROVE  rcvd'[v][i] = rcvd[v][i]
    BY <2>3, <2>5
  <2>6. QED
    BY <2>1, <2>4, <2>5
<1>5. QED
  BY <1>1, <1>2, <1>3, <1>4 DEF Handle

LEMMA UnopenedStep ==
  ASSUME TypeInv, Unopened, [Next]_vars
  PROVE  Unopened'
<1> SUFFICES ASSUME NEW s \in Session, NEW n \in Node, s > opened'
             PROVE  wire'[s][n] = <<>> /\ sent'[s][n] = <<>> /\ rcvd'[s][n] = <<>>
  BY DEF Unopened
<1>1. opened \in Nat /\ s \in Nat /\ \A m \in Node : session[m] <= opened
  BY DEF TypeInv, TypeOK, StateOfLink, Session
<1>2. s > opened => wire[s][n] = <<>> /\ sent[s][n] = <<>> /\ rcvd[s][n] = <<>>
  BY DEF Unopened
<1>3. CASE Quiet
  BY <1>2, <1>3 DEF Quiet
<1>4. ASSUME NEW m \in Node, Closes(m) PROVE wire'[s][n] = <<>> /\ sent'[s][n] = <<>> /\ rcvd'[s][n] = <<>>
  <2>1. n = m \/ n = Peer(m)
    BY Peers
  <2>2. QED
    BY <1>2, <1>4, <2>1, CloseStreams
<1>5. ASSUME NEW m \in Node, Dial(m) PROVE wire'[s][n] = <<>> /\ sent'[s][n] = <<>> /\ rcvd'[s][n] = <<>>
  <2>1. opened' = opened + 1 /\ UNCHANGED <<wire, sent, rcvd>>
    BY <1>5 DEF Dial
  <2>2. QED
    BY <1>1, <1>2, <2>1
<1>6. ASSUME NEW m \in Node, PollRead(m) PROVE wire'[s][n] = <<>> /\ sent'[s][n] = <<>> /\ rcvd'[s][n] = <<>>
  <2>1. PICK h \in Message :
            /\ session[m] \in Session /\ UNCHANGED <<opened, sent>>
            /\ wire' = [wire EXCEPT ![session[m]][m] = Tail(@)]
            /\ HandleMismatch(m) \/ Handle(m, h)
    BY <1>6, ReadStreams
  <2>2. s # session[m]
    BY <1>1, <2>1
  <2>3. rcvd'[s][n] = rcvd[s][n]
    BY <2>1, <2>2, ReadRcvd
  <2>4. QED
    BY <1>2, <2>1, <2>2, <2>3 DEF TypeInv, TypeOK
<1>7. ASSUME NEW m \in Node, EndRead(m) PROVE wire'[s][n] = <<>> /\ sent'[s][n] = <<>> /\ rcvd'[s][n] = <<>>
  <2>0. PICK t \in Seq(Nat), q \in Seq(Message) : Drains(m, session[m], t, q)
    BY <1>7, EndReadStreams
  <2>1. /\ session[m] \in Session /\ UNCHANGED <<opened, wire, rcvd>>
        /\ \A v \in Session, i \in Node :
              v # session[m] \/ i # m => sent'[v][i] = sent[v][i]
    BY <2>0 DEF Drains
  <2>2. s # session[m]
    BY <1>1, <2>1
  <2>3. QED
    BY <1>2, <2>1, <2>2 DEF TypeInv, TypeOK
<1>8. ASSUME NEW m \in Node, PollWrite(m) PROVE wire'[s][n] = <<>> /\ sent'[s][n] = <<>> /\ rcvd'[s][n] = <<>>
  <2>1. /\ UNCHANGED <<opened, sent, rcvd>>
        /\ s # session[m] => wire'[s][n] = wire[s][n]
    BY <1>8, WriteStreams
  <2>2. QED
    BY <1>1, <1>2, <2>1
<1>9. ASSUME NEW m \in Node, NEW r \in Session, Joins(m, r)
      PROVE wire'[s][n] = <<>> /\ sent'[s][n] = <<>> /\ rcvd'[s][n] = <<>>
  BY <1>2, <1>9 DEF Joins
<1>10. QED
  BY <1>3, <1>4, <1>5, <1>6, <1>7, <1>8, <1>9, StepKinds

LEMMA SilentStep ==
  ASSUME TypeInv, Unopened, Silent, [Next]_vars
  PROVE  Silent'
<1> SUFFICES ASSUME NEW s \in Session, NEW n \in Node, Joining(n, s)'
             PROVE  wire'[s][Peer(n)] = <<>> /\ sent'[s][n] = <<>>
  BY DEF Silent
<1>1. Joining(n, s) => wire[s][Peer(n)] = <<>> /\ sent[s][n] = <<>>
  BY DEF Silent
<1>2. Peer(n) \in Node /\ Peer(n) # n
  BY Peers
<1>3. CASE Quiet
  BY <1>1, <1>3, QuietStreams DEF Quiet
<1>4. ASSUME NEW m \in Node, Closes(m) PROVE wire'[s][Peer(n)] = <<>> /\ sent'[s][n] = <<>>
  <2>1. n = Peer(m) /\ Peer(n) = m
    BY <1>4, CloseStreams, Peers
  <2>2. QED
    BY <1>1, <1>4, <2>1, CloseStreams
<1>5. ASSUME NEW m \in Node, Dial(m) PROVE wire'[s][Peer(n)] = <<>> /\ sent'[s][n] = <<>>
  <2>1. PICK r \in Session :
            /\ r = opened + 1 /\ UNCHANGED <<wire, sent>>
            /\ s # r => (Joining(n, s)' => Joining(n, s))
    BY <1>5, DialStreams
  <2>2. CASE s = r
    <3>1. s > opened
      BY <2>1, <2>2 DEF TypeInv, TypeOK
    <3>2. QED
      BY <1>2, <2>1, <3>1 DEF Unopened
  <2>3. CASE s # r
    BY <1>1, <2>1, <2>3
  <2>4. QED
    BY <2>2, <2>3
<1>6. ASSUME NEW m \in Node, PollRead(m) PROVE wire'[s][Peer(n)] = <<>> /\ sent'[s][n] = <<>>
  <2>1. PICK h \in Message :
            /\ session[m] \in Session
            /\ UNCHANGED <<tp, session, backlog, sent>>
            /\ wire[session[m]][m] # <<>>
            /\ wire' = [wire EXCEPT ![session[m]][m] = Tail(@)]
    BY <1>6, ReadStreams
  <2>2. Joining(n, s)
    BY <2>1 DEF Joining
  <2>3. wire'[s][Peer(n)] = wire[s][Peer(n)]
    <3>1. ~(s = session[m] /\ Peer(n) = m)
      BY <1>1, <2>1, <2>2
    <3>2. QED
      BY <1>2, <2>1, <3>1 DEF TypeInv, TypeOK
  <2>4. QED
    BY <1>1, <2>1, <2>2, <2>3
<1>7. ASSUME NEW m \in Node, EndRead(m) PROVE wire'[s][Peer(n)] = <<>> /\ sent'[s][n] = <<>>
  <2>0. PICK t \in Seq(Nat), q \in Seq(Message) : Drains(m, session[m], t, q)
    BY <1>7, EndReadStreams
  <2>1. /\ session[m] \in Session /\ tp[m] = "connected"
        /\ UNCHANGED <<tp, session, backlog, wire>>
        /\ \A v \in Session, i \in Node :
              v # session[m] \/ i # m => sent'[v][i] = sent[v][i]
    BY <2>0 DEF Drains
  <2>2. Joining(n, s) /\ n # m
    BY <2>1 DEF Joining
  <2>3. QED
    BY <1>1, <2>1, <2>2 DEF TypeInv, TypeOK
<1>8. ASSUME NEW m \in Node, PollWrite(m) PROVE wire'[s][Peer(n)] = <<>> /\ sent'[s][n] = <<>>
  <2>1. /\ UNCHANGED <<tp, session, backlog, sent>>
        /\ Joining(n, s) => wire'[s][Peer(n)] = wire[s][Peer(n)]
    BY <1>8, WriteStreams
  <2>2. Joining(n, s)
    BY <2>1 DEF Joining
  <2>3. QED
    BY <1>1, <2>1, <2>2
<1>9. ASSUME NEW m \in Node, NEW r \in Session, Joins(m, r)
      PROVE  wire'[s][Peer(n)] = <<>> /\ sent'[s][n] = <<>>
  <2>1. UNCHANGED <<wire, sent>>
    BY <1>9 DEF Joins
  <2>2. Joining(n, s)
    BY <1>9, JoinsStreams
  <2>3. QED
    BY <1>1, <2>1, <2>2
<1>10. QED
  BY <1>3, <1>4, <1>5, <1>6, <1>7, <1>8, <1>9, StepKinds

LEMMA LogType ==
  ASSUME TypeInv, NEW s \in Session, NEW n \in Node
  PROVE  /\ sent[s][n] \in Seq(Nat) /\ rcvd[s][n] \in Seq(Nat)
         /\ Len(sent[s][n]) \in Nat /\ Len(rcvd[s][n]) \in Nat
  BY DEF TypeInv, TypeOK

LEMMA GreetingDelivers ==
  ASSUME NEW log \in Seq(Nat), NEW from \in 0..Len(log)
  PROVE  Delivers(Greeting, from, from, log)
<1> DEFINE f == [i \in 1..3 |-> from]
<1>1. f \in [1..Len(Greeting) + 1 -> 0..Len(log)] /\ f[1] = from /\ f[Len(Greeting) + 1] = from
  BY GreetingType
<1>2. Counts(f, Greeting, log)
  BY GreetingType DEF Counts, Passes
<1> HIDE DEF f
<1>3. QED
  BY <1>1, <1>2 DEF Delivers

LEMMA EmptyDelivers ==
  /\ <<>> \in Seq(Nat) /\ 0 \in 0..Len(<<>>) /\ Len(<<>>) = 0
  /\ Delivers(Greeting, 0, 0, <<>>) /\ Delivers(<<>>, 0, 0, <<>>)
<1>1. <<>> \in Seq(Nat) /\ Len(<<>>) = 0
  OBVIOUS
<1>2. 0 \in 0..Len(<<>>)
  BY <1>1
<1>3. \A log \in Seq(Nat) : \A from \in 0..Len(log) :
          Delivers(Greeting, from, from, log) /\ Delivers(<<>>, from, from, log)
  BY GreetingDelivers, DeliversNothing
<1>4. QED
  BY <1>1, <1>2, <1>3

\* A step that leaves the messages of the stream, and both ends of the log.
LEMMA OrderKept ==
  ASSUME NEW s \in Session, NEW n \in Node, InOrderAt(s, n), Hears(Peer(n), s),
         Alike(Stream(s, n), Stream(s, n)'), session'[n] = s => session[n] = s,
         sent'[s][n] = sent[s][n], rcvd'[s][Peer(n)] = rcvd[s][Peer(n)]
  PROVE  InOrderAt(s, n)'
<1>1. PICK to \in 0..Len(sent[s][n]) :
          /\ Delivers(Stream(s, n), Len(rcvd[s][Peer(n)]), to, sent[s][n])
          /\ session[n] = s => to = Len(sent[s][n])
  BY DEF InOrderAt
<1>2. Delivers(Stream(s, n)', Len(rcvd'[s][Peer(n)]), to, sent'[s][n])
  BY <1>1, DeliversAlike
<1>3. QED
  BY <1>1, <1>2 DEF InOrderAt

\* The sender adds messages, which have the edges t of its core.
LEMMA OrderExtended ==
  ASSUME TypeInv, NEW s \in Session, NEW n \in Node, InOrderAt(s, n), Hears(Peer(n), s),
         session[n] = s \/ sent[s][n] = <<>>,
         NEW t \in Seq(Nat), NEW q \in Seq(Message),
         Delivers(q, Len(sent[s][n]), Len(sent[s][n] \o t), sent[s][n] \o t),
         Stream(s, n)' = Stream(s, n) \o q,
         sent'[s][n] = sent[s][n] \o t, rcvd'[s][Peer(n)] = rcvd[s][Peer(n)]
  PROVE  InOrderAt(s, n)'
<1> DEFINE log == sent[s][n]
           got == Len(rcvd[s][Peer(n)])
<1>1. PICK to \in 0..Len(log) :
          Delivers(Stream(s, n), got, to, log) /\ (session[n] = s => to = Len(log))
  BY DEF InOrderAt
<1>2. log \in Seq(Nat) /\ Len(log) \in Nat /\ got \in Nat /\ Len(t) \in Nat
  BY LogType, Peers
<1>3. to = Len(log)
  <2>1. CASE session[n] = s
    BY <1>1, <2>1
  <2>2. CASE log = <<>>
    BY <1>1, <2>2
  <2>3. QED
    BY <2>1, <2>2
<1>4. Stream(s, n) \in Seq(Message)
  BY StreamType
<1>5. log \o t \in Seq(Nat) /\ Len(log \o t) = Len(log) + Len(t)
  BY <1>2, ConcatProperties
<1> HIDE DEF log, got
<1>6. Delivers(Stream(s, n), got, Len(log), log \o t)
  BY <1>1, <1>2, <1>3, <1>4, DeliversLonger
<1>7. Delivers(q, Len(log), Len(log \o t), log \o t)
  BY DEF log
<1>8. Delivers(Stream(s, n) \o q, got, Len(log \o t), log \o t)
  <2> DEFINE longer == log \o t
  <2>1. Len(longer) \in Nat /\ longer \in Seq(Nat)
    BY <1>2, <1>5
  <2>2. Delivers(Stream(s, n), got, Len(log), longer) /\ Delivers(q, Len(log), Len(longer), longer)
    BY <1>6, <1>7
  <2> HIDE DEF longer
  <2>3. Delivers(Stream(s, n) \o q, got, Len(longer), longer)
    BY <1>2, <1>4, <2>1, <2>2, DeliversConcat
  <2>4. QED
    BY <2>3 DEF longer
<1>9. Delivers(Stream(s, n)', Len(rcvd'[s][Peer(n)]), Len(sent'[s][n]), sent'[s][n])
  BY <1>8 DEF log, got
<1>10. Len(sent'[s][n]) \in 0..Len(sent'[s][n])
  BY <1>2, <1>5 DEF log
<1>11. QED
  BY <1>9, <1>10 DEF InOrderAt

\* The receiver takes the first message.
LEMMA OrderTaken ==
  ASSUME TypeInv, NEW s \in Session, NEW n \in Node, InOrderAt(s, n), Hears(Peer(n), s),
         NEW m \in Message, Stream(s, n) # <<>>, m = Head(Stream(s, n)),
         Stream(s, n)' = Tail(Stream(s, n)), session'[n] = session[n],
         sent'[s][n] = sent[s][n],
         IF m.kind = "edge" THEN rcvd'[s][Peer(n)] = Append(rcvd[s][Peer(n)], m.id)
                            ELSE rcvd'[s][Peer(n)] = rcvd[s][Peer(n)]
  PROVE  /\ InOrderAt(s, n)'
         /\ m.kind = "edge" => /\ Len(rcvd[s][Peer(n)]) < Len(sent[s][n])
                               /\ m.id = sent[s][n][Len(rcvd[s][Peer(n)]) + 1]
<1> DEFINE log == sent[s][n]
           got == Len(rcvd[s][Peer(n)])
           q   == Stream(s, n)
<1>1. PICK to \in 0..Len(log) :
          Delivers(q, got, to, log) /\ (session[n] = s => to = Len(log))
  BY DEF InOrderAt
<1>2. log \in Seq(Nat) /\ got \in Nat /\ to \in Nat /\ q \in Seq(Message)
  BY LogType, Peers, StreamType
<1> HIDE DEF log, got, q
<1>3. IF Head(q).kind = "edge"
      THEN /\ got < Len(log) /\ log[got + 1] = Head(q).id
           /\ Delivers(Tail(q), got + 1, to, log)
      ELSE Delivers(Tail(q), got, to, log)
  <2>1. q # <<>>
    BY DEF q
  <2>2. QED
    BY <1>1, <1>2, <2>1, DeliversHead
<1>4. m = Head(q)
  BY DEF q
<1>5. Len(rcvd'[s][Peer(n)]) = IF m.kind = "edge" THEN got + 1 ELSE got
  BY LogType, Peers, AppendProperties, SMTT(30) DEF got, Message
<1>6. Delivers(Tail(q), Len(rcvd'[s][Peer(n)]), to, log)
  BY <1>3, <1>4, <1>5
<1>7. InOrderAt(s, n)'
  BY <1>1, <1>6 DEF InOrderAt, log, q
<1>8. QED
  BY <1>3, <1>4, <1>7 DEF log, got

LEMMA InOrderStep ==
  ASSUME ChannelInv, [Next]_vars
  PROVE  InOrder'
<1> SUFFICES ASSUME NEW s \in Session, NEW n \in Node, Hears(Peer(n), s)'
             PROVE  InOrderAt(s, n)'
  BY DEF InOrder, InOrderAt
<1> DEFINE p == Peer(n)
<1>1. TypeInv /\ Unopened /\ Silent /\ InOrderAt(s, n)
  BY DEF ChannelInv, InOrder
<1>2. p \in Node /\ p # n /\ Peer(p) = n /\ \A m \in Node : m = n \/ m = p
  BY Peers
<1>3. Stream(s, n)' = Stream(s, n) => Alike(Stream(s, n), Stream(s, n)')
  BY DEF Alike
<1>4. CASE Quiet
  <2>1. /\ Hears(p, s) /\ Stream(s, n)' = Stream(s, n)
        /\ session'[n] = s => session[n] = s
    BY <1>1, <1>2, <1>4, QuietStreams
  <2>2. QED
    BY <1>1, <1>3, <1>4, <2>1, OrderKept DEF Quiet
<1>5. ASSUME NEW m \in Node, Closes(m) PROVE InOrderAt(s, n)'
  <2>1. m = n /\ Hears(p, s)
    BY <1>1, <1>2, <1>5, CloseStreams
  <2>2. /\ UNCHANGED <<sent, rcvd>> /\ Stream(s, n)' = wire[s][p] /\ session'[n] # s
    BY <1>1, <1>5, <2>1, CloseStreams
  <2> DEFINE rest == IF session[n] = s THEN queue[n] ELSE <<>>
  <2>3. wire[s][p] \in Seq(Message) /\ rest \in Seq(Message) /\ Stream(s, n) = wire[s][p] \o rest
    BY <1>1, StreamType DEF Stream
  <2>4. sent[s][n] \in Seq(Nat) /\ Len(rcvd[s][p]) \in Nat
    BY <1>1, <1>2, LogType
  <2> HIDE DEF rest
  <2>5. PICK to \in 0..Len(sent[s][n]) :
            Delivers(wire[s][p] \o rest, Len(rcvd[s][p]), to, sent[s][n])
    BY <1>1, <2>1, <2>3 DEF InOrderAt
  <2>6. \E mid \in 0..Len(sent[s][n]) : Delivers(wire[s][p], Len(rcvd[s][p]), mid, sent[s][n])
    <3>1. to \in Nat
      BY <2>5
    <3>2. QED
      BY <2>3, <2>4, <2>5, <3>1, DeliversPrefix
  <2>7. QED
    BY <2>2, <2>6 DEF InOrderAt
<1>6. ASSUME NEW m \in Node, Dial(m) PROVE InOrderAt(s, n)'
  <2>1. PICK r \in Session :
            /\ r = opened + 1 /\ UNCHANGED <<sent, rcvd>>
            /\ s = r => Stream(s, n)' \in {Greeting, <<>>}
            /\ s # r => /\ Stream(s, n)' = Stream(s, n) /\ (Hears(p, s)' => Hears(p, s))
                        /\ (session'[n] = s => session[n] = s)
    <3>1. n = m \/ n = Peer(m)
      BY Peers
    <3>2. QED
      BY <1>1, <1>2, <1>6, <3>1, DialStreams
  <2>2. CASE s = r
    <3>1. sent[s][n] = <<>> /\ rcvd[s][p] = <<>>
      BY <1>1, <1>2, <2>1, <2>2 DEF Unopened, TypeInv, TypeOK
    <3>2. /\ <<>> \in Seq(Nat) /\ 0 \in 0..Len(<<>>) /\ Len(<<>>) = 0
          /\ Delivers(Greeting, 0, 0, <<>>) /\ Delivers(<<>>, 0, 0, <<>>)
      BY EmptyDelivers
    <3>3. QED
      BY <2>1, <2>2, <3>1, <3>2 DEF InOrderAt
  <2>3. CASE s # r
    BY <1>1, <1>3, <2>1, <2>3, OrderKept
  <2>4. QED
    BY <2>2, <2>3
<1>7. ASSUME NEW m \in Node, PollRead(m) PROVE InOrderAt(s, n)'
  <2> DEFINE r == session[m]
  <2>1. PICK h \in Message :
            /\ r \in Session /\ Carries(m)
            /\ UNCHANGED <<session, backlog, sent>>
            /\ \A i \in Node : i # m => UNCHANGED link[i]
            /\ Stream(r, Peer(m)) # <<>> /\ h = Head(Stream(r, Peer(m)))
            /\ Stream(r, Peer(m))' = Tail(Stream(r, Peer(m)))
            /\ \A v \in Session : v # r => Stream(v, Peer(m))' = Stream(v, Peer(m))
            /\ HandleMismatch(m) \/ Handle(m, h)
    BY <1>1, <1>7, ReadStreams
  <2>2. Hears(p, s)
    BY <1>2, <2>1 DEF Hears, Attached, Carries
  <2>3. \/ h.kind # "edge" /\ UNCHANGED rcvd
        \/ /\ h.kind = "edge" /\ rcvd'[r][m] = Append(rcvd[r][m], h.id)
           /\ \A v \in Session, i \in Node : v # r \/ i # m => rcvd'[v][i] = rcvd[v][i]
        \/ HandleMismatch(m) /\ UNCHANGED rcvd
    BY <1>1, <2>1, ReadRcvd
  <2>4. CASE s = r /\ p = m
    <3>1. ~HandleMismatch(m)
      BY <1>1, <2>4 DEF HandleMismatch, Become, Hears, TypeInv, TypeOK
    <3>2. IF h.kind = "edge" THEN rcvd'[s][p] = Append(rcvd[s][p], h.id)
                             ELSE rcvd'[s][p] = rcvd[s][p]
      BY <2>3, <2>4, <3>1
    <3>3. Stream(s, n) # <<>> /\ h = Head(Stream(s, n)) /\ Stream(s, n)' = Tail(Stream(s, n))
      BY <1>2, <2>1, <2>4
    <3>4. QED
      BY <1>1, <1>2, <2>1, <2>2, <3>2, <3>3, OrderTaken
  <2>5. CASE ~(s = r /\ p = m)
    <3>1. rcvd'[s][p] = rcvd[s][p]
      BY <1>2, <2>1, <2>3, <2>5
    <3>2. CASE n = m /\ s = r
      <4>1. PICK q \in {<<>>, <<Msg("pong", h.id)>>} : Stream(s, n)' = Stream(s, n) \o q
        <5>1. Stream(s, n)' = Stream(s, n) \o <<>> \/ Stream(s, n)' # Stream(s, n)
          BY <1>1, StreamType, ConcatEmptySeq
        <5>2. QED
          BY <1>1, <1>7, <2>1, <3>2, <5>1, AnswerStream
      <4>2. sent[s][n] \in Seq(Nat) /\ Len(sent[s][n]) \in 0..Len(sent[s][n])
        BY <1>1, LogType
      <4>3. /\ q \in Seq(Message)
            /\ Delivers(q, Len(sent[s][n]), Len(sent[s][n]), sent[s][n])
        <5>1. Msg("pong", h.id) \in Message /\ Msg("pong", h.id).kind # "edge"
          BY MsgType DEF Message
        <5>2. CASE q = <<>>
          BY <4>2, <5>2, DeliversNothing
        <5>3. CASE q = <<Msg("pong", h.id)>>
          <6>1. PICK g \in Message : g = Msg("pong", h.id)
            BY <5>1
          <6>2. q = <<g>> /\ g.kind # "edge"
            BY <5>1, <5>3, <6>1
          <6>3. q \in Seq(Message)
            BY <6>2
          <6>4. QED
            BY <4>2, <6>2, <6>3, DeliversOther
        <5>4. QED
          BY <4>1, <5>2, <5>3
      <4>4. PICK t \in Seq(Nat) : t = <<>>
        BY EmptyDelivers
      <4>5. sent[s][n] \o t = sent[s][n]
        BY <4>2, <4>4, ConcatEmptySeq
      <4>6. /\ Delivers(q, Len(sent[s][n]), Len(sent[s][n] \o t), sent[s][n] \o t)
            /\ sent'[s][n] = sent[s][n] \o t
        BY <2>1, <4>3, <4>5
      <4>7. session[n] = s
        BY <3>2
      <4>8. QED
        BY <1>1, <2>2, <3>1, <4>1, <4>3, <4>4, <4>6, <4>7, OrderExtended
    <3>3. CASE ~(n = m /\ s = r)
      <4>1. Stream(s, n)' = Stream(s, n)
        <5>1. CASE n = m
          BY <1>1, <1>7, <2>1, <3>3, <5>1, AnswerStream
        <5>2. CASE n # m
          BY <1>2, <2>1, <2>5, <5>2
        <5>3. QED
          BY <5>1, <5>2
      <4>2. QED
        BY <1>1, <1>3, <2>1, <2>2, <3>1, <4>1, OrderKept
    <3>4. QED
      BY <3>2, <3>3
  <2>6. QED
    BY <2>4, <2>5
<1>8. ASSUME NEW m \in Node, EndRead(m) PROVE InOrderAt(s, n)'
  <2> DEFINE r == session[m]
  <2>0. PICK t \in Seq(Nat), q \in Seq(Message) : Drains(m, r, t, q)
    BY <1>1, <1>8, EndReadStreams
  <2>1. /\ r \in Session /\ UNCHANGED <<session, backlog, link, rcvd>>
        /\ sent'[r][m] = sent[r][m] \o t
        /\ \A v \in Session, i \in Node : v # r \/ i # m => sent'[v][i] = sent[v][i]
        /\ Stream(r, m)' = Stream(r, m) \o (Edges(t) \o q)
        /\ \A v \in Session : Stream(v, Peer(m))' = Stream(v, Peer(m))
        /\ \A v \in Session : v # r => Stream(v, m)' = Stream(v, m)
        /\ q \in {<<>>, <<Msg("ping", ping'[m].id)>>}
    BY <2>0 DEF Drains
  <2>2. Hears(p, s)
    BY <2>1 DEF Hears, Attached
  <2>3. CASE n = m /\ s = r
    <3> DEFINE log == sent[s][n] \o t
    <3>1. sent[s][n] \in Seq(Nat) /\ log \in Seq(Nat) /\ Len(log) \in Nat
      BY <1>1, LogType, ConcatProperties
    <3>2. Delivers(Edges(t), Len(sent[s][n]), Len(log), log) /\ Edges(t) \in Seq(Message)
      BY <3>1, DeliversEdges, EdgesType
    <3> HIDE DEF log
    <3>3. Delivers(q, Len(log), Len(log), log)
      <4>1. Len(log) \in 0..Len(log)
        BY <3>1
      <4>2. CASE q = <<>>
        BY <3>1, <4>1, <4>2, DeliversNothing
      <4>3. CASE q # <<>>
        <5>1. PICK id : id = ping'[m].id /\ q = <<Msg("ping", id)>>
          BY <2>1, <4>3
        <5>2. Msg("ping", id) \in Message /\ Msg("ping", id).kind # "edge"
          BY <5>1 DEF Msg
        <5>3. QED
          BY <3>1, <4>1, <5>1, <5>2, DeliversOther
      <4>4. QED
        BY <4>2, <4>3
    <3>4. Edges(t) \o q \in Seq(Message)
      BY <3>2, ConcatProperties
    <3>5. Delivers(Edges(t) \o q, Len(sent[s][n]), Len(log), log)
      <4>1. Len(sent[s][n]) \in Nat
        BY <3>1
      <4>2. QED
        BY <3>1, <3>2, <3>3, <4>1, DeliversConcat
    <3>6. QED
      BY <1>1, <2>1, <2>2, <2>3, <3>4, <3>5, OrderExtended DEF log
  <2>4. CASE ~(n = m /\ s = r)
    <3>1. Stream(s, n)' = Stream(s, n) /\ sent'[s][n] = sent[s][n]
      BY <1>2, <2>1, <2>4
    <3>2. QED
      BY <1>1, <1>3, <2>1, <2>2, <3>1, OrderKept
  <2>5. QED
    BY <2>3, <2>4
<1>9. ASSUME NEW m \in Node, PollWrite(m) PROVE InOrderAt(s, n)'
  <2>1. /\ UNCHANGED <<link, session, backlog, sent, rcvd>>
        /\ Attached(p, s) => Alike(Stream(s, n), Stream(s, n)')
    BY <1>1, <1>9, WriteStreams
  <2>2. Hears(p, s)
    BY <2>1 DEF Hears, Attached
  <2>3. QED
    BY <1>1, <2>1, <2>2, OrderKept DEF Hears
<1>10. ASSUME NEW m \in Node, NEW r \in Session, Joins(m, r) PROVE InOrderAt(s, n)'
  <2>1. UNCHANGED <<sent, rcvd>> /\ Joining(m, r)
    BY <1>10 DEF Joins
  <2>2. /\ Hears(p, s)
        /\ session'[n] = s => session[n] = s \/ (n = m /\ s = r)
        /\ n = m /\ s = r => Stream(s, n)' = Stream(s, n) \o Greeting
        /\ ~(n = m /\ s = r) => Stream(s, n)' = Stream(s, n)
    BY <1>1, <1>2, <1>10, JoinsStreams
  <2>3. CASE n = m /\ s = r
    <3>1. sent[s][n] = <<>>
      BY <1>1, <2>1, <2>3 DEF Silent
    <3>2. PICK t \in Seq(Nat) : t = <<>>
      BY EmptyDelivers
    <3>3. sent[s][n] \o t = <<>> /\ sent'[s][n] = sent[s][n] \o t
      BY <2>1, <3>1, <3>2
    <3>4. Delivers(Greeting, Len(sent[s][n]), Len(sent[s][n] \o t), sent[s][n] \o t)
      BY <3>1, <3>3, EmptyDelivers
    <3>5. rcvd'[s][p] = rcvd[s][p] /\ Stream(s, n)' = Stream(s, n) \o Greeting
      BY <2>1, <2>2, <2>3
    <3>6. QED
      BY <1>1, <2>2, <3>1, <3>2, <3>3, <3>4, <3>5, GreetingType, OrderExtended
  <2>4. CASE ~(n = m /\ s = r)
    BY <1>1, <1>3, <2>1, <2>2, <2>4, OrderKept
  <2>5. QED
    BY <2>3, <2>4
<1>11. QED
  BY <1>1, <1>4, <1>5, <1>6, <1>7, <1>8, <1>9, <1>10, StepKinds

LEMMA ChannelStep ==
  ASSUME ChannelInv, [Next]_vars
  PROVE  ChannelInv'
  BY TypeStep, UnopenedStep, SilentStep, InOrderStep DEF ChannelInv

LEMMA ChannelInit ==
  ASSUME Init
  PROVE  ChannelInv
<1>1. TypeInv
  BY TypeInit
<1>2. Unopened /\ Silent
  BY Peers DEF Init, Unopened, Silent, Joining
<1>3. ASSUME NEW s \in Session, NEW n \in Node PROVE InOrderAt(s, n)
  <2>1. ~Hears(Peer(n), s)
    BY Peers DEF Init, Hears, Attached, Session, NoSession
  <2>2. QED
    BY <2>1 DEF InOrderAt
<1>4. QED
  BY <1>1, <1>2, <1>3 DEF ChannelInv, InOrder

LEMMA TailOfLog ==
  ASSUME NEW log \in Seq(Nat), NEW t \in Seq(Nat)
  PROVE  SubSeq(log \o t, Len(log) + 1, Len(log \o t)) = t
<1> DEFINE u == log \o t
           v == SubSeq(u, Len(log) + 1, Len(u))
<1>1. /\ Len(u) = Len(log) + Len(t) /\ Len(log) \in Nat /\ Len(t) \in Nat
      /\ u \in Seq(Nat) /\ \A i \in 1..Len(t) : u[Len(log) + i] = t[i]
  BY ConcatProperties
<1> HIDE DEF u
<1>2. \A i \in Len(log) + 1..Len(u) : u[i] \in Nat
  BY <1>1, ElementOfSeq
<1>3. /\ v \in Seq(Nat)
      /\ Len(v) = IF Len(log) + 1 <= Len(u) THEN Len(u) - (Len(log) + 1) + 1 ELSE 0
      /\ \A i \in 1..Len(u) - (Len(log) + 1) + 1 : v[i] = u[(Len(log) + 1) + i - 1]
  BY <1>1, <1>2, SubSeqProperties
<1> HIDE DEF v
<1>4. Len(v) = Len(t)
  BY <1>1, <1>3
<1>5. ASSUME NEW i \in 1..Len(t) PROVE v[i] = t[i]
  <2>1. i \in 1..Len(u) - (Len(log) + 1) + 1 /\ (Len(log) + 1) + i - 1 = Len(log) + i
    BY <1>1
  <2>2. v[i] = u[Len(log) + i]
    BY <1>3, <2>1
  <2>3. QED
    BY <1>1, <2>2
<1>6. v = t
  BY <1>3, <1>4, <1>5, SeqEqual
<1>7. QED
  BY <1>6 DEF u, v

\* A step of the links is a step of the channel, or the channel does not see it.
LEMMA ChannelSteps ==
  ASSUME ChannelInv, [Next]_vars
  PROVE  [Channel!Next]_<<sent, rcvd>>
<1>1. TypeInv /\ InOrder
  BY DEF ChannelInv
<1>2. CASE Quiet
  BY <1>2 DEF Quiet
<1>3. ASSUME NEW n \in Node, Closes(n) \/ Dial(n) PROVE UNCHANGED <<sent, rcvd>>
  BY <1>3 DEF Closes, Close, Dial
<1>4. ASSUME NEW n \in Node, PollWrite(n) PROVE UNCHANGED <<sent, rcvd>>
  BY <1>4 DEF PollWrite
<1>5. ASSUME NEW n \in Node, NEW s \in Session, Joins(n, s) PROVE UNCHANGED <<sent, rcvd>>
  BY <1>5 DEF Joins
<1>6. ASSUME NEW n \in Node, EndRead(n) PROVE Channel!Next
  <2> DEFINE s == session[n]
  <2>1. PICK t \in Seq(Nat), r \in Seq(Message) : Drains(n, s, t, r)
    BY <1>1, <1>6, EndReadStreams
  <2>2. /\ s \in Session /\ UNCHANGED rcvd
        /\ sent' = [sent EXCEPT ![s][n] = sent[s][n] \o t]
        /\ sent'[s][n] = sent[s][n] \o t
    BY <2>1 DEF Drains
  <2>3. t = SubSeq(sent'[s][n], Len(sent[s][n]) + 1, Len(sent'[s][n]))
    <3>1. sent[s][n] \in Seq(Nat)
      BY <1>1, <2>2, LogType
    <3>2. QED
      BY <2>2, <3>1, TailOfLog
  <2>4. Channel!Send(s, n)
    BY <2>2, <2>3 DEF Channel!Send
  <2>5. QED
    BY <2>2, <2>4 DEF Channel!Next
<1>7. ASSUME NEW n \in Node, PollRead(n) PROVE UNCHANGED <<sent, rcvd>> \/ Channel!Next
  <2> DEFINE s == session[n]
             p == Peer(n)
  <2>1. PICK m \in Message :
            /\ s \in Session /\ Carries(n)
            /\ UNCHANGED <<session, backlog, sent>>
            /\ Stream(s, p) # <<>> /\ m = Head(Stream(s, p))
            /\ Stream(s, p)' = Tail(Stream(s, p))
            /\ HandleMismatch(n) \/ Handle(n, m)
    BY <1>1, <1>7, ReadStreams
  <2>2. CASE HandleMismatch(n)
    BY <2>1, <2>2 DEF HandleMismatch
  <2>3. CASE m.kind # "edge"
    BY <1>1, <2>1, <2>3, ReadRcvd
  <2>4. CASE ~HandleMismatch(n) /\ m.kind = "edge"
    <3>1. p \in Node /\ Peer(p) = n
      BY Peers
    <3>2. rcvd'[s][n] = Append(rcvd[s][n], m.id)
      BY <1>1, <2>1, <2>4, ReadRcvd
    <3>3. InOrderAt(s, p) /\ Hears(Peer(p), s)
      BY <1>1, <2>1, <3>1 DEF InOrder, Hears, Attached, Carries
    <3>4. /\ Len(rcvd[s][n]) < Len(sent[s][p])
          /\ m.id = sent[s][p][Len(rcvd[s][n]) + 1]
      BY <1>1, <2>1, <2>4, <3>1, <3>2, <3>3, OrderTaken
    <3>5. rcvd' = [rcvd EXCEPT ![s][n] = Append(@, m.id)]
      BY <2>1, <2>4 DEF Handle, HandleHello, HandlePing, HandleDuplicate, HandleSample,
                        HandleBadSample, HandleEdge
    <3>6. Channel!Deliver(s, n)
      BY <3>4, <3>5 DEF Channel!Deliver
    <3>7. QED
      BY <2>1, <3>6 DEF Channel!Next
  <2>5. QED
    BY <2>2, <2>3, <2>4
<1>8. QED
  BY <1>1, <1>2, <1>3, <1>4, <1>5, <1>6, <1>7, StepKinds

\* On each connection, the core of the receiver gets the edges that the link took
\* from the sender, in their order and each one time.  With each fault, for each
\* capacity of the write queue and of the network, and for two builds.
THEOREM EdgesInOrder == Spec => ImplementsEdgeChannel
<1>1. Init => Channel!Init
  BY DEF Init, Channel!Init, Channel!Empty
<1>2. Init => ChannelInv
  BY ChannelInit
<1>3. ChannelInv /\ [Next]_vars => ChannelInv'
  BY ChannelStep
<1>4. ChannelInv /\ [Next]_vars => [Channel!Next]_<<sent, rcvd>>
  BY ChannelSteps
<1>5. QED
  BY <1>1, <1>2, <1>3, <1>4, PTL DEF Spec, ImplementsEdgeChannel, Channel!Spec

-----------------------------------------------------------------------------
(* What kinds of messages a stream has                                        *)

Has(q, kind) == \E i \in 1..Len(q) : q[i].kind = kind

\* q has a message of this kind only while the PING p has no answer.  It has one
\* at the most, which belongs to p.
Pending(q, kind, p) ==
    \A i \in 1..Len(q) :
        q[i].kind = kind =>
            /\ p.outstanding /\ q[i].id = p.id
            /\ \A j \in 1..Len(q) : q[j].kind = kind => j = i

\* Each message of one kind has one of the other kind before it.
After(q, kind, first) ==
    \A j \in 1..Len(q) : q[j].kind = kind => \E i \in 1..j : q[i].kind = first

LEMMA ConcatAt ==
  ASSUME NEW q \in Seq(Message), NEW r \in Seq(Message)
  PROVE  /\ Len(q \o r) = Len(q) + Len(r) /\ Len(q) \in Nat /\ Len(r) \in Nat
         /\ \A i \in 1..Len(q) : i \in 1..Len(q \o r) /\ (q \o r)[i] = q[i]
         /\ \A i \in 1..Len(r) :
               Len(q) + i \in 1..Len(q \o r) /\ (q \o r)[Len(q) + i] = r[i]
         /\ \A i \in 1..Len(q \o r) :
               \/ i \in 1..Len(q) /\ (q \o r)[i] = q[i]
               \/ \E k \in 1..Len(r) : i = Len(q) + k /\ (q \o r)[i] = r[k]
<1>1. /\ Len(q \o r) = Len(q) + Len(r) /\ Len(q) \in Nat /\ Len(r) \in Nat
      /\ \A i \in 1..Len(q) + Len(r) :
            (q \o r)[i] = IF i <= Len(q) THEN q[i] ELSE r[i - Len(q)]
  BY ConcatProperties
<1>2. ASSUME NEW i \in 1..Len(q) PROVE i \in 1..Len(q \o r) /\ (q \o r)[i] = q[i]
  BY <1>1
<1>3. ASSUME NEW i \in 1..Len(r)
      PROVE  Len(q) + i \in 1..Len(q \o r) /\ (q \o r)[Len(q) + i] = r[i]
  <2>1. Len(q) + i \in 1..Len(q) + Len(r) /\ ~(Len(q) + i <= Len(q)) /\ Len(q) + i - Len(q) = i
    BY <1>1
  <2>2. QED
    BY <1>1, <2>1
<1>4. ASSUME NEW i \in 1..Len(q \o r)
      PROVE  \/ i \in 1..Len(q) /\ (q \o r)[i] = q[i]
             \/ \E k \in 1..Len(r) : i = Len(q) + k /\ (q \o r)[i] = r[k]
  <2>1. CASE i <= Len(q)
    BY <1>1, <2>1
  <2>2. CASE ~(i <= Len(q))
    <3>1. i - Len(q) \in 1..Len(r) /\ i = Len(q) + (i - Len(q))
      BY <1>1, <2>2
    <3>2. (q \o r)[i] = r[i - Len(q)]
      BY <1>1, <2>2
    <3>3. QED
      BY <3>1, <3>2
  <2>3. QED
    BY <2>1, <2>2
<1>5. QED
  BY <1>1, <1>2, <1>3, <1>4

LEMMA HasConcat ==
  ASSUME NEW q \in Seq(Message), NEW r \in Seq(Message), NEW kind
  PROVE  Has(q \o r, kind) <=> Has(q, kind) \/ Has(r, kind)
<1>1. ASSUME Has(q \o r, kind) PROVE Has(q, kind) \/ Has(r, kind)
  <2>1. PICK i \in 1..Len(q \o r) : (q \o r)[i].kind = kind
    BY <1>1 DEF Has
  <2>2. QED
    BY <2>1, ConcatAt DEF Has
<1>2. ASSUME Has(q, kind) PROVE Has(q \o r, kind)
  <2>1. PICK i \in 1..Len(q) : q[i].kind = kind
    BY <1>2 DEF Has
  <2>2. QED
    BY <2>1, ConcatAt DEF Has
<1>3. ASSUME Has(r, kind) PROVE Has(q \o r, kind)
  <2>1. PICK i \in 1..Len(r) : r[i].kind = kind
    BY <1>3 DEF Has
  <2>2. Len(q) + i \in 1..Len(q \o r) /\ (q \o r)[Len(q) + i].kind = kind
    BY <2>1, ConcatAt
  <2>3. QED
    BY <2>2 DEF Has
<1>4. QED
  BY <1>1, <1>2, <1>3

LEMMA PendingNone ==
  ASSUME NEW q, NEW kind, NEW p, ~Has(q, kind)
  PROVE  Pending(q, kind, p)
  BY DEF Has, Pending

LEMMA PendingDone ==
  ASSUME NEW q, NEW kind, NEW p, Pending(q, kind, p), ~p.outstanding
  PROVE  ~Has(q, kind)
  BY DEF Has, Pending

LEMMA PendingConcat ==
  ASSUME NEW q \in Seq(Message), NEW r \in Seq(Message), NEW kind, NEW p,
         Pending(q, kind, p), Pending(r, kind, p), ~Has(q, kind) \/ ~Has(r, kind)
  PROVE  Pending(q \o r, kind, p)
<1> SUFFICES ASSUME NEW i \in 1..Len(q \o r), (q \o r)[i].kind = kind
             PROVE  /\ p.outstanding /\ (q \o r)[i].id = p.id
                    /\ \A j \in 1..Len(q \o r) : (q \o r)[j].kind = kind => j = i
  BY DEF Pending
<1>1. CASE i \in 1..Len(q) /\ (q \o r)[i] = q[i]
  <2>1. ~Has(r, kind)
    BY <1>1 DEF Has
  <2>2. ASSUME NEW j \in 1..Len(q \o r), (q \o r)[j].kind = kind PROVE j = i
    <3>1. j \in 1..Len(q) /\ (q \o r)[j] = q[j]
      BY <2>1, <2>2, ConcatAt DEF Has
    <3>2. QED
      BY <1>1, <2>2, <3>1 DEF Pending
  <2>3. QED
    BY <1>1, <2>2 DEF Pending
<1>2. ASSUME NEW k \in 1..Len(r), i = Len(q) + k, (q \o r)[i] = r[k]
      PROVE  /\ p.outstanding /\ (q \o r)[i].id = p.id
             /\ \A j \in 1..Len(q \o r) : (q \o r)[j].kind = kind => j = i
  <2>1. ~Has(q, kind)
    BY <1>2 DEF Has
  <2>2. ASSUME NEW j \in 1..Len(q \o r), (q \o r)[j].kind = kind PROVE j = i
    <3>1. PICK l \in 1..Len(r) : j = Len(q) + l /\ (q \o r)[j] = r[l]
      BY <2>1, <2>2, ConcatAt DEF Has
    <3>2. l = k
      BY <1>2, <2>2, <3>1 DEF Pending
    <3>3. QED
      BY <1>2, <3>1, <3>2
  <2>3. QED
    BY <1>2, <2>2 DEF Pending
<1>3. QED
  BY <1>1, <1>2, ConcatAt, ZenonT(60)

LEMMA PrefixLooks ==
  ASSUME NEW q \in Seq(Message), NEW r \in Seq(Message), NEW kind, NEW p
  PROVE  /\ Has(q, kind) => Has(q \o r, kind)
         /\ Pending(q \o r, kind, p) => Pending(q, kind, p)
<1>1. Has(q, kind) => Has(q \o r, kind)
  BY HasConcat
<1>2. Pending(q \o r, kind, p) => Pending(q, kind, p)
  BY ConcatAt DEF Pending
<1>3. QED
  BY <1>1, <1>2

LEMMA TailAt ==
  ASSUME NEW q \in Seq(Message), q # <<>>
  PROVE  /\ Len(q) \in Nat /\ Len(Tail(q)) = Len(q) - 1 /\ Tail(q) \in Seq(Message)
         /\ 1 \in 1..Len(q) /\ Head(q) = q[1] /\ Head(q) \in Message
         /\ \A i \in 1..Len(Tail(q)) : i + 1 \in 1..Len(q) /\ Tail(q)[i] = q[i + 1]
         /\ \A i \in 1..Len(q) : i = 1 \/ i - 1 \in 1..Len(Tail(q))
<1>1. /\ Len(q) \in Nat /\ Len(Tail(q)) = Len(q) - 1 /\ Tail(q) \in Seq(Message)
      /\ \A i \in 1..Len(Tail(q)) : Tail(q)[i] = q[i + 1]
      /\ 1 \in 1..Len(q) /\ Head(q) = q[1] /\ Head(q) \in Message
  BY HeadTailProperties
<1>2. QED
  BY <1>1

LEMMA TailLooks ==
  ASSUME NEW q \in Seq(Message), q # <<>>, NEW kind, NEW p
  PROVE  /\ Has(Tail(q), kind) => Has(q, kind)
         /\ Head(q).kind = kind => Has(q, kind)
         /\ Pending(q, kind, p) =>
               /\ Pending(Tail(q), kind, p)
               /\ Head(q).kind = kind =>
                     p.outstanding /\ Head(q).id = p.id /\ ~Has(Tail(q), kind)
<1>1. Has(Tail(q), kind) => Has(q, kind)
  BY TailAt DEF Has
<1>2. Head(q).kind = kind => Has(q, kind)
  BY TailAt DEF Has
<1>3. ASSUME Pending(q, kind, p)
      PROVE  Pending(Tail(q), kind, p)
  <2> SUFFICES ASSUME NEW i \in 1..Len(Tail(q)), Tail(q)[i].kind = kind
               PROVE  /\ p.outstanding /\ Tail(q)[i].id = p.id
                      /\ \A j \in 1..Len(Tail(q)) : Tail(q)[j].kind = kind => j = i
    BY DEF Pending
  <2>1. i + 1 \in 1..Len(q) /\ Tail(q)[i] = q[i + 1]
    BY TailAt
  <2>2. ASSUME NEW j \in 1..Len(Tail(q)), Tail(q)[j].kind = kind PROVE j = i
    <3>1. j + 1 \in 1..Len(q) /\ Tail(q)[j] = q[j + 1]
      BY TailAt
    <3>2. j + 1 = i + 1
      BY <1>3, <2>1, <2>2, <3>1 DEF Pending
    <3>3. QED
      BY <3>2
  <2>3. QED
    BY <1>3, <2>1, <2>2 DEF Pending
<1>4. ASSUME Pending(q, kind, p), Head(q).kind = kind
      PROVE  p.outstanding /\ Head(q).id = p.id /\ ~Has(Tail(q), kind)
  <2>1. 1 \in 1..Len(q) /\ q[1] = Head(q)
    BY TailAt
  <2>2. ASSUME NEW i \in 1..Len(Tail(q)), Tail(q)[i].kind = kind PROVE FALSE
    <3>1. i + 1 \in 1..Len(q) /\ Tail(q)[i] = q[i + 1]
      BY TailAt
    <3>2. i + 1 = 1
      BY <1>4, <2>1, <2>2, <3>1 DEF Pending
    <3>3. QED
      BY <3>2
  <2>3. QED
    BY <1>4, <2>1, <2>2 DEF Pending, Has
<1>5. QED
  BY <1>1, <1>2, <1>3, <1>4

LEMMA AlikeLooks ==
  ASSUME NEW q, NEW r, Alike(q, r), NEW kind, NEW p
  PROVE  /\ Has(r, kind) => Has(q, kind)
         /\ Pending(q, kind, p) => Pending(r, kind, p)
  BY DEF Alike, Has, Pending

LEMMA OneLooks ==
  ASSUME NEW m \in Message, NEW kind, NEW p
  PROVE  /\ <<m>> \in Seq(Message)
         /\ Has(<<m>>, kind) => m.kind = kind
         /\ p.outstanding /\ m.id = p.id => Pending(<<m>>, kind, p)
<1>1. Len(<<m>>) = 1 /\ <<m>>[1] = m /\ 1..1 = {1}
  OBVIOUS
<1>2. QED
  BY <1>1 DEF Has, Pending

LEMMA NothingLooks ==
  ASSUME NEW kind
  PROVE  <<>> \in Seq(Message) /\ ~Has(<<>>, kind)
<1>1. Len(<<>>) = 0 /\ 1..0 = {}
  OBVIOUS
<1>2. QED
  BY <1>1 DEF Has

LEMMA EdgesLook ==
  ASSUME NEW t \in Seq(Nat), NEW kind, kind # "edge"
  PROVE  ~Has(Edges(t), kind)
<1>1. Len(Edges(t)) = Len(t) /\ DOMAIN t = 1..Len(t)
  BY EdgesType
<1>2. \A i \in 1..Len(t) : Edges(t)[i].kind = "edge"
  BY <1>1 DEF Edges, Msg
<1>3. QED
  BY <1>1, <1>2 DEF Has

\* What EndRead adds to a stream: edges, and a PING or nothing.
LEMMA DrainedLook ==
  ASSUME NEW t \in Seq(Nat), NEW id, NEW r \in {<<>>, <<Msg("ping", id)>>}, r \in Seq(Message)
  PROVE  /\ Edges(t) \o r \in Seq(Message) /\ ~Has(Edges(t) \o r, "pong")
         /\ Has(Edges(t) \o r, "ping") => r # <<>>
         /\ \A p : p.outstanding /\ p.id = id => Pending(Edges(t) \o r, "ping", p)
<1>1. /\ Edges(t) \in Seq(Message) /\ Edges(t) \o r \in Seq(Message)
      /\ ~Has(Edges(t), "pong") /\ ~Has(Edges(t), "ping")
  BY EdgesType, EdgesLook, ConcatProperties
<1>2. CASE r = <<>>
  <2>1. ~Has(r, "ping") /\ ~Has(r, "pong")
    BY <1>2, NothingLooks
  <2>2. ~Has(Edges(t) \o r, "pong") /\ ~Has(Edges(t) \o r, "ping")
    BY <1>1, <2>1, HasConcat
  <2>3. QED
    BY <1>1, <2>2, PendingNone
<1>3. CASE r # <<>>
  <2>1. PICK m : m = Msg("ping", id)
    OBVIOUS
  <2>2. r = <<m>> /\ m.kind = "ping" /\ m.id = id
    BY <1>3, <2>1 DEF Msg
  <2>3. m \in Message
    BY <2>2
  <2>4. ~Has(r, "pong")
    BY <2>2, <2>3, OneLooks
  <2>5. ASSUME NEW p, p.outstanding, p.id = id PROVE Pending(Edges(t) \o r, "ping", p)
    <3>1. Pending(r, "ping", p)
      BY <2>2, <2>3, <2>5, OneLooks
    <3>2. Pending(Edges(t), "ping", p)
      BY <1>1, PendingNone
    <3>3. QED
      BY <1>1, <3>1, <3>2, PendingConcat
  <2>6. QED
    BY <1>1, <1>3, <2>4, <2>5, HasConcat
<1>4. QED
  BY <1>2, <1>3

\* The answer to a PING, or nothing if the write queue is full.
LEMMA AnswerLook ==
  ASSUME NEW id \in Nat, NEW r \in {<<>>, <<Msg("pong", id)>>}
  PROVE  /\ r \in Seq(Message) /\ ~Has(r, "ping") /\ ~Has(r, "edge")
         /\ r # <<>> => Has(r, "pong")
         /\ \A p : p.outstanding /\ p.id = id => Pending(r, "pong", p)
<1>1. CASE r = <<>>
  BY <1>1, NothingLooks, PendingNone
<1>2. CASE r = <<Msg("pong", id)>>
  <2>1. PICK m \in Message : m = Msg("pong", id)
    BY MsgType
  <2>2. r = <<m>> /\ m.kind = "pong" /\ m.id = id
    BY <1>2, <2>1 DEF Msg
  <2>3. Len(r) = 1 /\ r[1] = m
    BY <2>2
  <2>4. Has(r, "pong")
    BY <2>2, <2>3 DEF Has
  <2>5. QED
    BY <2>2, <2>4, OneLooks
<1>3. QED
  BY <1>1, <1>2

LEMMA GreetingLooks ==
  /\ ~Has(Greeting, "pong") /\ ~Has(Greeting, "edge") /\ Has(Greeting, "ping")
  /\ Greeting[1].kind = "hello" /\ Greeting[2].kind = "ping"
  /\ \A p : p.outstanding /\ p.id = 1 => Pending(Greeting, "ping", p)
<1>1. /\ Len(Greeting) = 2 /\ \A i \in 1..2 : i = 1 \/ i = 2
      /\ Greeting[1].kind = "hello" /\ Greeting[2].kind = "ping" /\ Greeting[2].id = 1
  BY GreetingType
<1>2. QED
  BY <1>1 DEF Has, Pending

-----------------------------------------------------------------------------
(* One round trip at a time                                                   *)

\* r has a message of this kind only if q has it, and is as good as q.
NoMore(q, r, kind, p) ==
    /\ Has(r, kind) => Has(q, kind)
    /\ Pending(q, kind, p) => Pending(r, kind, p)

\* The PING in progress of n, or its answer, is on connection s.  While the peer
\* reads, only one of them is.
RoundTrip(n, s) ==
    /\ Pending(Stream(s, Peer(n)), "pong", ping[n])
    /\ Hears(Peer(n), s) =>
          /\ Pending(Stream(s, n), "ping", ping[n])
          /\ ~(Has(Stream(s, n), "ping") /\ Has(Stream(s, Peer(n)), "pong"))

RoundTrips ==
    \A n \in Node, s \in Session : tp[n] = "connected" /\ session[n] = s => RoundTrip(n, s)

\* An instance that sent no PING yet has no answer on the way.
NoAnswers ==
    \A n \in Node, s \in Session : Joining(n, s) => ~Has(Stream(s, Peer(n)), "pong")

PingInv == ChannelInv /\ RoundTrips /\ NoAnswers /\ SampleMatchesPing

LEMMA SameNoMore ==
  ASSUME NEW q, NEW kind, NEW p
  PROVE  NoMore(q, q, kind, p)
  BY DEF NoMore

LEMMA AlikeNoMore ==
  ASSUME NEW q, NEW r, Alike(q, r), NEW kind, NEW p
  PROVE  NoMore(q, r, kind, p)
  BY AlikeLooks DEF NoMore

LEMMA TailNoMore ==
  ASSUME NEW q \in Seq(Message), q # <<>>, NEW kind, NEW p
  PROVE  NoMore(q, Tail(q), kind, p)
  BY TailLooks DEF NoMore

LEMMA AddedNoMore ==
  ASSUME NEW q \in Seq(Message), NEW r \in Seq(Message), NEW kind, NEW p, ~Has(r, kind)
  PROVE  NoMore(q, q \o r, kind, p)
  BY HasConcat, PendingNone, PendingConcat DEF NoMore

LEMMA PrefixNoMore ==
  ASSUME NEW q \in Seq(Message), NEW r \in Seq(Message), NEW kind, NEW p
  PROVE  NoMore(q \o r, q, kind, p)
  BY PrefixLooks DEF NoMore

LEMMA RoundTripKept ==
  ASSUME NEW n \in Node, NEW s \in Session, RoundTrip(n, s), ping'[n] = ping[n],
         Hears(Peer(n), s)' =>
             Hears(Peer(n), s) /\ NoMore(Stream(s, n), Stream(s, n)', "ping", ping[n]),
         NoMore(Stream(s, Peer(n)), Stream(s, Peer(n))', "pong", ping[n])
  PROVE  RoundTrip(n, s)'
  BY DEF RoundTrip, NoMore

\* The stream of an instance that closes its connection is what is on the wire.
LEMMA ClosedNoMore ==
  ASSUME TypeInv, NEW n \in Node, NEW s \in Session, NEW kind, NEW p
  PROVE  NoMore(Stream(s, n), wire[s][Peer(n)], kind, p)
<1> DEFINE rest == IF session[n] = s THEN queue[n] ELSE <<>>
<1>1. wire[s][Peer(n)] \in Seq(Message) /\ rest \in Seq(Message)
  BY StreamType
<1>2. Stream(s, n) = wire[s][Peer(n)] \o rest
  BY DEF Stream
<1> HIDE DEF rest
<1>3. QED
  BY <1>1, <1>2, PrefixNoMore

LEMMA AnswersStep ==
  ASSUME PingInv, [Next]_vars
  PROVE  NoAnswers'
<1> SUFFICES ASSUME NEW s \in Session, NEW n \in Node, Joining(n, s)'
             PROVE  ~Has(Stream(s, Peer(n))', "pong")
  BY DEF NoAnswers
<1> DEFINE p == Peer(n)
<1>1. /\ TypeInv /\ Unopened /\ Silent /\ Stream(s, p) \in Seq(Message)
      /\ p \in Node /\ p # n /\ Peer(p) = n /\ \A m \in Node : m = n \/ m = p
  BY StreamType, Peers DEF PingInv, ChannelInv
<1>2. Joining(n, s) => ~Has(Stream(s, p), "pong")
  BY DEF PingInv, NoAnswers
<1>3. CASE Quiet
  BY <1>1, <1>2, <1>3, QuietStreams
<1>4. ASSUME NEW m \in Node, Closes(m) PROVE ~Has(Stream(s, p)', "pong")
  <2>1. m = p /\ Joining(n, s)
    BY <1>1, <1>4, CloseStreams
  <2>2. Stream(s, p)' = wire[s][Peer(p)]
    BY <1>1, <1>4, <2>1, CloseStreams
  <2>3. QED
    BY <1>1, <1>2, <2>1, <2>2, ClosedNoMore DEF NoMore
<1>5. ASSUME NEW m \in Node, Dial(m) PROVE ~Has(Stream(s, p)', "pong")
  <2>1. PICK r \in Session :
            /\ s = r => Stream(s, p)' \in {Greeting, <<>>}
            /\ s # r => Stream(s, p)' = Stream(s, p) /\ (Joining(n, s)' => Joining(n, s))
    <3>1. p = m \/ p = Peer(m)
      BY <1>1, Peers
    <3>2. QED
      BY <1>1, <1>5, <3>1, DialStreams
  <2>2. ~Has(Greeting, "pong") /\ ~Has(<<>>, "pong")
    BY GreetingLooks, NothingLooks
  <2>3. QED
    BY <1>2, <2>1, <2>2
<1>6. ASSUME NEW m \in Node, PollRead(m) PROVE ~Has(Stream(s, p)', "pong")
  <2>1. PICK h \in Message :
            /\ session[m] \in Session /\ tp[m] = "connected"
            /\ UNCHANGED <<tp, session, backlog>>
            /\ wire[session[m]][m] # <<>>
            /\ HandleMismatch(m) \/ Handle(m, h)
    BY <1>1, <1>6, ReadStreams
  <2>2. Joining(n, s) /\ m = p
    BY <1>1, <2>1 DEF Joining
  <2>3. session[p] # s
    BY <1>1, <2>1, <2>2 DEF Silent
  <2>4. Stream(s, p)' = Stream(s, p)
    BY <1>1, <1>6, <2>1, <2>2, <2>3, AnswerStream
  <2>5. QED
    BY <1>2, <2>2, <2>4
<1>7. ASSUME NEW m \in Node, EndRead(m) PROVE ~Has(Stream(s, p)', "pong")
  <2>1. PICK t \in Seq(Nat), r \in Seq(Message) : Drains(m, session[m], t, r)
    BY <1>1, <1>7, EndReadStreams
  <2>2. Joining(n, s) /\ m = p
    BY <1>1, <2>1 DEF Drains, Joining
  <2>3. Stream(s, p)' \in {Stream(s, p), Stream(s, p) \o (Edges(t) \o r)}
    BY <2>1, <2>2 DEF Drains
  <2>4. Edges(t) \o r \in Seq(Message) /\ ~Has(Edges(t) \o r, "pong")
    BY <2>1, DrainedLook DEF Drains
  <2>5. ~Has(Stream(s, p), "pong") /\ ~Has(Stream(s, p) \o (Edges(t) \o r), "pong")
    BY <1>1, <1>2, <2>2, <2>4, HasConcat
  <2>6. QED
    BY <2>3, <2>5
<1>8. ASSUME NEW m \in Node, PollWrite(m) PROVE ~Has(Stream(s, p)', "pong")
  <2>1. /\ UNCHANGED <<tp, session, backlog>>
        /\ Attached(n, s) => Alike(Stream(s, p), Stream(s, p)')
    BY <1>1, <1>8, WriteStreams
  <2>2. Joining(n, s) /\ Attached(n, s)
    BY <2>1 DEF Joining, Attached
  <2>3. QED
    BY <1>2, <2>1, <2>2, AlikeNoMore DEF NoMore
<1>9. ASSUME NEW m \in Node, NEW r \in Session, Joins(m, r) PROVE ~Has(Stream(s, p)', "pong")
  <2>1. Joining(n, s) /\ Stream(s, p)' \in {Stream(s, p), Stream(s, p) \o Greeting}
    BY <1>1, <1>9, JoinsStreams
  <2>2. ~Has(Greeting, "pong") /\ Greeting \in Seq(Message)
    BY GreetingLooks, GreetingType
  <2>3. ~Has(Stream(s, p), "pong") /\ ~Has(Stream(s, p) \o Greeting, "pong")
    BY <1>1, <1>2, <2>1, <2>2, HasConcat
  <2>4. QED
    BY <2>1, <2>3
<1>10. QED
  BY <1>1, <1>3, <1>4, <1>5, <1>6, <1>7, <1>8, <1>9, StepKinds

\* The receiver of a message, and the PING of the receiver.
LEMMA ReadOwnTrip ==
  ASSUME TypeInv, NEW n \in Node, NEW s \in Session, session[n] = s, PollRead(n), RoundTrip(n, s)
  PROVE  RoundTrip(n, s)' /\ (sample'[n] = sample[n] \/ sample'[n].ping = sample'[n].pong)
<1> DEFINE p == Peer(n)
<1>1. PICK h \in Message :
          /\ UNCHANGED <<session, backlog>>
          /\ \A i \in Node : i # n => UNCHANGED link[i]
          /\ Stream(s, p) # <<>> /\ h = Head(Stream(s, p))
          /\ Stream(s, p)' = Tail(Stream(s, p))
          /\ HandleMismatch(n) \/ Handle(n, h)
  BY ReadStreams
<1>2. p \in Node /\ p # n /\ Stream(s, p) \in Seq(Message) /\ Stream(s, n) \in Seq(Message)
  BY Peers, StreamType
<1>3. Hears(p, s)' => Hears(p, s)
  BY <1>1, <1>2 DEF Hears, Attached
<1>4. CASE HandleSample(n, h) \/ HandleBadSample(n, h)
  <2>1. h.kind = "pong" /\ ~ping'[n].outstanding
    BY <1>4 DEF HandleSample, HandleBadSample, TypeInv, TypeOK
  <2>2. h.id = ping[n].id /\ ~Has(Stream(s, p)', "pong") /\ Has(Stream(s, p), "pong")
    BY <1>1, <1>2, <2>1, TailLooks DEF RoundTrip
  <2>3. Hears(p, s) => ~Has(Stream(s, n), "ping")
    BY <2>2 DEF RoundTrip
  <2>4. Stream(s, n)' = Stream(s, n)
    BY <1>1, <1>4, AnswerStream DEF HandlePing, HandleSample, HandleBadSample
  <2>5. RoundTrip(n, s)'
    BY <1>3, <2>2, <2>3, <2>4, PendingNone DEF RoundTrip
  <2>6. sample'[n] = sample[n] \/ sample'[n].ping = sample'[n].pong
    BY <1>4, <2>2 DEF HandleSample, HandleBadSample, TypeInv, TypeOK
  <2>7. QED
    BY <2>5, <2>6
<1>5. CASE ~(HandleSample(n, h) \/ HandleBadSample(n, h))
  <2>1. UNCHANGED <<ping, sample>>
    BY <1>1, <1>5 DEF HandleMismatch, Handle, HandleHello, HandlePing, HandleDuplicate, HandleEdge
  <2>2. NoMore(Stream(s, p), Stream(s, p)', "pong", ping[n])
    BY <1>1, <1>2, TailNoMore
  <2>3. NoMore(Stream(s, n), Stream(s, n)', "ping", ping[n])
    <3>1. CASE ~HandlePing(n, h)
      BY <1>1, <3>1, AnswerStream, SameNoMore, ZenonT(60)
    <3>2. CASE HandlePing(n, h)
      <4>1. PICK r \in {<<>>, <<Msg("pong", h.id)>>} : Stream(s, n)' = Stream(s, n) \o r
        BY <1>1, <3>2, AnswerStream
      <4>2. h.id \in Nat
        BY DEF Message
      <4>3. r \in Seq(Message) /\ ~Has(r, "ping")
        BY <4>2, AnswerLook
      <4>4. QED
        BY <1>2, <4>1, <4>3, AddedNoMore
    <3>3. QED
      BY <3>1, <3>2
  <2>4. QED
    BY <1>3, <2>1, <2>2, <2>3, RoundTripKept
<1>6. QED
  BY <1>4, <1>5

\* The receiver of a message, and the PING of its peer.
LEMMA ReadPeerTrip ==
  ASSUME TypeInv, NEW n \in Node, NEW s \in Session, session[n] = s, PollRead(Peer(n)),
         RoundTrip(n, s)
  PROVE  RoundTrip(n, s)'
<1> DEFINE p == Peer(n)
<1>1. p \in Node /\ p # n /\ Peer(p) = n
  BY Peers
<1>2. PICK h \in Message :
          /\ Carries(p) /\ UNCHANGED <<session, backlog>>
          /\ \A i \in Node : i # p => UNCHANGED ping[i]
          /\ Stream(session[p], n) # <<>> /\ h = Head(Stream(session[p], n))
          /\ Stream(session[p], n)' = Tail(Stream(session[p], n))
          /\ \A v \in Session : v # session[p] => Stream(v, n)' = Stream(v, n)
          /\ HandleMismatch(p) \/ Handle(p, h)
  BY <1>1, ReadStreams
<1>3. Stream(s, p) \in Seq(Message) /\ Stream(s, n) \in Seq(Message)
  BY <1>1, StreamType
<1>4. (Hears(p, s)' => Hears(p, s)) /\ ping'[n] = ping[n]
  BY <1>1, <1>2 DEF Hears, Attached, Carries
<1>5. CASE session[p] # s
  <2>1. Stream(s, p)' = Stream(s, p) /\ Stream(s, n)' = Stream(s, n)
    BY <1>1, <1>2, <1>5, AnswerStream
  <2>2. QED
    BY <1>4, <2>1, SameNoMore, RoundTripKept
<1>6. CASE session[p] = s /\ ~HandlePing(p, h)
  <2>1. Stream(s, p)' = Stream(s, p) /\ Stream(s, n)' = Tail(Stream(s, n)) /\ Stream(s, n) # <<>>
    BY <1>1, <1>2, <1>6, AnswerStream
  <2>2. QED
    BY <1>3, <1>4, <2>1, SameNoMore, TailNoMore, RoundTripKept
<1>7. CASE session[p] = s /\ HandlePing(p, h)
  <2>1. PICK r \in {<<>>, <<Msg("pong", h.id)>>} : Stream(s, p)' = Stream(s, p) \o r
    BY <1>1, <1>2, <1>7, AnswerStream
  <2>2. Hears(p, s)
    BY <1>2, <1>7 DEF Hears, Attached, Carries
  <2>3. /\ Stream(s, n) # <<>> /\ h = Head(Stream(s, n)) /\ Stream(s, n)' = Tail(Stream(s, n))
        /\ h.kind = "ping"
    BY <1>2, <1>7 DEF HandlePing
  <2>4. /\ ping[n].outstanding /\ h.id = ping[n].id /\ ~Has(Stream(s, n)', "ping")
        /\ ~Has(Stream(s, p), "pong")
    BY <1>3, <2>2, <2>3, TailLooks DEF RoundTrip
  <2>5. r \in Seq(Message) /\ Pending(r, "pong", ping[n])
    <3>1. h.id \in Nat
      BY DEF Message
    <3>2. QED
      BY <2>4, <3>1, AnswerLook
  <2>6. Pending(Stream(s, p)', "pong", ping[n])
    BY <1>3, <2>1, <2>4, <2>5, PendingNone, PendingConcat
  <2>7. QED
    BY <1>4, <2>4, <2>6, PendingNone DEF RoundTrip
<1>8. QED
  BY <1>5, <1>6, <1>7

\* The PING of n, in a step of n itself.
LEMMA OwnTrip ==
  ASSUME PingInv, "timeout" \notin Faults, NEW n \in Node, NEW s \in Session,
         tp'[n] = "connected", session'[n] = s,
         \/ Dial(n) \/ PollRead(n) \/ EndRead(n) \/ PollWrite(n)
         \/ \E r \in Session : Joins(n, r)
  PROVE  RoundTrip(n, s)'
<1> DEFINE p == Peer(n)
<1>1. /\ TypeInv /\ Unopened /\ Silent
      /\ p \in Node /\ p # n /\ Peer(p) = n
      /\ Stream(s, p) \in Seq(Message) /\ Stream(s, n) \in Seq(Message)
  BY Peers, StreamType DEF PingInv, ChannelInv
<1>2. tp[n] = "connected" /\ session[n] = s => RoundTrip(n, s)
  BY DEF PingInv, RoundTrips
<1>3. CASE Dial(n)
  <2>1. PICK r \in Session :
            /\ session'[n] = r /\ Stream(r, p)' = <<>>
            /\ \/ OnConnected(n) /\ Stream(r, n)' = Greeting
               \/ UNCHANGED tp /\ tp[n] = "connecting"
    BY <1>1, <1>3, DialStreams
  <2>2. ping'[n].outstanding /\ ping'[n].id = 1 /\ Stream(s, n)' = Greeting
    BY <2>1 DEF OnConnected, PingInv, ChannelInv, TypeInv, TypeOK
  <2>3. Pending(Greeting, "ping", ping'[n]) /\ ~Has(<<>>, "pong")
    BY <2>2, GreetingLooks, NothingLooks
  <2>4. QED
    BY <2>1, <2>2, <2>3, PendingNone DEF RoundTrip
<1>4. CASE \E r \in Session : Joins(n, r)
  <2>1. Joins(n, s)
    BY <1>1, <1>4 DEF Joins, TypeInv, TypeOK
  <2>2. /\ Joining(n, s) /\ Stream(s, p)' = Stream(s, p)
        /\ Stream(s, n)' = Stream(s, n) \o Greeting
    BY <1>1, <2>1, JoinsStreams DEF Joins
  <2>3. ping'[n].outstanding /\ ping'[n].id = 1
    BY <1>1, <2>1 DEF Joins, OnConnected, TypeInv, TypeOK
  <2>4. Stream(s, n) = <<>>
    <3>1. queue[n] = <<>> /\ wire[s][p] = <<>>
      BY <1>1, <2>2 DEF Silent, Joining, TypeInv, StateOfLink
    <3>2. QED
      BY <3>1 DEF Stream
  <2>5. Stream(s, n)' = Greeting
    BY <2>2, <2>4, GreetingType, ConcatEmptySeq
  <2>6. Pending(Greeting, "ping", ping'[n]) /\ ~Has(Stream(s, p)', "pong")
    BY <2>2, <2>3, GreetingLooks DEF PingInv, NoAnswers
  <2>7. QED
    BY <2>5, <2>6, PendingNone DEF RoundTrip
<1>5. CASE PollRead(n)
  <2>1. session[n] = s /\ tp[n] = "connected"
    BY <1>1, <1>5, ReadStreams
  <2>2. QED
    BY <1>1, <1>2, <1>5, <2>1, ReadOwnTrip
<1>6. CASE EndRead(n)
  <2>1. PICK t \in Seq(Nat), r \in Seq(Message) : Drains(n, session[n], t, r)
    BY <1>1, <1>6, EndReadStreams
  <2>2. /\ session[n] = s /\ tp[n] = "connected" /\ UNCHANGED <<session, backlog, link>>
        /\ Stream(s, n)' = Stream(s, n) \o (Edges(t) \o r) /\ Stream(s, p)' = Stream(s, p)
        /\ r \in {<<>>, <<Msg("ping", ping'[n].id)>>}
        /\ \/ r = <<>> /\ UNCHANGED ping
           \/ ~ping[n].outstanding /\ ping'[n].outstanding
    BY <2>1 DEF Drains
  <2> DEFINE q == Edges(t) \o r
  <2>3. /\ q \in Seq(Message) /\ (Has(q, "ping") => r # <<>>)
        /\ ping'[n].outstanding => Pending(q, "ping", ping'[n])
    BY <2>2, DrainedLook
  <2>4. Stream(s, n)' = Stream(s, n) \o q /\ RoundTrip(n, s)
    BY <1>2, <2>2
  <2>5. Hears(p, s)' => Hears(p, s)
    BY <2>2 DEF Hears, Attached
  <2> HIDE DEF q
  <2>6. CASE r = <<>> /\ UNCHANGED ping
    BY <1>1, <2>2, <2>3, <2>4, <2>5, <2>6, AddedNoMore, SameNoMore, RoundTripKept
  <2>7. CASE ~ping[n].outstanding /\ ping'[n].outstanding
    <3>1. ~Has(Stream(s, p), "pong") /\ (Hears(p, s) => ~Has(Stream(s, n), "ping"))
      BY <2>4, <2>7, PendingDone DEF RoundTrip
    <3>2. Hears(p, s) => Pending(Stream(s, n) \o q, "ping", ping'[n])
      BY <1>1, <2>3, <2>7, <3>1, PendingNone, PendingConcat
    <3>3. QED
      BY <2>2, <2>4, <2>5, <3>1, <3>2, PendingNone DEF RoundTrip
  <2>8. QED
    BY <2>2, <2>6, <2>7
<1>7. CASE PollWrite(n)
  <2>1. /\ session[n] = s /\ tp[n] = "connected"
        /\ UNCHANGED <<link, session, backlog, ping>>
        /\ Attached(p, s) => Alike(Stream(s, n), Stream(s, n)')
        /\ Attached(n, s) => Alike(Stream(s, p), Stream(s, p)')
    BY <1>1, <1>7, WriteStreams
  <2>2. Attached(n, s) /\ (Hears(p, s)' => Hears(p, s)) /\ (Hears(p, s) => Attached(p, s))
    BY <2>1 DEF Hears, Attached
  <2>3. QED
    BY <1>2, <2>1, <2>2, AlikeNoMore, RoundTripKept
<1>8. QED
  BY <1>3, <1>4, <1>5, <1>6, <1>7

\* The PING of n, in a step of the peer.
LEMMA PeerTrip ==
  ASSUME PingInv, NEW n \in Node, NEW s \in Session,
         tp'[n] = "connected", session'[n] = s,
         \/ Closes(Peer(n)) \/ Dial(Peer(n)) \/ PollRead(Peer(n)) \/ EndRead(Peer(n))
         \/ PollWrite(Peer(n)) \/ \E r \in Session : Joins(Peer(n), r)
  PROVE  RoundTrip(n, s)'
<1> DEFINE p == Peer(n)
<1>1. /\ TypeInv /\ Unopened
      /\ p \in Node /\ p # n /\ Peer(p) = n
      /\ Stream(s, p) \in Seq(Message) /\ Stream(s, n) \in Seq(Message)
  BY Peers, StreamType DEF PingInv, ChannelInv
<1>2. tp[n] = "connected" /\ session[n] = s => RoundTrip(n, s)
  BY DEF PingInv, RoundTrips
<1>3. CASE Closes(p)
  <2>1. /\ UNCHANGED <<session[n], tp[n], ping>> /\ ~Hears(p, s)'
        /\ Stream(s, p)' = wire[s][Peer(p)]
    BY <1>1, <1>3, CloseStreams
  <2>2. NoMore(Stream(s, p), Stream(s, p)', "pong", ping[n])
    BY <1>1, <2>1, ClosedNoMore
  <2>3. QED
    BY <1>2, <2>1, <2>2, RoundTripKept
<1>4. CASE Dial(p)
  <2>1. tp[n] = "connected"
    BY <1>1, <1>4, DialStreams
  <2>2. tp[n] = "listening"
    BY <1>1, <1>4 DEF Dial
  <2>3. QED
    BY <2>1, <2>2
<1>5. CASE PollRead(p)
  <2>1. UNCHANGED <<tp, session>>
    BY <1>1, <1>5, ReadStreams
  <2>2. QED
    BY <1>1, <1>2, <1>5, <2>1, ReadPeerTrip
<1>6. CASE EndRead(p)
  <2>1. PICK t \in Seq(Nat), r \in Seq(Message) : Drains(p, session[p], t, r)
    BY <1>1, <1>6, EndReadStreams
  <2> DEFINE q == Edges(t) \o r
  <2>2. /\ UNCHANGED <<tp, session, backlog, link>> /\ ping'[n] = ping[n]
        /\ Stream(s, p)' \in {Stream(s, p), Stream(s, p) \o q} /\ Stream(s, n)' = Stream(s, n)
        /\ r \in {<<>>, <<Msg("ping", ping'[p].id)>>}
    BY <1>1, <2>1 DEF Drains
  <2>3. q \in Seq(Message) /\ ~Has(q, "pong")
    BY <2>2, DrainedLook
  <2> HIDE DEF q
  <2>4. NoMore(Stream(s, p), Stream(s, p)', "pong", ping[n])
    <3>1. CASE Stream(s, p)' = Stream(s, p)
      BY <3>1, SameNoMore
    <3>2. CASE Stream(s, p)' = Stream(s, p) \o q
      BY <1>1, <2>3, <3>2, AddedNoMore
    <3>3. QED
      BY <2>2, <3>1, <3>2
  <2>5. Hears(p, s)' => Hears(p, s)
    BY <2>2 DEF Hears, Attached
  <2>6. QED
    BY <1>2, <2>2, <2>4, <2>5, SameNoMore, RoundTripKept
<1>7. CASE PollWrite(p)
  <2>1. /\ UNCHANGED <<link, tp, session, backlog, ping>>
        /\ Attached(p, s) => Alike(Stream(s, n), Stream(s, n)')
        /\ Attached(n, s) => Alike(Stream(s, p), Stream(s, p)')
    BY <1>1, <1>7, WriteStreams
  <2>2. Attached(n, s) /\ (Hears(p, s)' => Hears(p, s)) /\ (Hears(p, s) => Attached(p, s))
    BY <2>1 DEF Hears, Attached
  <2>3. QED
    BY <1>2, <2>1, <2>2, AlikeNoMore, RoundTripKept
<1>8. CASE \E r \in Session : Joins(p, r)
  <2>1. PICK r \in Session : Joins(p, r)
    BY <1>8
  <2>2. tp'[n] = tp[n] /\ session'[n] = session[n] /\ ping'[n] = ping[n]
    BY <1>1, <2>1 DEF Joins, OnConnected, TypeInv, TypeOK
  <2>3. /\ Stream(s, n)' = Stream(s, n) /\ (Hears(p, s)' => Hears(p, s))
        /\ s = r => Stream(s, p)' = Stream(s, p) \o Greeting
        /\ s # r => Stream(s, p)' = Stream(s, p)
    BY <1>1, <2>1, JoinsStreams
  <2>4. NoMore(Stream(s, p), Stream(s, p)', "pong", ping[n])
    <3>1. CASE s = r
      BY <1>1, <2>3, <3>1, GreetingLooks, GreetingType, AddedNoMore
    <3>2. CASE s # r
      BY <2>3, <3>2, SameNoMore
    <3>3. QED
      BY <3>1, <3>2
  <2>5. QED
    BY <1>2, <2>2, <2>3, <2>4, SameNoMore, RoundTripKept
<1>9. QED
  BY <1>3, <1>4, <1>5, <1>6, <1>7, <1>8

LEMMA TripsStep ==
  ASSUME PingInv, [Next]_vars, "timeout" \notin Faults
  PROVE  RoundTrips'
<1> SUFFICES ASSUME NEW n \in Node, NEW s \in Session, tp'[n] = "connected", session'[n] = s
             PROVE  RoundTrip(n, s)'
  BY DEF RoundTrips
<1>1. TypeInv /\ \A m \in Node : m = n \/ m = Peer(n)
  BY Peers DEF PingInv, ChannelInv
<1>2. CASE Quiet
  <2>1. RoundTrip(n, s)
    BY <1>1, <1>2, QuietStreams DEF PingInv, RoundTrips
  <2>2. /\ Stream(s, n)' = Stream(s, n) /\ Stream(s, Peer(n))' = Stream(s, Peer(n))
        /\ Hears(Peer(n), s)' => Hears(Peer(n), s)
    BY <1>1, <1>2, QuietStreams, Peers
  <2>3. ping'[n] = ping[n]
    BY <1>2 DEF Quiet
  <2>4. QED
    BY <2>1, <2>2, <2>3, SameNoMore, RoundTripKept
<1>3. ~Closes(n)
  BY <1>1, CloseStreams
<1>4. QED
  BY <1>1, <1>2, <1>3, OwnTrip, PeerTrip, StepKinds

LEMMA SampleStep ==
  ASSUME PingInv, [Next]_vars
  PROVE  SampleMatchesPing'
<1>1. TypeInv /\ SampleMatchesPing
  BY DEF PingInv, ChannelInv
<1>2. CASE Quiet
  BY <1>1, <1>2 DEF Quiet, SampleMatchesPing
<1>3. ASSUME NEW n \in Node, Closes(n) \/ EndRead(n) \/ PollWrite(n) PROVE SampleMatchesPing'
  <2>1. UNCHANGED sample
    BY <1>3 DEF Closes, Close, EndRead, PollWrite
  <2>2. QED
    BY <1>1, <2>1 DEF SampleMatchesPing
<1>4. ASSUME NEW n \in Node, Dial(n) \/ \E r \in Session : Joins(n, r)
      PROVE  SampleMatchesPing'
  <2>1. UNCHANGED sample \/ sample' = [sample EXCEPT ![n] = NoSample]
    BY <1>4 DEF Dial, Joins, OnConnected
  <2>2. NoSample.ping = NoSample.pong
    BY DEF NoSample
  <2>3. \A m \in Node : sample'[m] \in {sample[m], NoSample}
    BY <1>1, <2>1 DEF TypeInv, TypeOK
  <2>4. QED
    BY <1>1, <2>2, <2>3 DEF SampleMatchesPing
<1>5. ASSUME NEW n \in Node, PollRead(n) PROVE SampleMatchesPing'
  <2>1. session[n] \in Session /\ tp[n] = "connected"
    BY <1>1, <1>5, ReadStreams
  <2>2. RoundTrip(n, session[n])
    BY <2>1 DEF PingInv, RoundTrips
  <2>3. sample'[n] = sample[n] \/ sample'[n].ping = sample'[n].pong
    <3>1. PICK s \in Session : session[n] = s
      BY <2>1
    <3>2. QED
      BY <1>1, <1>5, <2>2, <3>1, ReadOwnTrip
  <2>4. \A m \in Node : m # n => sample'[m] = sample[m]
    BY <1>1, <1>5 DEF PollRead, HandleMismatch, Handle, HandleHello, HandlePing, HandleDuplicate,
                      HandleSample, HandleBadSample, HandleEdge, TypeInv, TypeOK
  <2>5. QED
    BY <1>1, <2>3, <2>4 DEF SampleMatchesPing
<1>6. QED
  BY <1>1, <1>2, <1>3, <1>4, <1>5, StepKinds

LEMMA PingInit ==
  ASSUME Init
  PROVE  PingInv
<1>1. ChannelInv
  BY ChannelInit
<1>2. RoundTrips /\ NoAnswers
  BY DEF Init, RoundTrips, NoAnswers, Joining
<1>3. SampleMatchesPing
  BY DEF Init, SampleMatchesPing, NoSample
<1>4. QED
  BY <1>1, <1>2, <1>3 DEF PingInv

\* A clock sample takes its two send times from one round trip, for each capacity
\* of the queues and with the faults of the sockets, the network and the clocks.
\* When a PING can time out while its answer is on the way, this is not so: the
\* run irlink_late_pong shows it.
THEOREM SamplesMatch ==
  ASSUME "timeout" \notin Faults
  PROVE  Spec => []SampleMatchesPing
<1>1. Init => PingInv
  BY PingInit
<1>2. PingInv /\ [Next]_vars => PingInv'
  BY ChannelStep, TripsStep, AnswersStep, SampleStep DEF PingInv
<1>3. PingInv => SampleMatchesPing
  BY DEF PingInv
<1>4. QED
  BY <1>1, <1>2, <1>3, PTL DEF Spec

-----------------------------------------------------------------------------
(* No edge before the first sample                                            *)

LEMMA AfterNone ==
  ASSUME NEW q, NEW kind, NEW first, ~Has(q, kind)
  PROVE  After(q, kind, first)
  BY DEF Has, After

LEMMA AfterConcat ==
  ASSUME NEW q \in Seq(Message), NEW r \in Seq(Message), NEW kind, NEW first,
         After(q, kind, first), ~Has(r, kind) \/ Has(q, first)
  PROVE  After(q \o r, kind, first)
<1> SUFFICES ASSUME NEW j \in 1..Len(q \o r), (q \o r)[j].kind = kind
             PROVE  \E i \in 1..j : (q \o r)[i].kind = first
  BY DEF After
<1>1. Len(q) \in Nat /\ Len(q \o r) \in Nat
  BY ConcatAt
<1>2. CASE j \in 1..Len(q) /\ (q \o r)[j] = q[j]
  <2>1. PICK i \in 1..j : q[i].kind = first
    BY <1>2 DEF After
  <2>2. i \in 1..Len(q)
    BY <1>1, <1>2
  <2>3. QED
    BY <2>1, <2>2, ConcatAt
<1>3. ASSUME NEW k \in 1..Len(r), j = Len(q) + k, (q \o r)[j] = r[k]
      PROVE  \E i \in 1..j : (q \o r)[i].kind = first
  <2>1. PICK i \in 1..Len(q) : q[i].kind = first
    BY <1>3 DEF Has
  <2>2. i \in 1..j
    BY <1>1, <1>3
  <2>3. QED
    BY <2>1, <2>2, ConcatAt
<1>4. \/ j \in 1..Len(q) /\ (q \o r)[j] = q[j]
      \/ \E k \in 1..Len(r) : j = Len(q) + k /\ (q \o r)[j] = r[k]
  BY ConcatAt
<1>5. QED
  BY <1>2, <1>3, <1>4

LEMMA AfterPrefix ==
  ASSUME NEW q \in Seq(Message), NEW r \in Seq(Message), NEW kind, NEW first,
         After(q \o r, kind, first)
  PROVE  After(q, kind, first)
<1> SUFFICES ASSUME NEW j \in 1..Len(q), q[j].kind = kind
             PROVE  \E i \in 1..j : q[i].kind = first
  BY DEF After
<1>1. j \in 1..Len(q \o r) /\ (q \o r)[j] = q[j] /\ Len(q) \in Nat
  BY ConcatAt
<1>2. PICK i \in 1..j : (q \o r)[i].kind = first
  BY <1>1 DEF After
<1>3. i \in 1..Len(q)
  BY <1>1
<1>4. QED
  BY <1>2, <1>3, ConcatAt

LEMMA AfterTail ==
  ASSUME NEW q \in Seq(Message), q # <<>>, NEW kind, NEW first, After(q, kind, first),
         Head(q).kind # first
  PROVE  /\ kind # first => Head(q).kind # kind
         /\ After(Tail(q), kind, first)
         /\ \A other : Has(q, other) /\ Head(q).kind # other => Has(Tail(q), other)
<1>1. 1 \in 1..Len(q) /\ q[1] = Head(q) /\ 1..1 = {1}
  BY TailAt
<1>2. Head(q).kind # kind
  BY <1>1 DEF After
<1>3. ASSUME NEW j \in 1..Len(Tail(q)), Tail(q)[j].kind = kind
      PROVE  \E i \in 1..j : Tail(q)[i].kind = first
  <2>1. j + 1 \in 1..Len(q) /\ Tail(q)[j] = q[j + 1]
    BY TailAt
  <2>2. PICK i \in 1..j + 1 : q[i].kind = first
    BY <1>3, <2>1 DEF After
  <2>3. i # 1
    BY <1>1, <2>2
  <2>4. PICK k \in 1..j : i = k + 1
    BY <2>3
  <2>5. k \in 1..Len(Tail(q))
    <3>1. Len(Tail(q)) \in Nat
      BY TailAt
    <3>2. QED
      BY <3>1
  <2>6. Tail(q)[k] = q[i]
    BY <2>4, <2>5, TailAt
  <2>7. QED
    BY <2>2, <2>6
<1>4. ASSUME NEW other, Has(q, other), Head(q).kind # other PROVE Has(Tail(q), other)
  <2>1. PICK i \in 1..Len(q) : q[i].kind = other
    BY <1>4 DEF Has
  <2>2. i - 1 \in 1..Len(Tail(q))
    BY <1>1, <1>4, <2>1, TailAt
  <2>3. Tail(q)[i - 1] = q[(i - 1) + 1] /\ (i - 1) + 1 = i
    BY <2>2, TailAt
  <2>4. QED
    BY <2>1, <2>2, <2>3 DEF Has
<1>5. QED
  BY <1>2, <1>3, <1>4 DEF After

LEMMA AlikeAfter ==
  ASSUME NEW q \in Seq(Message), NEW r, Alike(q, r)
  PROVE  /\ \A kind, first : After(q, kind, first) => After(r, kind, first)
         /\ \A kind : Has(r, kind) <=> Has(q, kind)
<1>1. ASSUME NEW kind, NEW first, After(q, kind, first) PROVE After(r, kind, first)
  <2> SUFFICES ASSUME NEW j \in 1..Len(r), r[j].kind = kind
               PROVE  \E i \in 1..j : r[i].kind = first
    BY DEF After
  <2>1. j \in 1..Len(q) /\ q[j].kind = kind /\ Len(q) \in Nat
    BY DEF Alike
  <2>2. PICK i \in 1..j : q[i].kind = first
    BY <1>1, <2>1 DEF After
  <2>3. i \in 1..Len(q)
    BY <2>1
  <2>4. QED
    BY <2>2, <2>3 DEF Alike
<1>2. \A kind : Has(r, kind) <=> Has(q, kind)
  BY DEF Alike, Has
<1>3. QED
  BY <1>1, <1>2

\* m has no clock sample on connection s, and room for an answer.
Unsynced(m, s) ==
    session[m] = s => link[m] # "connected" /\ (link[m] = "syncing" => Len(queue[m]) <= 2)

\* The peer did not answer the PING of n yet, and gets it before an answer that
\* gives the peer a sample.
Asks(n, s) ==
    /\ Hears(Peer(n), s) => Has(Stream(s, n), "ping") /\ After(Stream(s, n), "pong", "ping")
    /\ Unsynced(Peer(n), s)

\* n waits for its first sample.
Synchronizing(n, s) ==
    /\ ping[n].outstanding
    /\ After(Stream(s, Peer(n)), "edge", "pong")
    /\ Has(Stream(s, Peer(n)), "pong") \/ Asks(n, s)

SyncRuns ==
    \A n \in Node, s \in Session : link[n] = "syncing" /\ session[n] = s => Synchronizing(n, s)

EdgesWait ==
    \A n \in Node, s \in Session :
        Joining(n, s) => ~Has(Stream(s, Peer(n)), "edge") /\ Unsynced(Peer(n), s)

SyncInv == PingInv /\ SyncRuns /\ EdgesWait

LEMMA SyncRead ==
  ASSUME SyncInv, {"clock", "timeout"} \cap Faults = {}, NEW n \in Node, NEW s \in Session,
         session[n] = s, PollRead(n), link'[n] = "syncing"
  PROVE  Synchronizing(n, s)'
<1> DEFINE p == Peer(n)
<1>1. /\ TypeInv /\ p \in Node /\ p # n
      /\ Stream(s, p) \in Seq(Message) /\ Stream(s, n) \in Seq(Message)
  BY Peers, StreamType DEF SyncInv, PingInv, ChannelInv
<1>2. PICK h \in Message :
          /\ Carries(n) /\ tp[n] = "connected" /\ UNCHANGED <<session, backlog>>
          /\ \A i \in Node : i # n => UNCHANGED <<link[i], queue[i]>>
          /\ Stream(s, p) # <<>> /\ h = Head(Stream(s, p))
          /\ Stream(s, p)' = Tail(Stream(s, p))
          /\ HandleMismatch(n) \/ Handle(n, h)
  BY <1>1, ReadStreams
<1>3. ~HandleMismatch(n) /\ ~HandleSample(n, h)
  BY <1>1 DEF HandleMismatch, HandleSample, Become, TypeInv, TypeOK
<1>4. link[n] = "syncing"
  BY <1>2, <1>3 DEF Handle, HandleHello, HandlePing, HandleDuplicate, HandleBadSample, HandleEdge
<1>5. Synchronizing(n, s) /\ RoundTrip(n, s)
  BY <1>2, <1>4 DEF SyncInv, SyncRuns, PingInv, RoundTrips
<1>6. h.kind # "pong"
  <2>1. h.kind = "pong" => h.id = ping[n].id
    BY <1>1, <1>2, <1>5, TailLooks DEF RoundTrip
  <2>2. QED
    BY <1>2, <1>3, <1>5, <2>1
       DEF Synchronizing, Handle, HandleHello, HandlePing, HandleDuplicate, HandleBadSample, HandleEdge
<1>7. UNCHANGED ping
  BY <1>2, <1>3, <1>6
     DEF Handle, HandleHello, HandlePing, HandleDuplicate, HandleBadSample, HandleEdge
<1>8. /\ After(Stream(s, p)', "edge", "pong")
      /\ Has(Stream(s, p), "pong") => Has(Stream(s, p)', "pong")
  <2>1. After(Stream(s, p), "edge", "pong")
    BY <1>5 DEF Synchronizing
  <2>2. /\ After(Tail(Stream(s, p)), "edge", "pong")
        /\ Has(Stream(s, p), "pong") => Has(Tail(Stream(s, p)), "pong")
    BY <1>1, <1>2, <1>6, <2>1, AfterTail
  <2>3. QED
    BY <1>2, <2>2
<1>9. ASSUME Asks(n, s) PROVE Asks(n, s)'
  <2>1. Unsynced(p, s)'
    BY <1>1, <1>2, <1>9 DEF Asks, Unsynced
  <2>2. Hears(p, s)' => Hears(p, s)
    BY <1>1, <1>2 DEF Hears, Attached
  <2>3. ASSUME Has(Stream(s, n), "ping"), After(Stream(s, n), "pong", "ping")
        PROVE  Has(Stream(s, n)', "ping") /\ After(Stream(s, n)', "pong", "ping")
    <3>1. CASE ~HandlePing(n, h)
      <4>1. Stream(s, n)' = Stream(s, n)
        BY <1>1, <1>2, <3>1, AnswerStream
      <4>2. QED
        BY <2>3, <4>1
    <3>2. CASE HandlePing(n, h)
      <4>1. PICK r \in {<<>>, <<Msg("pong", h.id)>>} : Stream(s, n)' = Stream(s, n) \o r
        BY <1>1, <1>2, <3>2, AnswerStream
      <4>2. h.id \in Nat
        BY DEF Message
      <4>3. r \in Seq(Message)
        BY <4>2, AnswerLook
      <4>4. /\ Has(Stream(s, n) \o r, "ping")
            /\ After(Stream(s, n) \o r, "pong", "ping")
        BY <1>1, <2>3, <4>3, HasConcat, AfterConcat
      <4>5. QED
        BY <4>1, <4>4
    <3>3. QED
      BY <3>1, <3>2
  <2>4. QED
    BY <1>9, <2>1, <2>2, <2>3 DEF Asks
<1>10. QED
  BY <1>5, <1>7, <1>8, <1>9 DEF Synchronizing

LEMMA SyncPeerRead ==
  ASSUME SyncInv, Capacity >= 3, NEW n \in Node, NEW s \in Session,
         session[n] = s, PollRead(Peer(n)), link'[n] = "syncing"
  PROVE  Synchronizing(n, s)'
<1> DEFINE p == Peer(n)
<1>1. /\ TypeInv /\ p \in Node /\ p # n /\ Peer(p) = n
      /\ Stream(s, p) \in Seq(Message) /\ Stream(s, n) \in Seq(Message)
  BY Peers, StreamType DEF SyncInv, PingInv, ChannelInv
<1>2. PICK h \in Message :
          /\ Carries(p) /\ UNCHANGED <<session, backlog>>
          /\ \A i \in Node : i # p => UNCHANGED <<link[i], queue[i], ping[i]>>
          /\ Stream(session[p], n) # <<>> /\ h = Head(Stream(session[p], n))
          /\ Stream(session[p], n)' = Tail(Stream(session[p], n))
          /\ \A v \in Session : v # session[p] => Stream(v, n)' = Stream(v, n)
          /\ HandleMismatch(p) \/ Handle(p, h)
  BY <1>1, ReadStreams
<1>3. link[n] = "syncing" /\ UNCHANGED ping[n]
  BY <1>1, <1>2
<1>4. Synchronizing(n, s)
  BY <1>3 DEF SyncInv, SyncRuns
<1>5. (Hears(p, s)' => Hears(p, s)) /\ (session[p] = s => Hears(p, s))
  BY <1>2 DEF Hears, Attached, Carries
<1>6. CASE session[p] # s
  <2>1. Stream(s, p)' = Stream(s, p) /\ Stream(s, n)' = Stream(s, n)
    BY <1>1, <1>2, <1>6, AnswerStream
  <2>2. Unsynced(p, s)'
    BY <1>2, <1>6 DEF Unsynced
  <2>3. QED
    BY <1>3, <1>4, <1>5, <2>1, <2>2 DEF Synchronizing, Asks
<1>7. CASE session[p] = s
  <2>1. /\ Stream(s, n) # <<>> /\ h = Head(Stream(s, n)) /\ Stream(s, n)' = Tail(Stream(s, n))
    BY <1>2, <1>7
  <2>2. \E r \in Seq(Message) :
            /\ Stream(s, p)' = Stream(s, p) \o r /\ ~Has(r, "edge")
            /\ HandlePing(p, h) /\ Len(queue[p]) < Capacity => Has(r, "pong")
    <3>1. h.id \in Nat
      BY DEF Message
    <3>2. CASE HandlePing(p, h)
      <4>1. PICK r \in {<<>>, <<Msg("pong", h.id)>>} :
                /\ Stream(s, p)' = Stream(s, p) \o r
                /\ Len(queue[p]) < Capacity => r = <<Msg("pong", h.id)>>
        BY <1>1, <1>2, <1>7, <3>2, AnswerStream
      <4>2. r \in Seq(Message) /\ ~Has(r, "edge") /\ (r # <<>> => Has(r, "pong"))
        BY <3>1, AnswerLook
      <4>3. Len(queue[p]) < Capacity => Has(r, "pong")
        <5>1. <<Msg("pong", h.id)>> # <<>>
          OBVIOUS
        <5>2. QED
          BY <4>1, <4>2, <5>1
      <4>4. QED
        BY <4>1, <4>2, <4>3
    <3>3. CASE ~HandlePing(p, h)
      <4>1. Stream(s, p)' = Stream(s, p) \o <<>>
        BY <1>1, <1>2, <1>7, <3>3, AnswerStream, ConcatEmptySeq
      <4>2. QED
        BY <3>3, <4>1, NothingLooks
    <3>4. QED
      BY <3>2, <3>3
  <2>3. PICK r \in Seq(Message) :
            /\ Stream(s, p)' = Stream(s, p) \o r /\ ~Has(r, "edge")
            /\ HandlePing(p, h) /\ Len(queue[p]) < Capacity => Has(r, "pong")
    BY <2>2
  <2>4. After(Stream(s, p)', "edge", "pong")
    <3>1. After(Stream(s, p) \o r, "edge", "pong")
      BY <1>1, <1>4, <2>3, AfterConcat DEF Synchronizing
    <3>2. QED
      BY <2>3, <3>1
  <2>5. CASE Has(Stream(s, p), "pong")
    <3>1. Has(Stream(s, p) \o r, "pong")
      BY <1>1, <2>3, <2>5, HasConcat
    <3>2. QED
      BY <1>3, <1>4, <2>3, <2>4, <3>1 DEF Synchronizing
  <2>6. CASE ~Has(Stream(s, p), "pong")
    <3>1. /\ Has(Stream(s, n), "ping") /\ After(Stream(s, n), "pong", "ping")
          /\ link[p] = "syncing" /\ Len(queue[p]) <= 2
      BY <1>2, <1>4, <1>5, <1>7, <2>6 DEF Synchronizing, Asks, Unsynced, Carries
    <3>2. CASE HandlePing(p, h)
      <4>1. Len(queue[p]) < Capacity
        BY <1>1, <3>1, Constants DEF TypeInv, TypeOK
      <4>2. Has(Stream(s, p) \o r, "pong")
        BY <1>1, <2>3, <3>2, <4>1, HasConcat
      <4>3. QED
        BY <1>3, <1>4, <2>3, <2>4, <4>2 DEF Synchronizing
    <3>3. CASE HandleMismatch(p)
      <4>1. link'[p] = "error"
        BY <1>1, <3>3 DEF HandleMismatch, Become, TypeInv, TypeOK
      <4>2. Asks(n, s)'
        BY <4>1 DEF Asks, Unsynced, Hears
      <4>3. QED
        BY <1>3, <1>4, <2>4, <4>2 DEF Synchronizing
    <3>4. CASE ~HandlePing(p, h) /\ ~HandleMismatch(p)
      <4>1. h.kind # "ping"
        BY <1>2, <3>4 DEF Handle, HandleHello, HandleDuplicate, HandleSample, HandleBadSample,
                          HandleEdge
      <4>2. /\ h.kind # "pong" /\ After(Tail(Stream(s, n)), "pong", "ping")
            /\ Has(Tail(Stream(s, n)), "ping")
        BY <1>1, <2>1, <3>1, <4>1, AfterTail
      <4>3. UNCHANGED <<link, queue>>
        BY <1>2, <3>4, <4>2 DEF Handle, HandleHello, HandleDuplicate, HandleSample,
                                HandleBadSample, HandleEdge
      <4>4. Unsynced(p, s)'
        BY <1>4, <2>6, <3>1, <4>3 DEF Unsynced
      <4>5. Has(Stream(s, n)', "ping") /\ After(Stream(s, n)', "pong", "ping")
        BY <2>1, <4>2
      <4>6. Asks(n, s)'
        BY <4>4, <4>5 DEF Asks
      <4>7. QED
        BY <1>3, <1>4, <2>4, <4>6 DEF Synchronizing
    <3>5. QED
      BY <3>2, <3>3, <3>4
  <2>7. QED
    BY <2>5, <2>6
<1>8. QED
  BY <1>6, <1>7

\* What an instance without a sample adds to its stream while its PING has no
\* answer: nothing.
LEMMA SyncDrains ==
  ASSUME SyncInv, {"clock", "timeout"} \cap Faults = {}, NEW n \in Node, NEW s \in Session,
         NEW t \in Seq(Nat), NEW r \in Seq(Message), Drains(n, s, t, r), session[n] = s,
         link[n] = "syncing"
  PROVE  Edges(t) \o r = <<>> /\ UNCHANGED ping /\ Stream(s, n)' = Stream(s, n)
         /\ queue'[n] = queue[n]
<1>1. ping[n].outstanding
  BY DEF SyncInv, SyncRuns, Synchronizing
<1>2. r = <<>> /\ t = <<>> /\ UNCHANGED ping
  BY <1>1 DEF Drains
<1>3. Edges(t) = <<>> /\ Edges(t) \o r = <<>>
  <2>1. Len(Edges(t)) = 0 /\ Edges(t) \in Seq(Message)
    BY <1>2, EdgesType
  <2>2. Edges(t) = <<>>
    BY <2>1, EmptySeq
  <2>3. QED
    BY <1>2, <2>2
<1>4. Stream(s, n) \in Seq(Message) /\ queue[n] \in Seq(Message)
  BY StreamType DEF SyncInv, PingInv, ChannelInv
<1>5. Stream(s, n)' = Stream(s, n) \o (Edges(t) \o r) /\ queue'[n] = queue[n] \o (Edges(t) \o r)
  BY DEF Drains
<1>6. QED
  BY <1>2, <1>3, <1>4, <1>5, ConcatEmptySeq

LEMMA WaitStep ==
  ASSUME SyncInv, [Next]_vars, {"clock", "timeout"} \cap Faults = {}
  PROVE  EdgesWait'
<1> SUFFICES ASSUME NEW s \in Session, NEW n \in Node, Joining(n, s)'
             PROVE  ~Has(Stream(s, Peer(n))', "edge") /\ Unsynced(Peer(n), s)'
  BY DEF EdgesWait
<1> DEFINE p == Peer(n)
           Waits == ~Has(Stream(s, p)', "edge") /\ Unsynced(p, s)'
<1>1. /\ TypeInv /\ Unopened /\ Silent /\ Stream(s, p) \in Seq(Message)
      /\ p \in Node /\ p # n /\ Peer(p) = n /\ \A m \in Node : m = n \/ m = p
  BY StreamType, Peers DEF SyncInv, PingInv, ChannelInv
<1>2. Joining(n, s) => ~Has(Stream(s, p), "edge") /\ Unsynced(p, s)
  BY DEF SyncInv, EdgesWait
<1>3. CASE Quiet
  <2>1. /\ Joining(n, s) /\ Stream(s, p)' = Stream(s, p)
        /\ session'[p] = s => session[p] = s
    BY <1>1, <1>3, QuietStreams
  <2>2. queue' = queue /\ link'[p] \in {link[p], "error"}
    BY <1>1, <1>3 DEF Quiet
  <2>3. QED
    BY <1>2, <2>1, <2>2 DEF Unsynced
<1>4. ASSUME NEW m \in Node, Closes(m) PROVE Waits
  <2>1. m = p /\ Joining(n, s)
    BY <1>1, <1>4, CloseStreams
  <2>2. Stream(s, p)' = wire[s][Peer(p)] /\ session'[p] # s
    BY <1>1, <1>4, <2>1, CloseStreams
  <2>3. QED
    BY <1>1, <1>2, <2>1, <2>2, ClosedNoMore DEF NoMore, Unsynced
<1>5. ASSUME NEW m \in Node, Dial(m) PROVE Waits
  <2>1. CASE m = n
    <3>1. PICK r \in Session :
              /\ session'[n] = r /\ session'[p] = session[p] /\ session[p] # r
              /\ Stream(r, p)' = <<>>
              /\ s # r => Stream(s, p)' = Stream(s, p) /\ (Joining(n, s)' => Joining(n, s))
      BY <1>1, <1>5, <2>1, DialStreams
    <3>2. CASE s = r
      BY <3>1, <3>2, NothingLooks DEF Unsynced
    <3>3. CASE s # r
      <4>1. link'[p] = link[p] /\ queue'[p] = queue[p]
        BY <1>1, <1>5, <2>1 DEF Dial, OnConnected, Become, TypeInv, TypeOK
      <4>2. QED
        BY <1>2, <3>1, <3>3, <4>1 DEF Unsynced
    <3>4. QED
      BY <3>2, <3>3
  <2>2. CASE m = p
    <3>1. PICK r \in Session :
              /\ session'[p] = r /\ queue[p] = <<>>
              /\ \/ OnConnected(p) /\ Stream(r, p)' = Greeting
                 \/ /\ UNCHANGED <<link, tp, queue, ping>> /\ Stream(r, p)' = <<>>
                    /\ tp[p] = "connecting"
              /\ s # r => Stream(s, p)' = Stream(s, p) /\ (Joining(n, s)' => Joining(n, s))
      BY <1>1, <1>5, <2>2, DialStreams
    <3>2. CASE s = r /\ OnConnected(p)
      <4>1. link'[p] = "syncing" /\ queue'[p] = Greeting
        BY <1>1, <3>2 DEF OnConnected, Become, Greeting, TypeInv, TypeOK
      <4>2. Stream(s, p)' = Greeting
        <5>1. OnConnected(p) => tp'[p] = "connected"
          BY <1>1 DEF OnConnected, TypeInv, TypeOK
        <5>2. QED
          BY <1>1, <3>1, <3>2, <5>1
      <4>3. QED
        BY <4>1, <4>2, GreetingLooks, GreetingType DEF Unsynced
    <3>3. CASE s = r /\ ~OnConnected(p)
      <4>1. /\ Stream(s, p)' = <<>> /\ link'[p] = link[p] /\ tp[p] = "connecting"
        BY <3>1, <3>3
      <4>2. link[p] # "connected" /\ link[p] # "syncing"
        BY <1>1, <4>1 DEF TypeInv, StateOfLink, Carries
      <4>3. QED
        BY <4>1, <4>2, NothingLooks DEF Unsynced
    <3>4. CASE s # r
      BY <1>2, <3>1, <3>4 DEF Unsynced
    <3>5. QED
      BY <3>2, <3>3, <3>4
  <2>3. QED
    BY <1>1, <2>1, <2>2
<1>6. ASSUME NEW m \in Node, PollRead(m) PROVE Waits
  <2>1. PICK h \in Message :
            /\ session[m] \in Session /\ tp[m] = "connected"
            /\ UNCHANGED <<tp, session, backlog>>
            /\ wire[session[m]][m] # <<>>
            /\ HandleMismatch(m) \/ Handle(m, h)
    BY <1>1, <1>6, ReadStreams
  <2>2. Joining(n, s) /\ m = p
    BY <1>1, <2>1 DEF Joining
  <2>3. session[p] # s /\ session'[p] # s
    BY <1>1, <2>1, <2>2 DEF Silent
  <2>4. Stream(s, p)' = Stream(s, p)
    BY <1>1, <1>6, <2>1, <2>2, <2>3, AnswerStream
  <2>5. QED
    BY <1>2, <2>2, <2>3, <2>4 DEF Unsynced
<1>7. ASSUME NEW m \in Node, EndRead(m) PROVE Waits
  <2>1. PICK t \in Seq(Nat), r \in Seq(Message) : Drains(m, session[m], t, r)
    BY <1>1, <1>7, EndReadStreams
  <2>2. Joining(n, s) /\ m = p
    BY <1>1, <2>1 DEF Drains, Joining
  <2>3. UNCHANGED <<link, session>>
    BY <2>1 DEF Drains
  <2>4. CASE session[p] = s
    <3>1. link[p] = "syncing"
      BY <1>2, <2>1, <2>2, <2>4 DEF Drains, Carries, Unsynced
    <3>2. Stream(s, p)' = Stream(s, p) /\ queue'[p] = queue[p]
      BY <1>1, <2>1, <2>2, <2>4, <3>1, SyncDrains
    <3>3. QED
      BY <1>2, <2>2, <2>3, <3>2 DEF Unsynced
  <2>5. CASE session[p] # s
    <3>1. Stream(s, p)' = Stream(s, p)
      BY <2>1, <2>2, <2>5 DEF Drains
    <3>2. QED
      BY <1>2, <2>2, <2>3, <2>5, <3>1 DEF Unsynced
  <2>6. QED
    BY <2>4, <2>5
<1>8. ASSUME NEW m \in Node, PollWrite(m) PROVE Waits
  <2>1. /\ UNCHANGED <<link, tp, session, backlog>>
        /\ Attached(n, s) => Alike(Stream(s, p), Stream(s, p)')
        /\ Len(queue'[p]) <= Len(queue[p])
    BY <1>1, <1>8, WriteStreams
  <2>2. Joining(n, s) /\ Attached(n, s)
    BY <2>1 DEF Joining, Attached
  <2>3. Unsynced(p, s)'
    <3>1. Len(queue[p]) \in Nat /\ Len(queue'[p]) \in Nat
      <4>1. TypeOK'
        BY <1>1, OkStep
      <4>2. queue'[p] \in Seq(Message)
        BY <1>1, <4>1 DEF TypeOK
      <4>3. queue[p] \in Seq(Message)
        BY <1>1 DEF TypeInv, TypeOK
      <4>4. QED
        BY <4>2, <4>3
    <3>2. QED
      BY <1>2, <2>1, <2>2, <3>1 DEF Unsynced
  <2>4. QED
    BY <1>2, <2>1, <2>2, <2>3, AlikeNoMore DEF NoMore
<1>9. ASSUME NEW m \in Node, NEW r \in Session, Joins(m, r) PROVE Waits
  <2>1. m = p /\ Joining(n, s)
    BY <1>1, <1>9, JoinsStreams
  <2>2. session'[p] = r /\ link'[p] = "syncing" /\ queue'[p] = Greeting
    BY <1>1, <1>9, <2>1 DEF Joins, OnConnected, Become, Greeting, TypeInv, TypeOK
  <2>3. Unsynced(p, s)'
    BY <2>2, GreetingType DEF Unsynced
  <2>4. ~Has(Stream(s, p), "edge") /\ ~Has(Stream(s, p) \o Greeting, "edge")
    BY <1>1, <1>2, <2>1, GreetingLooks, GreetingType, HasConcat
  <2>5. Stream(s, p)' = Stream(s, p) \/ Stream(s, p)' = Stream(s, p) \o Greeting
    BY <1>1, <1>9, <2>1, JoinsStreams
  <2>6. QED
    BY <2>3, <2>4, <2>5
<1>10. QED
  BY <1>1, <1>3, <1>4, <1>5, <1>6, <1>7, <1>8, <1>9, StepKinds

\* The synchronization of n, in a step of n itself.
LEMMA OwnSync ==
  ASSUME SyncInv, {"clock", "timeout"} \cap Faults = {}, NEW n \in Node, NEW s \in Session,
         link'[n] = "syncing", session'[n] = s,
         \/ Dial(n) \/ PollRead(n) \/ EndRead(n) \/ \E r \in Session : Joins(n, r)
  PROVE  Synchronizing(n, s)'
<1> DEFINE p == Peer(n)
<1>1. /\ TypeInv /\ Unopened /\ Silent
      /\ p \in Node /\ p # n /\ Peer(p) = n
      /\ Stream(s, p) \in Seq(Message) /\ Stream(s, n) \in Seq(Message)
  BY Peers, StreamType DEF SyncInv, PingInv, ChannelInv
<1>2. link[n] = "syncing" /\ session[n] = s => Synchronizing(n, s)
  BY DEF SyncInv, SyncRuns
<1>3. Has(Greeting, "ping") /\ After(Greeting, "pong", "ping") /\ ~Has(Greeting, "edge")
  BY GreetingLooks, AfterNone
<1>4. CASE Dial(n)
  <2>1. PICK r \in Session :
            /\ session'[n] = r /\ Stream(r, p)' = <<>>
            /\ session'[p] = session[p] /\ session[p] # r
            /\ \/ OnConnected(n) /\ Stream(r, n)' = Greeting
               \/ UNCHANGED link /\ tp[n] = "connecting"
    BY <1>1, <1>4, DialStreams
  <2>2. OnConnected(n)
    BY <1>1, <2>1 DEF TypeInv, StateOfLink, Carries
  <2>3. ping'[n].outstanding
    BY <1>1, <2>2 DEF OnConnected, TypeInv, TypeOK
  <2>4. Stream(s, n)' = Greeting
    <3>1. ~(UNCHANGED link /\ tp[n] = "connecting")
      BY <1>1 DEF TypeInv, StateOfLink, Carries
    <3>2. QED
      BY <2>1, <3>1
  <2>5. Asks(n, s)'
    BY <1>3, <2>1, <2>4 DEF Asks, Unsynced
  <2>6. After(Stream(s, p)', "edge", "pong")
    BY <2>1, NothingLooks, AfterNone
  <2>7. QED
    BY <2>3, <2>5, <2>6 DEF Synchronizing
<1>5. CASE \E r \in Session : Joins(n, r)
  <2>1. Joins(n, s)
    BY <1>1, <1>5 DEF Joins, TypeInv, TypeOK
  <2>2. /\ Joining(n, s) /\ Stream(s, p)' = Stream(s, p)
        /\ Stream(s, n)' = Stream(s, n) \o Greeting
    BY <1>1, <2>1, JoinsStreams DEF Joins
  <2>3. /\ ping'[n].outstanding
        /\ UNCHANGED <<session[p], link[p], queue[p]>>
    BY <1>1, <2>1 DEF Joins, OnConnected, Become, TypeInv, TypeOK
  <2>4. Stream(s, n) = <<>>
    <3>1. queue[n] = <<>> /\ wire[s][p] = <<>>
      BY <1>1, <2>2 DEF Silent, Joining, TypeInv, StateOfLink
    <3>2. QED
      BY <3>1 DEF Stream
  <2>5. Stream(s, n)' = Greeting
    BY <2>2, <2>4, GreetingType, ConcatEmptySeq
  <2>6. ~Has(Stream(s, p), "edge") /\ Unsynced(p, s)
    BY <2>2 DEF SyncInv, EdgesWait
  <2>7. Asks(n, s)'
    BY <1>3, <2>3, <2>5, <2>6 DEF Asks, Unsynced
  <2>8. After(Stream(s, p)', "edge", "pong")
    BY <2>2, <2>6, AfterNone
  <2>9. QED
    BY <2>3, <2>7, <2>8 DEF Synchronizing
<1>6. CASE PollRead(n)
  <2>1. session[n] = s
    BY <1>1, <1>6, ReadStreams
  <2>2. QED
    BY <1>6, <2>1, SyncRead
<1>7. CASE EndRead(n)
  <2>1. PICK t \in Seq(Nat), r \in Seq(Message) : Drains(n, session[n], t, r)
    BY <1>1, <1>7, EndReadStreams
  <2>2. /\ session[n] = s /\ link[n] = "syncing" /\ UNCHANGED <<link, session, backlog>>
        /\ Stream(s, p)' = Stream(s, p) /\ queue'[p] = queue[p]
    BY <1>1, <2>1 DEF Drains
  <2>3. Stream(s, n)' = Stream(s, n) /\ UNCHANGED ping
    BY <2>1, <2>2, SyncDrains
  <2>4. QED
    BY <1>2, <2>2, <2>3 DEF Synchronizing, Asks, Unsynced, Hears, Attached
<1>8. QED
  BY <1>4, <1>5, <1>6, <1>7

\* The synchronization of n, in a step of the peer.
LEMMA PeerSync ==
  ASSUME SyncInv, {"clock", "timeout"} \cap Faults = {}, Capacity >= 3,
         NEW n \in Node, NEW s \in Session, link'[n] = "syncing", session'[n] = s,
         \/ Closes(Peer(n)) \/ Dial(Peer(n)) \/ PollRead(Peer(n)) \/ EndRead(Peer(n))
         \/ \E r \in Session : Joins(Peer(n), r)
  PROVE  Synchronizing(n, s)'
<1> DEFINE p == Peer(n)
<1>1. /\ TypeInv /\ Unopened
      /\ p \in Node /\ p # n /\ Peer(p) = n
      /\ Stream(s, p) \in Seq(Message) /\ Stream(s, n) \in Seq(Message)
  BY Peers, StreamType DEF SyncInv, PingInv, ChannelInv
<1>2. link[n] = "syncing" /\ session[n] = s => Synchronizing(n, s)
  BY DEF SyncInv, SyncRuns
<1>3. CASE Closes(p)
  <2>1. /\ UNCHANGED <<session[n], link[n], ping>> /\ ~Hears(p, s)' /\ session'[p] # s
        /\ Stream(s, p)' = wire[s][n]
    BY <1>1, <1>3, CloseStreams
  <2>2. After(wire[s][n], "edge", "pong")
    <3> DEFINE rest == IF session[p] = s THEN queue[p] ELSE <<>>
    <3>1. wire[s][n] \in Seq(Message) /\ rest \in Seq(Message)
      BY <1>1, StreamType
    <3>2. After(wire[s][n] \o rest, "edge", "pong")
      BY <1>1, <1>2, <2>1 DEF Synchronizing, Stream
    <3> HIDE DEF rest
    <3>3. QED
      BY <3>1, <3>2, AfterPrefix
  <2>3. QED
    BY <1>2, <2>1, <2>2 DEF Synchronizing, Asks, Unsynced
<1>4. CASE Dial(p)
  <2>1. tp[n] = "listening" /\ link'[n] = link[n]
    BY <1>1, <1>4 DEF Dial, OnConnected, Become, TypeInv, TypeOK
  <2>2. tp[n] = "connected"
    BY <1>1, <2>1 DEF TypeInv, StateOfLink, Carries
  <2>3. QED
    BY <2>1, <2>2
<1>5. CASE PollRead(p)
  <2>1. session[n] = s
    BY <1>1, <1>5, ReadStreams
  <2>2. QED
    BY <1>5, <2>1, SyncPeerRead
<1>6. CASE EndRead(p)
  <2>1. PICK t \in Seq(Nat), r \in Seq(Message) : Drains(p, session[p], t, r)
    BY <1>1, <1>6, EndReadStreams
  <2>2. /\ session[n] = s /\ link[n] = "syncing" /\ UNCHANGED <<link, session, backlog>>
        /\ ping'[n] = ping[n] /\ Stream(s, n)' = Stream(s, n)
        /\ link[p] # "connected" => link[p] = "syncing"
    BY <1>1, <2>1 DEF Drains, Carries
  <2>3. CASE session[p] # s
    <3>1. Stream(s, p)' = Stream(s, p)
      BY <2>1, <2>3 DEF Drains
    <3>2. QED
      BY <1>2, <2>2, <2>3, <3>1 DEF Synchronizing, Asks, Unsynced, Hears, Attached
  <2>4. CASE session[p] = s /\ link[p] = "syncing"
    <3>1. Stream(s, p)' = Stream(s, p) /\ queue'[p] = queue[p]
      BY <1>1, <2>1, <2>4, SyncDrains
    <3>2. QED
      BY <1>2, <2>2, <3>1 DEF Synchronizing, Asks, Unsynced, Hears, Attached
  <2>5. CASE session[p] = s /\ link[p] = "connected"
    <3>1. Has(Stream(s, p), "pong") /\ After(Stream(s, p), "edge", "pong")
      BY <1>2, <2>2, <2>5 DEF Synchronizing, Asks, Unsynced
    <3> DEFINE q == Edges(t) \o r
    <3>2. q \in Seq(Message) /\ Stream(s, p)' = Stream(s, p) \o q
      BY <2>1, <2>5, DrainedLook DEF Drains
    <3> HIDE DEF q
    <3>3. Has(Stream(s, p) \o q, "pong") /\ After(Stream(s, p) \o q, "edge", "pong")
      BY <1>1, <3>1, <3>2, HasConcat, AfterConcat
    <3>4. QED
      BY <1>2, <2>2, <3>2, <3>3 DEF Synchronizing
  <2>6. QED
    BY <2>2, <2>3, <2>4, <2>5
<1>7. CASE \E r \in Session : Joins(p, r)
  <2>1. PICK r \in Session : Joins(p, r)
    BY <1>7
  <2>2. /\ link'[n] = link[n] /\ session'[n] = session[n] /\ ping'[n] = ping[n]
        /\ session'[p] = r /\ link'[p] = "syncing" /\ queue'[p] = Greeting
        /\ Joining(p, r)
    BY <1>1, <2>1 DEF Joins, OnConnected, Become, Greeting, TypeInv, TypeOK
  <2>3. /\ Stream(s, n)' = Stream(s, n) /\ (Hears(p, s)' => Hears(p, s))
        /\ s = r => Stream(s, p)' = Stream(s, p) \o Greeting
        /\ s # r => Stream(s, p)' = Stream(s, p)
    BY <1>1, <2>1, JoinsStreams
  <2>4. Unsynced(p, s)'
    BY <2>2, GreetingType DEF Unsynced
  <2>5. Asks(n, s) => Asks(n, s)'
    BY <2>3, <2>4 DEF Asks
  <2>6. After(Stream(s, p), "edge", "pong") => After(Stream(s, p)', "edge", "pong")
    <3>1. After(Stream(s, p), "edge", "pong") => After(Stream(s, p) \o Greeting, "edge", "pong")
      BY <1>1, GreetingLooks, GreetingType, AfterConcat
    <3>2. QED
      BY <2>3, <3>1
  <2>7. Has(Stream(s, p), "pong") => Has(Stream(s, p)', "pong")
    <3>1. Has(Stream(s, p), "pong") => Has(Stream(s, p) \o Greeting, "pong")
      BY <1>1, GreetingType, HasConcat
    <3>2. QED
      BY <2>3, <3>1
  <2>8. QED
    BY <1>2, <2>2, <2>5, <2>6, <2>7 DEF Synchronizing
<1>8. QED
  BY <1>3, <1>4, <1>5, <1>6, <1>7

LEMMA RunsStep ==
  ASSUME SyncInv, [Next]_vars, {"clock", "timeout"} \cap Faults = {}, Capacity >= 3
  PROVE  SyncRuns'
<1> SUFFICES ASSUME NEW n \in Node, NEW s \in Session, link'[n] = "syncing", session'[n] = s
             PROVE  Synchronizing(n, s)'
  BY DEF SyncRuns
<1> DEFINE p == Peer(n)
<1>1. /\ TypeInv /\ p \in Node /\ Peer(p) = n /\ \A m \in Node : m = n \/ m = p
      /\ Stream(s, p) \in Seq(Message) /\ Stream(s, n) \in Seq(Message)
  BY Peers, StreamType DEF SyncInv, PingInv, ChannelInv
<1>2. link[n] = "syncing" /\ session[n] = s => Synchronizing(n, s)
  BY DEF SyncInv, SyncRuns
<1>3. CASE Quiet
  <2>1. link[n] = "syncing" /\ session[n] = s
    BY <1>1, <1>3, QuietStreams DEF Quiet
  <2>2. /\ Stream(s, n)' = Stream(s, n) /\ Stream(s, p)' = Stream(s, p)
        /\ Hears(p, s)' => Hears(p, s)
        /\ session'[p] = s => session[p] = s
    BY <1>1, <1>3, QuietStreams
  <2>3. ping' = ping /\ queue' = queue /\ link'[p] \in {link[p], "error"}
    BY <1>1, <1>3 DEF Quiet
  <2>4. Asks(n, s) => Asks(n, s)'
    BY <2>2, <2>3 DEF Asks, Unsynced
  <2>5. QED
    BY <1>2, <2>1, <2>2, <2>3, <2>4 DEF Synchronizing
<1>4. ASSUME NEW m \in Node, PollWrite(m) PROVE Synchronizing(n, s)'
  <2>1. /\ UNCHANGED <<link, session, backlog, ping>>
        /\ Attached(p, s) => Alike(Stream(s, n), Stream(s, n)')
        /\ Attached(n, s) => Alike(Stream(s, p), Stream(s, p)')
        /\ Len(queue'[p]) <= Len(queue[p])
    BY <1>1, <1>4, WriteStreams
  <2>2. Alike(Stream(s, p), Stream(s, p)')
    BY <2>1 DEF Attached
  <2>3. Len(queue[p]) \in Nat /\ Len(queue'[p]) \in Nat
    <3>1. TypeOK'
      BY <1>1, OkStep
    <3>2. queue'[p] \in Seq(Message)
      BY <1>1, <3>1 DEF TypeOK
    <3>3. queue[p] \in Seq(Message)
      BY <1>1 DEF TypeInv, TypeOK
    <3>4. QED
      BY <3>2, <3>3
  <2>4. ASSUME Asks(n, s) PROVE Asks(n, s)'
    <3>1. Unsynced(p, s)'
      BY <2>1, <2>3, <2>4 DEF Asks, Unsynced
    <3>2. Hears(p, s)' => Hears(p, s) /\ Alike(Stream(s, n), Stream(s, n)')
      BY <2>1 DEF Hears, Attached
    <3>3. ASSUME Alike(Stream(s, n), Stream(s, n)'),
                 Has(Stream(s, n), "ping"), After(Stream(s, n), "pong", "ping")
          PROVE  Has(Stream(s, n)', "ping") /\ After(Stream(s, n)', "pong", "ping")
      BY <1>1, <3>3, AlikeAfter
    <3>4. QED
      BY <2>4, <3>1, <3>2, <3>3 DEF Asks
  <2>5. QED
    BY <1>1, <1>2, <2>1, <2>2, <2>4, AlikeAfter DEF Synchronizing
<1>5. ~Closes(n)
  BY <1>1, CloseStreams
<1>6. QED
  BY <1>1, <1>3, <1>4, <1>5, OwnSync, PeerSync, StepKinds

LEMMA SyncInit ==
  ASSUME Init
  PROVE  SyncInv
<1>1. PingInv
  BY PingInit
<1>2. SyncRuns /\ EdgesWait
  BY DEF Init, SyncRuns, EdgesWait, Joining
<1>3. QED
  BY <1>1, <1>2 DEF SyncInv

\* An edge is not the first message for an instance that waits for its sample.
LEMMA EdgeAfterSync ==
  ASSUME SyncInv, [Next]_vars, NEW s \in Session, NEW n \in Node, rcvd'[s][n] # rcvd[s][n]
  PROVE  link[n] = "connected"
<1>1. TypeInv
  BY DEF SyncInv, PingInv, ChannelInv
<1>2. ~Quiet /\ \A m \in Node :
          ~(Closes(m) \/ Dial(m) \/ EndRead(m) \/ PollWrite(m) \/ \E r \in Session : Joins(m, r))
  BY DEF Quiet, Closes, Close, Dial, EndRead, PollWrite, Joins
<1>3. PICK m \in Node : PollRead(m)
  BY <1>1, <1>2, StepKinds
<1>4. PICK h \in Message :
          /\ session[m] \in Session /\ Carries(m)
          /\ Stream(session[m], Peer(m)) # <<>> /\ h = Head(Stream(session[m], Peer(m)))
          /\ HandleMismatch(m) \/ Handle(m, h)
  BY <1>1, <1>3, ReadStreams
<1>5. m = n /\ session[m] = s /\ h.kind = "edge"
  BY <1>1, <1>4, ReadRcvd
<1>6. Stream(s, Peer(n)) \in Seq(Message)
  BY <1>1, Peers, StreamType
<1>7. ASSUME link[n] = "syncing" PROVE FALSE
  <2>1. After(Stream(s, Peer(n)), "edge", "pong")
    BY <1>5, <1>7 DEF SyncInv, SyncRuns, Synchronizing
  <2>2. QED
    BY <1>4, <1>5, <1>6, <2>1, AfterTail
<1>8. QED
  BY <1>4, <1>5, <1>7 DEF Carries

\* An edge gets to the core of an instance only after the first clock sample of
\* that instance, if the clocks do not step, no PING times out, and the write
\* queue has room for an answer beside the first two messages.
THEOREM EdgesAfterSample ==
  ASSUME {"clock", "timeout"} \cap Faults = {}, Capacity >= 3
  PROVE  Spec => NoEdgeBeforeSync
<1>1. Init => SyncInv
  BY SyncInit
<1>2. SyncInv /\ [Next]_vars => SyncInv'
  BY ChannelStep, TripsStep, AnswersStep, SampleStep, RunsStep, WaitStep DEF SyncInv, PingInv
<1>3. SyncInv /\ [Next]_vars =>
          [\A s \in Session, n \in Node :
              rcvd'[s][n] # rcvd[s][n] => link[n] = "connected"]_vars
  BY EdgeAfterSync
<1>4. QED
  BY <1>1, <1>2, <1>3, PTL DEF Spec, NoEdgeBeforeSync
=============================================================================
