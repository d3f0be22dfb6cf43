-------------------------- MODULE IrLinkClockProofs --------------------------
(* The clock of an IR link, whatever the delays and the sizes: the offset     *)
(* that it uses is within half of the best round trip of the window, and the  *)
(* edges of a message get to the other core in their shape and in time, if    *)
(* the playout delay covers the transit, the batch and the drift.             *)
EXTENDS IrLinkClock, SequenceTheorems, WellFoundedInduction, TLAPS

-----------------------------------------------------------------------------
(* The error of the clock measurement, for every delay, turnaround and        *)
(* difference of the two clocks.                                              *)

LEMMA HalfBounds == ASSUME NEW x \in Int
                    PROVE  /\ CDiv2(x) \in Int
                           /\ x - 1 <= 2 * CDiv2(x) /\ 2 * CDiv2(x) <= x + 1
<1>1. CASE x >= 0 BY <1>1, SMT DEF CDiv2
<1>2. CASE ~(x >= 0) BY <1>2, SMT DEF CDiv2
<1> QED BY <1>1, <1>2

(* The offset of one sample is wrong by half of its round trip at most: the   *)
(* PING takes any time, the peer answers after any turnaround, and the PONG   *)
(* takes any time, not the same (ir_link.c, the PONG case of                  *)
(* handle_incoming_message).  skew is the difference of the two clocks.       *)
THEOREM SampleError ==
    ASSUME NEW t0 \in Int, NEW t1 \in Int, NEW t2 \in Int, NEW t3 \in Int,
           NEW skew \in Int,
           t0 + skew <= t1,     \* the PING arrives after it left
           t1 <= t2,            \* the answer leaves after the PING arrived
           t2 <= t3 + skew      \* the PONG arrives after it left
    PROVE  /\ Rtt(t0, t1, t2, t3) \in Nat
           /\ Offset(t0, t1, t2, t3) \in Int
           /\ -Rtt(t0, t1, t2, t3) - 1 <= 2 * (Offset(t0, t1, t2, t3) - skew)
           /\ 2 * (Offset(t0, t1, t2, t3) - skew) <= Rtt(t0, t1, t2, t3) + 1
<1> DEFINE x == (t1 - t0) + (t2 - t3)
           r == (t3 - t0) - (t2 - t1)
<1>1. x \in Int /\ r \in Nat /\ -r <= x - 2 * skew /\ x - 2 * skew <= r
  OBVIOUS
<1>2. CDiv2(x) \in Int /\ x - 1 <= 2 * CDiv2(x) /\ 2 * CDiv2(x) <= x + 1
  BY <1>1, HalfBounds
<1>3. Offset(t0, t1, t2, t3) = CDiv2(x) /\ Rtt(t0, t1, t2, t3) = r
  BY DEF Offset, Rtt
<1> HIDE DEF x, r
<1> QED BY <1>1, <1>2, <1>3

\* A clock sample: a round trip, and an offset that is wrong by half of it.
Samples == [offset : Int, rtt : Nat]

GoodSample(s, skew) ==
    -s.rtt - 1 <= 2 * (s.offset - skew) /\ 2 * (s.offset - skew) <= s.rtt + 1

AllGood(w, skew) ==
    /\ w \in Seq(Samples)
    /\ \A i \in DOMAIN w : GoodSample(w[i], skew)

LEMMA WindowEntries ==
    ASSUME NEW w \in Seq(Samples)
    PROVE  /\ DOMAIN w = 1 .. Len(w) /\ Len(w) \in Nat
           /\ \A i \in DOMAIN w : w[i].offset \in Int /\ w[i].rtt \in Nat
<1>1. DOMAIN w = 1 .. Len(w) /\ Len(w) \in Nat
  OBVIOUS
<1>2. \A i \in DOMAIN w : w[i] \in Samples
  BY <1>1
<1>3. \A x \in Samples : x.offset \in Int /\ x.rtt \in Nat
  BY DEF Samples
<1> QED BY <1>1, <1>2, <1>3

LEMMA AppendKeepsGood ==
    ASSUME NEW skew, NEW w, AllGood(w, skew), NEW s \in Samples, GoodSample(s, skew)
    PROVE  AllGood(Append(w, s), skew)
<1>1. w \in Seq(Samples) BY DEF AllGood
<1>2. /\ Append(w, s) \in Seq(Samples)
      /\ DOMAIN Append(w, s) = 1 .. Len(w) + 1
      /\ \A i \in 1 .. Len(w) : Append(w, s)[i] = w[i]
      /\ Append(w, s)[Len(w) + 1] = s
  BY <1>1
<1>3. \A i \in 1 .. Len(w) : GoodSample(w[i], skew)
  BY <1>1 DEF AllGood
<1>4. Len(w) \in Nat BY <1>1
<1>5. ASSUME NEW i \in 1 .. Len(w) + 1 PROVE GoodSample(Append(w, s)[i], skew)
  <2>1. CASE i = Len(w) + 1 BY <1>2, <2>1
  <2>2. CASE i # Len(w) + 1
    <3>1. i \in 1 .. Len(w) BY <1>4, <2>2
    <3> QED BY <1>2, <1>3, <3>1
  <2> QED BY <2>1, <2>2
<1> QED BY <1>2, <1>5 DEF AllGood

LEMMA TailKeepsGood ==
    ASSUME NEW skew, NEW w, AllGood(w, skew), w # <<>>
    PROVE  AllGood(Tail(w), skew) /\ Len(Tail(w)) = Len(w) - 1
<1>1. w \in Seq(Samples) BY DEF AllGood
<1>2. /\ Tail(w) \in Seq(Samples)
      /\ Len(Tail(w)) = Len(w) - 1
      /\ DOMAIN Tail(w) = 1 .. Len(w) - 1
      /\ \A i \in 1 .. Len(w) - 1 : Tail(w)[i] = w[i + 1]
  BY <1>1
<1>3. \A i \in 1 .. Len(w) : GoodSample(w[i], skew)
  BY <1>1 DEF AllGood
<1>4. ASSUME NEW i \in 1 .. Len(w) - 1 PROVE GoodSample(Tail(w)[i], skew)
  <2>1. i + 1 \in 1 .. Len(w) BY <1>1
  <2> QED BY <1>2, <1>3, <2>1
<1> QED BY <1>2, <1>4 DEF AllGood

(* A sample enters the window and the window stays good: record_sync_sample   *)
(* mixes no offset with the round trip of another sample.                     *)
LEMMA RecordKeepsGood ==
    ASSUME NEW skew, NEW size \in Nat \ {0},
           NEW w, AllGood(w, skew), Len(w) <= size,
           NEW s \in Samples, GoodSample(s, skew)
    PROVE  /\ AllGood(Record(w, s, size), skew)
           /\ Len(Record(w, s, size)) \in 1 .. size
<1>1. w \in Seq(Samples) BY DEF AllGood
<1>2. CASE Len(w) = size
  <2>1. w # <<>> BY <1>2
  <2>2. AllGood(Tail(w), skew) /\ Len(Tail(w)) = size - 1
    BY <1>2, <2>1, TailKeepsGood
  <2>3. Record(w, s, size) = Append(Tail(w), s) BY <1>2 DEF Record
  <2>4. Tail(w) \in Seq(Samples) BY <2>2 DEF AllGood
  <2>5. Len(Append(Tail(w), s)) = size BY <2>2, <2>4
  <2> QED BY <2>2, <2>3, <2>5, AppendKeepsGood
<1>3. CASE Len(w) # size
  <2>1. Record(w, s, size) = Append(w, s) BY <1>3 DEF Record
  <2>2. Len(Append(w, s)) = Len(w) + 1 BY <1>1
  <2>3. Len(w) + 1 \in 1 .. size BY <1>1, <1>3
  <2> QED BY <2>1, <2>2, <2>3, AppendKeepsGood
<1> QED BY <1>2, <1>3

LEMMA NatHasMinimum ==
    ASSUME NEW T \in SUBSET Nat, T # {}
    PROVE  \E x \in T : \A y \in T : x <= y
<1> DEFINE R == OpToRel(<, Nat)
<1>0. IsWellFoundedOn(R, Nat) BY NatLessThanWellFounded
<1> HIDE DEF R
<1>1. PICK x \in T : \A y \in T : ~(<<y, x>> \in R)
  BY <1>0, WFMin
<1> USE DEF R
<1>2. ASSUME NEW y \in T PROVE x <= y
  <2>1. ~(y < x)
    BY <1>1 DEF OpToRel
  <2> QED BY <2>1
<1> QED BY <1>2

\* best_peer_offset finds a sample, and no sample has a smaller round trip.
LEMMA BestIsSmallest ==
    ASSUME NEW w \in Seq(Samples), w # <<>>
    PROVE  \E b \in DOMAIN w :
              /\ BestOffset(w) = w[b].offset
              /\ \A j \in DOMAIN w : w[b].rtt <= w[j].rtt
<1>1. /\ DOMAIN w = 1 .. Len(w)
      /\ Len(w) \in Nat \ {0}
      /\ \A i \in DOMAIN w : w[i].rtt \in Nat
  <2>1. Len(w) # 0 OBVIOUS
  <2> QED BY <2>1, WindowEntries
<1> DEFINE Rtts == {w[i].rtt : i \in DOMAIN w}
<1>2. Rtts \in SUBSET Nat /\ Rtts # {} BY <1>1
<1>3. PICK r \in Rtts : \A y \in Rtts : r <= y
  BY <1>2, NatHasMinimum
<1>4. r \in Nat /\ \A j \in DOMAIN w : r <= w[j].rtt
  BY <1>2, <1>3
<1> DEFINE Best == {i \in DOMAIN w : w[i].rtt = r}
<1>5. Best \in SUBSET Nat /\ Best # {} BY <1>1, <1>3
<1>6. PICK b \in Best : \A j \in Best : b <= j
  BY <1>5, NatHasMinimum
<1>7. IsBest(w, b)
  <2>1. ASSUME NEW j \in DOMAIN w
        PROVE  \/ w[b].rtt < w[j].rtt
               \/ w[b].rtt = w[j].rtt /\ b <= j
    <3>1. CASE w[j].rtt = r BY <1>6, <3>1
    <3>2. CASE w[j].rtt # r
      <4>1. r < w[j].rtt BY <1>1, <1>4, <3>2
      <4> QED BY <1>6, <4>1
    <3> QED BY <3>1, <3>2
  <2> QED BY <1>6, <2>1 DEF IsBest
<1> DEFINE c == CHOOSE i \in DOMAIN w : IsBest(w, i)
<1>8. c \in DOMAIN w /\ IsBest(w, c)
  BY <1>6, <1>7
<1>9. BestOffset(w) = w[c].offset
  BY DEF BestOffset
<1>10. \A j \in DOMAIN w : w[c].rtt <= w[j].rtt
  <2> HIDE DEF c
  <2> TAKE j \in DOMAIN w
  <2>1. \/ w[c].rtt < w[j].rtt
        \/ w[c].rtt = w[j].rtt
    BY <1>8 DEF IsBest
  <2> QED BY <1>1, <1>8, <2>1
<1> HIDE DEF c
<1> QED BY <1>8, <1>9, <1>10

(* The offset that the link uses is as good as the best sample of the window. *)
THEOREM BestOffsetError ==
    ASSUME NEW skew \in Int, NEW w, AllGood(w, skew), w # <<>>
    PROVE  \A i \in DOMAIN w :
              LET e == BestOffset(w) - skew
              IN -w[i].rtt - 1 <= 2 * e /\ 2 * e <= w[i].rtt + 1
<1>1. w \in Seq(Samples) BY DEF AllGood
<1>2. PICK b \in DOMAIN w :
          /\ BestOffset(w) = w[b].offset
          /\ \A j \in DOMAIN w : w[b].rtt <= w[j].rtt
  BY <1>1, BestIsSmallest
<1>3. GoodSample(w[b], skew) BY DEF AllGood
<1>4. ASSUME NEW i \in DOMAIN w
      PROVE  /\ -w[i].rtt - 1 <= 2 * (BestOffset(w) - skew)
             /\ 2 * (BestOffset(w) - skew) <= w[i].rtt + 1
  <2>1. /\ w[b].offset \in Int /\ w[b].rtt \in Nat
        /\ w[i].rtt \in Nat
    BY <1>1, WindowEntries
  <2>2. w[b].rtt <= w[i].rtt BY <1>2
  <2>3. /\ -w[b].rtt - 1 <= 2 * (w[b].offset - skew)
        /\ 2 * (w[b].offset - skew) <= w[b].rtt + 1
    BY <1>3 DEF GoodSample
  <2> QED BY <1>2, <2>1, <2>2, <2>3, SMTT(30)
<1> QED BY <1>4

-----------------------------------------------------------------------------
\* The window holds samples only, and it holds one at least.
WindowInv ==
    /\ AllGood(window, Skew)
    /\ Len(window) \in 1 .. WindowSize

LEMMA SamplesAreGood ==
    ASSUME SampleDelay \in Nat, Skew \in Int, NEW s \in SampleSet
    PROVE  s \in Samples /\ GoodSample(s, Skew)
<1>1. PICK there \in 0..SampleDelay, back \in 0..SampleDelay :
        s = RoundTrip(there, back)
  BY DEF SampleSet
<1>2. there \in Nat /\ back \in Nat OBVIOUS
<1> DEFINE t == there + Skew
           o == Offset(0, t, t, there + back)
           r == Rtt(0, t, t, there + back)
<1>3. s = [offset |-> o, rtt |-> r]
  BY <1>1 DEF RoundTrip, SendWall, RecvWall
<1>4. /\ t \in Int
      /\ 0 + Skew <= t /\ t <= (there + back) + Skew
  BY <1>2
<1> HIDE DEF t
<1>5. /\ r \in Nat /\ o \in Int
      /\ -r - 1 <= 2 * (o - Skew) /\ 2 * (o - Skew) <= r + 1
  BY <1>2, <1>4, SampleError
<1> HIDE DEF o, r
<1> QED BY <1>3, <1>5 DEF Samples, GoodSample

LEMMA WindowInit == Init => WindowInv
<1> SUFFICES ASSUME Init PROVE WindowInv
  OBVIOUS
<1>1. PICK s \in SampleSet : window = <<s>>
  BY DEF Init
<1>2. s \in Samples /\ GoodSample(s, Skew)
  BY SamplesAreGood, ConstantsAssumption DEF ConstantsAssumption
<1>3. /\ <<s>> \in Seq(Samples) /\ Len(<<s>>) = 1
      /\ DOMAIN <<s>> = {1} /\ <<s>>[1] = s
  BY <1>2
<1>4. WindowSize \in Nat \ {0} BY ConstantsAssumption DEF ConstantsAssumption
<1> QED BY <1>1, <1>2, <1>3, <1>4 DEF WindowInv, AllGood

LEMMA WindowStep == WindowInv /\ [Next]_vars => WindowInv'
<1> SUFFICES ASSUME WindowInv, [Next]_vars PROVE WindowInv'
  OBVIOUS
<1>1. CASE UNCHANGED window
  BY <1>1 DEF WindowInv
<1>2. CASE Sample
  <2>1. PICK s \in SampleSet : window' = Record(window, s, WindowSize)
    BY <1>2 DEF Sample
  <2>2. s \in Samples /\ GoodSample(s, Skew)
    BY SamplesAreGood, ConstantsAssumption DEF ConstantsAssumption
  <2>3. WindowSize \in Nat \ {0} BY ConstantsAssumption DEF ConstantsAssumption
  <2>4. AllGood(window, Skew) /\ Len(window) <= WindowSize
    BY <2>3 DEF WindowInv
  <2> QED BY <2>1, <2>2, <2>3, <2>4, RecordKeepsGood DEF WindowInv
<1>3. CASE Tick BY <1>1, <1>3 DEF Tick
<1>4. CASE SendFrame BY <1>1, <1>4 DEF SendFrame
<1>5. CASE RecvFrame BY <1>1, <1>5 DEF RecvFrame
<1>6. CASE UNCHANGED vars BY <1>1, <1>6 DEF vars
<1> QED BY <1>2, <1>3, <1>4, <1>5, <1>6 DEF Next

LEMMA WindowImpliesError == WindowInv => OffsetError
<1> SUFFICES ASSUME WindowInv PROVE OffsetError
  OBVIOUS
<1>1. AllGood(window, Skew) /\ window # <<>>
  BY DEF WindowInv
<1>2. Skew \in Int BY ConstantsAssumption DEF ConstantsAssumption
<1> QED BY <1>1, <1>2, BestOffsetError DEF OffsetError

(* "The error that remains is one half of the difference between the two      *)
(* directions of the path": best_peer_offset is within half of each round     *)
(* trip of the window, in every state.                                        *)
THEOREM OffsetIsBounded == Spec => []OffsetError
<1>1. Spec => []WindowInv
  BY WindowInit, WindowStep, PTL DEF Spec
<1> QED BY <1>1, WindowImpliesError, PTL

-----------------------------------------------------------------------------
(* The place of an edge on the clock of the receiver.                         *)

\* How long a message can wait for a frame of the receiver: the network holds it back, and
\* then the frame that polls the transport takes its time.
Transit == MaxFrame + (IF MaxDelay > 0 THEN MaxDelay - 1 ELSE 0)

\* One message of a pair of consoles is quick enough for the link: after an edge, k frames
\* of the sender that can have the next edge of the message end, and the edge arrives,
\* before either end measures its clock again.
MessageFits ==
    \A k \in Nat : k * FrameTime < FrameTime + MessageGap => k * MaxFrame + Transit < RelatchIdle

\* Two edges, b after a.  Edges of one message are apart on the wall clock of the sender as
\* on the clock of its core, and the second one follows the first one soon.
Near(a, b) ==
    b.made - a.made <= MessageGap =>
        b.at - a.at = b.made - a.made /\ b.sentAt + Transit < a.sentAt + RelatchIdle

\* What is known of the last edge that the receiver took: its time on the wall clock of the
\* sender, as the latch of the receiver has it, and a time at which it was there.
LastHeard ==
    [made |-> heard[Len(heard)].made,
     at |-> (heard[Len(heard)].at - Playout) + (recvLatch.offset + recvLatch.peer),
     sentAt |-> recvLatch.lastEdge]

LastEdge == IF wire # <<>> THEN wire[Len(wire)] ELSE LastHeard

\* The sender completed frames from time t on, and the last one at time u: its core was at
\* least at core time m before, and it is at core time c now.
Frames(m, c, t, u) == \E k \in Nat : m + k * FrameTime <= c /\ u - t <= k * MaxFrame

\* The latch of the sender is the one that placed the edge, or the edge is too long ago to
\* be in one message with the next edge.
SenderEnd(z) ==
    /\ \/ sendLatch.valid /\ z.at = z.made + sendLatch.offset
       \/ sendCore - z.made >= MessageGap
    /\ Frames(z.made, sendCore, sendLatch.lastEdge - Skew, sendFrame)
    /\ sendLatch.lastEdge - Skew <= z.sentAt

LatchType == [valid : BOOLEAN, offset : Int, peer : Int, lastEdge : Int]
WireType  == [at : Int, sentAt : Nat, made : Nat]
HeardType == [made : Nat, at : Nat, lead : Int]

ClockInv ==
    /\ {now, sendFrame, recvFrame, sendCore, recvCore} \subseteq Nat
    /\ 0 <= now - sendFrame /\ now - sendFrame <= MaxFrame
    /\ 0 <= now - recvFrame /\ now - recvFrame <= MaxFrame
    /\ {sendLatch, recvLatch} \subseteq LatchType
    /\ recvCore >= Playout
    /\ sendLatch.lastEdge - Skew <= sendFrame
    /\ recvLatch.lastEdge <= recvFrame
    /\ recvLatch.valid => recvLatch.offset <= recvFrame - recvCore /\ recvLatch.peer <= Skew + SampleDelay

\* The samples have round trips that the network allows.
TripInv == WindowInv /\ \A i \in DOMAIN window : window[i].rtt <= 2 * SampleDelay

\* An edge on the way at time t, where the last frame of the receiver is of time r: it was
\* sent not long ago, and it is not much behind the wall clock of the sender at that time.
OnTheWay(m, drift, t, r) ==
    /\ m.sentAt <= t
    /\ r < m.sentAt + MaxDelay \/ r <= m.sentAt
    /\ m.sentAt + Skew + 1 <= m.at + FrameTime + drift

EdgeInv(drift) ==
    /\ wire \in Seq(WireType) /\ heard \in Seq(HeardType)
    /\ heard # <<>> => recvLatch.valid
    /\ \A i \in 1..Len(wire) : OnTheWay(wire[i], drift, now, recvFrame)
    /\ \A i \in 1..Len(wire) - 1 : Near(wire[i], wire[i + 1])
    /\ heard # <<>> /\ wire # <<>> => Near(LastHeard, wire[1])
    /\ heard # <<>> \/ wire # <<>> => SenderEnd(LastEdge)

PlayInv(drift) == ClockInv /\ TripInv /\ EdgeInv(drift) /\ PlayoutIsExact

\* How much more than core time passed since the latch of the sender was measured.
DriftWithin(drift) == sendLatch.valid => sendFrame + Skew - sendCore - sendLatch.offset <= drift

-----------------------------------------------------------------------------
LEMMA ClockConstants ==
    /\ FrameTime \in Nat /\ FrameTime > 0 /\ MaxFrame \in Nat /\ FrameTime <= MaxFrame
    /\ MaxDelay \in Nat /\ SampleDelay \in Nat /\ MessageGap \in Nat /\ RelatchIdle \in Nat /\ RelatchIdle > 0
    /\ Playout \in Nat /\ Playout > 0 /\ Skew \in Int /\ Transit \in Nat /\ WindowSize \in Nat /\ WindowSize > 0
BY ConstantsAssumption DEF ConstantsAssumption, Transit

\* A round trip is the time that its two messages take.
LEMMA SampleTrip ==
    ASSUME NEW s \in SampleSet
    PROVE  s \in Samples /\ GoodSample(s, Skew) /\ s.rtt <= 2 * SampleDelay
<1>1. PICK there \in 0..SampleDelay, back \in 0..SampleDelay : s = RoundTrip(there, back)
  BY DEF SampleSet
<1>2. s \in Samples /\ GoodSample(s, Skew)
  BY ClockConstants, SamplesAreGood
<1>3. s.rtt = there + back
  <2> DEFINE t == SendWall(there)
  <2>1. s.rtt = Rtt(0, t, t, RecvWall(there + back))
    BY <1>1 DEF RoundTrip
  <2>2. t \in Int
    BY ClockConstants DEF SendWall
  <2> HIDE DEF t
  <2> QED BY <2>1, <2>2 DEF Rtt, RecvWall
<1> QED BY <1>2, <1>3, ClockConstants

LEMMA TripStart == Init => TripInv
<1> SUFFICES ASSUME Init PROVE TripInv
  OBVIOUS
<1>1. PICK s \in SampleSet : window = <<s>>
  BY DEF Init
<1>2. DOMAIN <<s>> = {1} /\ <<s>>[1] = s
  OBVIOUS
<1> QED BY <1>1, <1>2, SampleTrip, WindowInit DEF TripInv

LEMMA TripStep == TripInv /\ [Next]_vars => TripInv'
<1> SUFFICES ASSUME TripInv, [Next]_vars PROVE TripInv'
  OBVIOUS
<1>1. WindowInv'
  BY WindowStep DEF TripInv
<1>2. CASE UNCHANGED window
  BY <1>1, <1>2 DEF TripInv
<1>3. CASE Sample
  <2>1. PICK s \in SampleSet : window' = Record(window, s, WindowSize)
    BY <1>3 DEF Sample
  <2>2. s \in Samples /\ s.rtt <= 2 * SampleDelay
    BY SampleTrip
  <2>3. window \in Seq(Samples) /\ Len(window) \in 1..WindowSize /\ Len(window) \in Nat
        /\ DOMAIN window = 1..Len(window) /\ window # <<>>
    BY DEF TripInv, WindowInv, AllGood
  <2>4. \A i \in 1..Len(window) : window[i].rtt <= 2 * SampleDelay
    BY <2>3 DEF TripInv
  <2>5. ASSUME NEW w \in Seq(Samples), \A i \in 1..Len(w) : w[i].rtt <= 2 * SampleDelay
        PROVE  \A i \in DOMAIN Append(w, s) : Append(w, s)[i].rtt <= 2 * SampleDelay
    <3>1. /\ DOMAIN Append(w, s) = 1..Len(w) + 1 /\ Len(w) \in Nat
          /\ \A i \in 1..Len(w) : Append(w, s)[i] = w[i]
          /\ Append(w, s)[Len(w) + 1] = s
      BY <2>2, AppendProperties
    <3>2. ASSUME NEW i \in 1..Len(w) + 1 PROVE Append(w, s)[i].rtt <= 2 * SampleDelay
      <4>1. i = Len(w) + 1 \/ i \in 1..Len(w)
        BY <3>1
      <4> QED BY <2>2, <2>5, <3>1, <4>1
    <3> QED BY <3>1, <3>2
  <2>6. CASE Len(window) = WindowSize
    <3>1. /\ Tail(window) \in Seq(Samples) /\ Len(Tail(window)) = Len(window) - 1
          /\ \A i \in 1..Len(Tail(window)) : Tail(window)[i] = window[i + 1]
      BY <2>3, HeadTailProperties
    <3>2. \A i \in 1..Len(Tail(window)) : i + 1 \in 1..Len(window)
      BY <2>3, <3>1
    <3>3. \A i \in 1..Len(Tail(window)) : Tail(window)[i].rtt <= 2 * SampleDelay
      BY <2>4, <3>1, <3>2
    <3>4. window' = Append(Tail(window), s)
      BY <2>1, <2>6 DEF Record
    <3> QED BY <1>1, <2>5, <3>1, <3>3, <3>4 DEF TripInv
  <2>7. CASE Len(window) # WindowSize
    <3>1. window' = Append(window, s)
      BY <2>1, <2>7 DEF Record
    <3> QED BY <1>1, <2>3, <2>4, <2>5, <3>1 DEF TripInv
  <2> QED BY <2>6, <2>7
<1>4. Tick \/ SendFrame \/ RecvFrame \/ UNCHANGED vars => UNCHANGED window
  BY DEF Tick, SendFrame, RecvFrame, vars
<1> QED BY <1>2, <1>3, <1>4 DEF Next

\* The offset of the best sample is not much above the difference of the clocks.
LEMMA OffsetBound ==
    ASSUME TripInv
    PROVE  BestOffset(window) \in Int /\ BestOffset(window) <= Skew + SampleDelay
<1>1. window \in Seq(Samples) /\ window # <<>> /\ DOMAIN window = 1..Len(window) /\ Len(window) \in Nat
  BY WindowEntries DEF TripInv, WindowInv, AllGood
<1>2. PICK b \in DOMAIN window : BestOffset(window) = window[b].offset
  BY <1>1, BestIsSmallest
<1>3. GoodSample(window[b], Skew) /\ window[b].rtt <= 2 * SampleDelay
      /\ window[b].offset \in Int /\ window[b].rtt \in Nat
  BY <1>1, WindowEntries DEF TripInv, WindowInv, AllGood
<1>4. \A o, r, d, k \in Int : 2 * (o - k) <= r + 1 /\ r <= 2 * d => o <= k + d
  BY SMTT(30)
<1> QED BY <1>2, <1>3, <1>4, ClockConstants DEF GoodSample

-----------------------------------------------------------------------------
LEMMA FramesStart ==
    ASSUME NEW m \in Int, NEW c \in Int, NEW u \in Int, m <= c
    PROVE  Frames(m, c, u, u)
<1>1. 0 \in Nat /\ m + 0 * FrameTime <= c /\ u - u <= 0 * MaxFrame
  BY ClockConstants
<1> QED BY <1>1 DEF Frames

LEMMA FramesMore ==
    ASSUME NEW m \in Int, NEW c \in Int, NEW t \in Int, NEW u \in Int, NEW v \in Int,
           Frames(m, c, t, u), v - u <= MaxFrame
    PROVE  Frames(m, c + FrameTime, t, v)
<1>1. PICK k \in Nat : m + k * FrameTime <= c /\ u - t <= k * MaxFrame
  BY DEF Frames
<1>2. /\ (k + 1) * FrameTime = k * FrameTime + FrameTime /\ (k + 1) * MaxFrame = k * MaxFrame + MaxFrame
      /\ k * FrameTime \in Int /\ k * MaxFrame \in Int
  BY ClockConstants, SMTT(30)
<1>3. m + (k + 1) * FrameTime <= c + FrameTime /\ v - t <= (k + 1) * MaxFrame /\ k + 1 \in Nat
  BY <1>1, <1>2, ClockConstants
<1> QED BY <1>3 DEF Frames

LEMMA FramesSoon ==
    ASSUME MessageFits, NEW m \in Int, NEW c \in Int, NEW t \in Int, NEW u \in Int, NEW v \in Int,
           Frames(m, c, t, u), v - u <= MaxFrame, c - m < MessageGap
    PROVE  (v - t) + Transit < RelatchIdle
<1>1. PICK k \in Nat : m + k * FrameTime <= c /\ u - t <= k * MaxFrame
  BY DEF Frames
<1>2. /\ (k + 1) * FrameTime = k * FrameTime + FrameTime /\ (k + 1) * MaxFrame = k * MaxFrame + MaxFrame
      /\ k * FrameTime \in Int /\ k * MaxFrame \in Int
  BY ClockConstants, SMTT(30)
<1>3. (k + 1) * FrameTime < FrameTime + MessageGap /\ k + 1 \in Nat
  BY <1>1, <1>2, ClockConstants
<1>4. (k + 1) * MaxFrame + Transit < RelatchIdle
  BY <1>3 DEF MessageFits
<1>5. v - t <= (k + 1) * MaxFrame
  BY <1>1, <1>2, ClockConstants
<1> QED BY <1>2, <1>4, <1>5, ClockConstants

LEMMA RelatchResult ==
    ASSUME NEW latch \in LatchType, NEW wall \in Int, NEW core \in Int, NEW best \in Int
    PROVE  LET r == Relatch(latch, wall, core, best)
           IN  /\ r \in LatchType /\ r.lastEdge = latch.lastEdge /\ r.valid
               /\ \/ r = latch /\ wall - latch.lastEdge < RelatchIdle
                  \/ /\ r.offset = wall - core /\ r.peer = best
                     /\ latch.valid => wall - latch.lastEdge >= RelatchIdle
<1>1. latch.valid \in BOOLEAN /\ latch.lastEdge \in Int /\ RelatchIdle \in Int
  BY ClockConstants DEF LatchType
<1>2. CASE ~latch.valid \/ wall - latch.lastEdge >= RelatchIdle
  <2> DEFINE r == [latch EXCEPT !.valid = TRUE, !.offset = wall - core, !.peer = best]
  <2>1. Relatch(latch, wall, core, best) = r
    BY <1>2 DEF Relatch
  <2>2. r \in LatchType /\ r.lastEdge = latch.lastEdge /\ r.valid /\ r.offset = wall - core /\ r.peer = best
    <3>1. wall - core \in Int
      OBVIOUS
    <3> DEFINE o == wall - core
    <3>2. r = [latch EXCEPT !.valid = TRUE, !.offset = o, !.peer = best] /\ o \in Int
      BY <3>1
    <3> HIDE DEF o, r
    <3>3. latch = [valid |-> latch.valid, offset |-> latch.offset, peer |-> latch.peer, lastEdge |-> latch.lastEdge]
      BY Zenon DEF LatchType
    <3>4. r = [valid |-> TRUE, offset |-> o, peer |-> best, lastEdge |-> latch.lastEdge]
      BY <3>2, Zenon DEF LatchType
    <3>5. r \in LatchType
      BY <1>1, <3>2, <3>4, Zenon DEF LatchType
    <3> QED BY <3>4, <3>5 DEF o
  <2> HIDE DEF r
  <2> QED BY <1>2, <2>1, <2>2
<1>3. CASE ~(~latch.valid \/ wall - latch.lastEdge >= RelatchIdle)
  <2>1. Relatch(latch, wall, core, best) = latch
    BY <1>3 DEF Relatch
  <2>2. latch.valid /\ wall - latch.lastEdge < RelatchIdle
    BY <1>1, <1>3
  <2> QED BY <2>1, <2>2
<1> QED BY <1>2, <1>3

\* The pump of the sender, with latch the latch after it.
Sends(n, edges, latch, group) ==
    /\ n \in Nat /\ edges \in [1..n -> sendCore + 1 .. sendCore + FrameTime]
    /\ now - sendFrame >= FrameTime
    /\ sendFrame' = now /\ sendCore' = sendCore + FrameTime
    /\ latch = Relatch(sendLatch, SendWall(now), sendCore + FrameTime, 0)
    /\ group = [i \in 1..n |-> [at |-> edges[i] + latch.offset, sentAt |-> now, made |-> edges[i]]]
    /\ wire' = wire \o group
    /\ sendLatch' = IF n = 0 THEN latch ELSE [latch EXCEPT !.lastEdge = SendWall(now)]
    /\ UNCHANGED <<now, recvFrame, recvCore, recvLatch, window, samples, heard>>

LEMMA SendCases ==
    ASSUME ClockInv, SendFrame
    PROVE  \E n, edges, latch, group : Sends(n, edges, latch, group)
<1>1. PICK n \in 0..FrameTime : \E edges \in [1..n -> sendCore + 1 .. sendCore + FrameTime] : SendPump(edges)
  BY DEF SendFrame
<1>2. PICK edges \in [1..n -> sendCore + 1 .. sendCore + FrameTime] : SendPump(edges)
  BY <1>1
<1> DEFINE latch == Relatch(sendLatch, SendWall(now), sendCore', 0)
           group == [i \in DOMAIN edges |-> [at |-> LocalToWall(latch.offset, edges[i]), sentAt |-> now, made |-> edges[i]]]
<1>3. /\ wire' = wire \o group
      /\ sendLatch' = IF edges = <<>> THEN latch ELSE [latch EXCEPT !.lastEdge = SendWall(now)]
  BY <1>2 DEF SendPump
<1>4. /\ now - sendFrame >= FrameTime
      /\ sendFrame' = now /\ sendCore' = sendCore + FrameTime
      /\ UNCHANGED <<now, recvFrame, recvCore, recvLatch, window, samples, heard>>
  BY DEF SendFrame
<1>5. n \in Nat /\ (edges = <<>> <=> n = 0)
  <2>1. n \in Nat /\ DOMAIN edges = 1..n
    BY ClockConstants
  <2>2. edges \in Seq(Int) /\ Len(edges) = n
    <3>1. \A i \in 1..n : edges[i] \in Int
      BY DEF ClockInv
    <3>2. edges \in [1..n -> Int]
      BY <3>1
    <3> QED BY <2>1, <3>2
  <2> QED BY <2>1, <2>2
<1>6. latch = Relatch(sendLatch, SendWall(now), sendCore + FrameTime, 0)
  BY <1>4
<1>7. group = [i \in 1..n |-> [at |-> edges[i] + latch.offset, sentAt |-> now, made |-> edges[i]]]
  BY DEF LocalToWall
<1> HIDE DEF latch, group
<1>8. sendLatch' = IF n = 0 THEN latch ELSE [latch EXCEPT !.lastEdge = SendWall(now)]
  BY <1>3, <1>5
<1>9. Sends(n, edges, latch, group)
  BY <1>3, <1>4, <1>5, <1>6, <1>7, <1>8 DEF Sends
<1> QED BY <1>9

\* The latch of the sender after its pump: it keeps the offset as long as the next edge can
\* be in one message with the last one.
LEMMA SendLatch ==
    ASSUME ClockInv, NEW n, NEW edges, NEW latch, NEW group, Sends(n, edges, latch, group)
    PROVE  /\ latch \in LatchType /\ latch.lastEdge = sendLatch.lastEdge /\ latch.valid
           /\ sendLatch.valid /\ now + Skew - sendLatch.lastEdge < RelatchIdle => latch = sendLatch
           /\ sendLatch'.valid /\ sendLatch'.offset = latch.offset /\ sendLatch' \in LatchType
           /\ sendLatch'.lastEdge = IF n = 0 THEN sendLatch.lastEdge ELSE now + Skew
<1>1. sendLatch \in LatchType /\ now \in Int /\ sendCore + FrameTime \in Int /\ now + Skew \in Int /\ 0 \in Int
  BY ClockConstants DEF ClockInv
<1>2. latch = Relatch(sendLatch, now + Skew, sendCore + FrameTime, 0)
  BY DEF Sends, SendWall
<1> DEFINE wall == now + Skew
           core == sendCore + FrameTime
<1>3. wall \in Int /\ core \in Int /\ latch = Relatch(sendLatch, wall, core, 0) /\ wall = now + Skew
  BY <1>1, <1>2
<1> HIDE DEF wall, core
<1>4. /\ latch \in LatchType /\ latch.lastEdge = sendLatch.lastEdge /\ latch.valid
      /\ \/ latch = sendLatch /\ wall - sendLatch.lastEdge < RelatchIdle
         \/ sendLatch.valid => wall - sendLatch.lastEdge >= RelatchIdle
  BY <1>1, <1>3, RelatchResult
<1>5. sendLatch.lastEdge \in Int
  BY <1>1 DEF LatchType
<1>6. sendLatch.valid /\ wall - sendLatch.lastEdge < RelatchIdle => latch = sendLatch
  BY <1>3, <1>4, <1>5, ClockConstants
<1>7. sendLatch' = IF n = 0 THEN latch ELSE [latch EXCEPT !.lastEdge = wall]
  BY <1>3 DEF Sends, SendWall
<1>10. ASSUME sendLatch.valid, now + Skew - sendLatch.lastEdge < RelatchIdle
       PROVE  latch = sendLatch
  <2>1. wall - sendLatch.lastEdge < RelatchIdle
    BY <1>1, <1>3, <1>5, <1>10, ClockConstants
  <2> QED BY <1>6, <1>10, <2>1
<1>11. latch \in LatchType /\ latch.lastEdge = sendLatch.lastEdge /\ latch.valid
  BY <1>4
<1> SUFFICES /\ sendLatch'.valid /\ sendLatch'.offset = latch.offset /\ sendLatch' \in LatchType
             /\ n = 0 => sendLatch'.lastEdge = sendLatch.lastEdge
             /\ n # 0 => sendLatch'.lastEdge = wall
  <2>1. n # 0 => sendLatch'.lastEdge = now + Skew
    BY <1>3, Zenon
  <2> QED BY <1>10, <1>11, <2>1, Zenon
<1>8. CASE n = 0
  <2>1. sendLatch' = latch
    BY <1>7, <1>8
  <2> QED BY <1>8, <1>11, <2>1, Zenon
<1>9. CASE n # 0
  <2>1. latch = [valid |-> latch.valid, offset |-> latch.offset, peer |-> latch.peer, lastEdge |-> latch.lastEdge]
        /\ latch.valid \in BOOLEAN /\ latch.offset \in Int /\ latch.peer \in Int
    BY <1>4, Zenon DEF LatchType
  <2>2. sendLatch' = [valid |-> latch.valid, offset |-> latch.offset, peer |-> latch.peer, lastEdge |-> wall]
    BY <1>4, <1>7, <1>9, Zenon DEF LatchType
  <2>3. sendLatch' \in LatchType
    BY <1>3, <2>1, <2>2, Zenon DEF LatchType
  <2>4. sendLatch'.valid /\ sendLatch'.offset = latch.offset /\ sendLatch'.lastEdge = wall
    BY <1>4, <2>2, Zenon
  <2> QED BY <1>9, <2>3, <2>4, Zenon
<1> QED BY <1>8, <1>9

\* The messages of one pump.
LEMMA SendGroup ==
    ASSUME ClockInv, NEW n, NEW edges, NEW latch, NEW group, Sends(n, edges, latch, group)
    PROVE  /\ group \in Seq(WireType) /\ Len(group) = n
           /\ \A i \in 1..n : /\ group[i].made \in sendCore + 1 .. sendCore + FrameTime
                              /\ group[i].at = group[i].made + latch.offset
                              /\ group[i].sentAt = now
<1>1. n \in Nat /\ sendCore \in Nat /\ now \in Nat /\ latch.offset \in Int
      /\ edges \in [1..n -> sendCore + 1 .. sendCore + FrameTime]
      /\ group = [i \in 1..n |-> [at |-> edges[i] + latch.offset, sentAt |-> now, made |-> edges[i]]]
  <2>1. latch \in LatchType
    BY SendLatch
  <2> QED BY <2>1 DEF Sends, ClockInv, LatchType
<1>2. ASSUME NEW i \in 1..n
      PROVE  /\ group[i] = [at |-> edges[i] + latch.offset, sentAt |-> now, made |-> edges[i]]
             /\ edges[i] \in sendCore + 1 .. sendCore + FrameTime
  BY <1>1
<1>3. ASSUME NEW i \in 1..n PROVE group[i] \in WireType
  <2>1. edges[i] + latch.offset \in Int /\ edges[i] \in Nat
    BY <1>1, <1>2, ClockConstants
  <2> QED BY <1>1, <1>2, <2>1, Zenon DEF WireType
<1>4. group \in [1..n -> WireType]
  BY <1>1, <1>3
<1>5. group \in Seq(WireType) /\ Len(group) = n
  BY <1>1, <1>4
<1> QED BY <1>2, <1>5

\* The last edge before the pump, and the first edge of it.
LEMMA SendAfterLast ==
    ASSUME MessageFits, ClockInv, NEW n, NEW edges, NEW latch, NEW group, Sends(n, edges, latch, group),
           NEW z, z.made \in Int, z.at \in Int, z.sentAt \in Int, SenderEnd(z), n # 0
    PROVE  Near(z, group[1])
<1>1. /\ group[1].made \in sendCore + 1 .. sendCore + FrameTime
      /\ group[1].at = group[1].made + latch.offset
      /\ group[1].sentAt = now
  <2>1. 1 \in 1..n
    BY DEF Sends
  <2> QED BY <2>1, SendGroup
<1>2. sendCore \in Int /\ now \in Int /\ sendFrame \in Int /\ sendLatch.lastEdge \in Int
      /\ sendLatch.offset \in Int /\ now - sendFrame <= MaxFrame
  BY DEF ClockInv, LatchType
<1>3. sendLatch.valid /\ now + Skew - sendLatch.lastEdge < RelatchIdle => latch = sendLatch
  BY SendLatch
<1> SUFFICES ASSUME group[1].made - z.made <= MessageGap
             PROVE  group[1].at - z.at = group[1].made - z.made
                    /\ group[1].sentAt + Transit < z.sentAt + RelatchIdle
  BY DEF Near
<1>4. sendCore - z.made < MessageGap
  BY <1>1, <1>2, ClockConstants
<1>5. sendLatch.valid /\ z.at = z.made + sendLatch.offset
  BY <1>2, <1>4, ClockConstants DEF SenderEnd
<1>6. Frames(z.made, sendCore, sendLatch.lastEdge - Skew, sendFrame) /\ sendLatch.lastEdge - Skew <= z.sentAt
  BY DEF SenderEnd
<1>7. (now - (sendLatch.lastEdge - Skew)) + Transit < RelatchIdle
  <2> DEFINE t == sendLatch.lastEdge - Skew
  <2>1. t \in Int
    BY <1>2, ClockConstants
  <2>2. Frames(z.made, sendCore, t, sendFrame)
    BY <1>6
  <2> HIDE DEF t
  <2>3. (now - t) + Transit < RelatchIdle
    BY <1>2, <1>4, <2>1, <2>2, FramesSoon
  <2> QED BY <2>3 DEF t
<1>8. latch = sendLatch
  BY <1>2, <1>3, <1>5, <1>7, ClockConstants
<1>9. group[1].at - z.at = group[1].made - z.made
  BY <1>1, <1>2, <1>5, <1>8
<1>10. group[1].sentAt + Transit < z.sentAt + RelatchIdle
  BY <1>1, <1>2, <1>6, <1>7, ClockConstants
<1> QED BY <1>9, <1>10

\* A pump with no edge leaves the end of the sender as it is.
LEMMA SendNothing ==
    ASSUME MessageFits, ClockInv, NEW edges, NEW latch, NEW group, Sends(0, edges, latch, group),
           NEW z, z.made \in Int, z.at \in Int, z.sentAt \in Int, SenderEnd(z)
    PROVE  /\ \/ sendLatch'.valid /\ z.at = z.made + sendLatch'.offset
              \/ sendCore' - z.made >= MessageGap
           /\ Frames(z.made, sendCore', sendLatch'.lastEdge - Skew, sendFrame')
           /\ sendLatch'.lastEdge - Skew <= z.sentAt
<1>1. sendCore \in Int /\ now \in Int /\ sendFrame \in Int /\ sendLatch.lastEdge \in Int
      /\ sendLatch.offset \in Int /\ now - sendFrame <= MaxFrame
  BY DEF ClockInv, LatchType
<1>2. /\ sendLatch.valid /\ now + Skew - sendLatch.lastEdge < RelatchIdle => latch = sendLatch
      /\ sendLatch'.valid /\ sendLatch'.offset = latch.offset
      /\ sendLatch'.lastEdge = sendLatch.lastEdge
  BY SendLatch
<1>3. sendFrame' = now /\ sendCore' = sendCore + FrameTime
  BY DEF Sends
<1> DEFINE t == sendLatch.lastEdge - Skew
<1>4. t \in Int /\ Frames(z.made, sendCore, t, sendFrame) /\ t <= z.sentAt
  BY <1>1, ClockConstants DEF SenderEnd
<1>5. now + Skew - sendLatch.lastEdge = now - t
  BY <1>1, ClockConstants
<1>6. sendLatch'.lastEdge - Skew = t
  BY <1>2
<1>7. \/ sendLatch.valid /\ z.at = z.made + sendLatch.offset
      \/ sendCore - z.made >= MessageGap
  BY DEF SenderEnd
<1> HIDE DEF t
<1>8. Frames(z.made, sendCore', t, sendFrame')
  BY <1>1, <1>3, <1>4, FramesMore
<1>9. CASE sendCore - z.made >= MessageGap
  <2>1. sendCore' - z.made >= MessageGap
    BY <1>1, <1>3, <1>9, ClockConstants
  <2> QED BY <1>4, <1>6, <1>8, <2>1
<1>10. CASE sendCore - z.made < MessageGap /\ sendLatch.valid /\ z.at = z.made + sendLatch.offset
  <2>1. (now - t) + Transit < RelatchIdle
    BY <1>1, <1>4, <1>10, FramesSoon
  <2>2. latch = sendLatch
    BY <1>1, <1>2, <1>4, <1>5, <1>10, <2>1, ClockConstants
  <2> QED BY <1>2, <1>4, <1>6, <1>8, <1>10, <2>2
<1> QED BY <1>1, <1>7, <1>9, <1>10, ClockConstants

LEMMA Joined ==
    ASSUME NEW S, NEW s \in Seq(S), NEW t \in Seq(S)
    PROVE  /\ s \o t \in Seq(S) /\ Len(s \o t) = Len(s) + Len(t) /\ Len(s) \in Nat /\ Len(t) \in Nat
           /\ \A i \in 1..Len(s) : (s \o t)[i] = s[i]
           /\ \A i \in 1..Len(t) : (s \o t)[Len(s) + i] = t[i]
<1>1. Len(s) \in Nat /\ Len(t) \in Nat
  OBVIOUS
<1> DEFINE m == Len(s)
           n == Len(t)
           u == s \o t
<1>2. /\ u \in Seq(S) /\ Len(u) = m + n
      /\ \A i \in 1 .. m + n : u[i] = IF i <= m THEN s[i] ELSE t[i - m]
  BY ConcatProperties
<1>3. m \in Nat /\ n \in Nat
  BY <1>1
<1> HIDE DEF m, n, u
<1>4. \A i \in 1..m : u[i] = s[i]
  BY <1>2, <1>3
<1>5. ASSUME NEW i \in 1..n PROVE u[m + i] = t[i]
  <2>1. m + i \in 1 .. m + n /\ ~(m + i <= m) /\ (m + i) - m = i
    BY <1>3
  <2> QED BY <1>2, <2>1
<1> QED BY <1>2, <1>3, <1>4, <1>5 DEF m, n, u

\* Two sequences in which a relation holds between neighbours, and between the last of the
\* one and the first of the other.
Chain(s, R) == \A i \in 1..Len(s) - 1 : <<s[i], s[i + 1]>> \in R

LEMMA ChainJoined ==
    ASSUME NEW S, NEW R, NEW s \in Seq(S), NEW t \in Seq(S), Chain(s, R), Chain(t, R),
           s # <<>> /\ t # <<>> => <<s[Len(s)], t[1]>> \in R
    PROVE  Chain(s \o t, R)
<1> DEFINE m == Len(s)
           n == Len(t)
           u == s \o t
<1>1. /\ m \in Nat /\ n \in Nat /\ Len(u) = m + n
      /\ \A i \in 1..m : u[i] = s[i]
      /\ \A i \in 1..n : u[m + i] = t[i]
  BY Joined
<1>2. (m > 0 => s # <<>>) /\ (n > 0 => t # <<>>)
  OBVIOUS
<1>3. /\ \A j \in 1..m - 1 : <<s[j], s[j + 1]>> \in R
      /\ \A j \in 1..n - 1 : <<t[j], t[j + 1]>> \in R
      /\ s # <<>> /\ t # <<>> => <<s[m], t[1]>> \in R
  BY DEF Chain
<1> SUFFICES ASSUME NEW i \in 1..Len(u) - 1 PROVE <<u[i], u[i + 1]>> \in R
  BY DEF Chain
<1> HIDE DEF m, n, u
<1>4. CASE i < m
  <2>1. i \in 1..m - 1 /\ i \in 1..m /\ i + 1 \in 1..m
    BY <1>1, <1>4
  <2> QED BY <1>1, <1>3, <2>1
<1>5. CASE i = m
  <2>1. m \in 1..m /\ 1 \in 1..n /\ i + 1 = m + 1 /\ m > 0 /\ n > 0
    BY <1>1, <1>5
  <2>2. u[i + 1] = t[1] /\ u[i] = s[m]
    BY <1>1, <1>5, <2>1
  <2> QED BY <1>2, <1>3, <2>1, <2>2
<1>6. CASE i > m
  <2> DEFINE j == i - m
  <2>1. j \in 1..n - 1 /\ j \in 1..n /\ j + 1 \in 1..n /\ i = m + j /\ i + 1 = m + (j + 1)
    BY <1>1, <1>6
  <2> HIDE DEF j
  <2>2. u[i] = t[j] /\ u[i + 1] = t[j + 1]
    BY <1>1, <2>1
  <2> QED BY <1>3, <2>1, <2>2
<1>7. i < m \/ i = m \/ i > m
  BY <1>1
<1> QED BY <1>4, <1>5, <1>6, <1>7

LEMMA NearJoined ==
    ASSUME NEW s \in Seq(WireType), NEW t \in Seq(WireType),
           \A i \in 1..Len(s) - 1 : Near(s[i], s[i + 1]),
           \A i \in 1..Len(t) - 1 : Near(t[i], t[i + 1]),
           s # <<>> /\ t # <<>> => Near(s[Len(s)], t[1])
    PROVE  \A i \in 1..Len(s \o t) - 1 : Near((s \o t)[i], (s \o t)[i + 1])
<1> DEFINE R == {p \in WireType \X WireType : Near(p[1], p[2])}
<1>1. ASSUME NEW a \in WireType, NEW b \in WireType
      PROVE  <<a, b>> \in R <=> Near(a, b)
  BY <1>1
<1>2. ASSUME NEW w \in Seq(WireType)
      PROVE  /\ Len(w) \in Nat /\ (w # <<>> => Len(w) \in 1..Len(w) /\ 1 \in 1..Len(w))
             /\ \A i \in 1..Len(w) : w[i] \in WireType
             /\ \A i \in 1..Len(w) - 1 : i \in 1..Len(w) /\ i + 1 \in 1..Len(w)
  OBVIOUS
<1> HIDE DEF R
<1>3. ASSUME NEW w \in Seq(WireType)
      PROVE  Chain(w, R) <=> \A i \in 1..Len(w) - 1 : Near(w[i], w[i + 1])
  <2>1. \A i \in 1..Len(w) - 1 : <<w[i], w[i + 1]>> \in R <=> Near(w[i], w[i + 1])
    BY <1>1, <1>2
  <2> QED BY <2>1 DEF Chain
<1>4. s # <<>> /\ t # <<>> => <<s[Len(s)], t[1]>> \in R
  BY <1>1, <1>2
<1>5. Chain(s, R) /\ Chain(t, R)
  BY <1>3
<1>6. Chain(s \o t, R)
  BY <1>4, <1>5, ChainJoined
<1>7. s \o t \in Seq(WireType)
  BY Joined
<1> QED BY <1>3, <1>6, <1>7

\* The fields of what is on the way and of what was heard.
LEMMA WireFields == \A m \in WireType : m.at \in Int /\ m.sentAt \in Nat /\ m.made \in Nat
BY DEF WireType

LEMMA LastHeardTypes ==
    ASSUME ClockInv, heard \in Seq(HeardType), heard # <<>>
    PROVE  LastHeard.made \in Int /\ LastHeard.at \in Int /\ LastHeard.sentAt \in Int
<1>1. Len(heard) \in 1..Len(heard) /\ Len(heard) \in Nat
  OBVIOUS
<1>2. heard[Len(heard)] \in HeardType
  BY <1>1
<1>3. heard[Len(heard)].made \in Int /\ heard[Len(heard)].at \in Int
  BY <1>2 DEF HeardType
<1>4. recvLatch.offset \in Int /\ recvLatch.peer \in Int /\ recvLatch.lastEdge \in Int
  BY DEF ClockInv, LatchType
<1>5. (heard[Len(heard)].at - Playout) + (recvLatch.offset + recvLatch.peer) \in Int
  BY <1>3, <1>4, ClockConstants
<1> QED BY <1>3, <1>4, <1>5 DEF LastHeard

LEMMA LastEdgeTypes ==
    ASSUME ClockInv, wire \in Seq(WireType), heard \in Seq(HeardType), heard # <<>> \/ wire # <<>>
    PROVE  LastEdge.made \in Int /\ LastEdge.at \in Int /\ LastEdge.sentAt \in Int
<1>1. CASE wire # <<>>
  <2>1. Len(wire) \in 1..Len(wire)
    BY <1>1
  <2>2. wire[Len(wire)] \in WireType
    BY <2>1
  <2> QED BY <1>1, <2>2, WireFields DEF LastEdge
<1>2. CASE wire = <<>>
  BY <1>2, LastHeardTypes DEF LastEdge
<1> QED BY <1>1, <1>2

\* The edges of one pump are near to each other, and each one is quite new.
LEMMA SendGroupNear ==
    ASSUME MessageFits, NEW drift \in Nat, DriftWithin(drift)', ClockInv,
           NEW n, NEW edges, NEW latch, NEW group, Sends(n, edges, latch, group)
    PROVE  /\ \A i \in 1..n - 1 : Near(group[i], group[i + 1])
           /\ \A i \in 1..n : OnTheWay(group[i], drift, now, recvFrame)
<1>1. /\ \A i \in 1..n : /\ group[i].made \in sendCore + 1 .. sendCore + FrameTime
                         /\ group[i].at = group[i].made + latch.offset
                         /\ group[i].sentAt = now
      /\ n \in Nat
  BY SendGroup DEF Sends
<1>2. now \in Nat /\ sendCore \in Nat /\ recvFrame <= now /\ recvFrame \in Nat /\ latch.offset \in Int
  <2>1. latch \in LatchType
    BY SendLatch
  <2> QED BY <2>1 DEF ClockInv, LatchType
<1>3. Transit < RelatchIdle
  <2>1. 0 \in Nat /\ 0 * FrameTime < FrameTime + MessageGap
    BY ClockConstants
  <2>2. 0 * MaxFrame + Transit < RelatchIdle
    BY <2>1 DEF MessageFits
  <2> QED BY <2>2, ClockConstants
<1>4. ASSUME NEW i \in 1..n - 1 PROVE Near(group[i], group[i + 1])
  <2>1. i \in 1..n /\ i + 1 \in 1..n
    BY <1>1
  <2> DEFINE a == group[i]
             b == group[i + 1]
  <2>2. a.made \in Int /\ b.made \in Int /\ a.at = a.made + latch.offset /\ b.at = b.made + latch.offset
        /\ a.sentAt = now /\ b.sentAt = now
    BY <1>1, <1>2, <2>1
  <2> HIDE DEF a, b
  <2>3. Near(a, b)
    BY <1>2, <1>3, <2>2, ClockConstants DEF Near
  <2> QED BY <2>3 DEF a, b
<1>5. now + Skew - (sendCore + FrameTime) - latch.offset <= drift
  <2>1. /\ sendLatch'.valid /\ sendLatch'.offset = latch.offset
        /\ sendFrame' = now /\ sendCore' = sendCore + FrameTime
    BY SendLatch DEF Sends
  <2>2. sendLatch'.valid => sendFrame' + Skew - sendCore' - sendLatch'.offset <= drift
    BY DEF DriftWithin
  <2>3. sendFrame' + Skew - sendCore' - sendLatch'.offset <= drift
    BY <2>1, <2>2, Zenon
  <2> QED BY <2>1, <2>3
<1>6. ASSUME NEW i \in 1..n PROVE OnTheWay(group[i], drift, now, recvFrame)
  <2> DEFINE a == group[i]
  <2>1. a.made \in sendCore + 1 .. sendCore + FrameTime /\ a.at = a.made + latch.offset /\ a.sentAt = now
    BY <1>1
  <2> HIDE DEF a
  <2>2. a.sentAt + Skew + 1 <= a.at + FrameTime + drift
    BY <1>2, <1>5, <2>1, ClockConstants
  <2>3. OnTheWay(a, drift, now, recvFrame)
    BY <1>2, <2>1, <2>2 DEF OnTheWay
  <2> QED BY <2>3 DEF a
<1> QED BY <1>4, <1>6

LEMMA SendKeepsEdges ==
    ASSUME MessageFits, NEW drift \in Nat, DriftWithin(drift)', ClockInv, EdgeInv(drift), SendFrame
    PROVE  EdgeInv(drift)' /\ SpacingExact' = SpacingExact
<1>1. PICK n, edges, latch, group : Sends(n, edges, latch, group)
  BY SendCases
<1>2. /\ wire' = wire \o group /\ n \in Nat
      /\ UNCHANGED <<now, recvFrame, recvCore, recvLatch, window, samples, heard>>
  BY <1>1 DEF Sends
<1>3. /\ wire \in Seq(WireType) /\ heard \in Seq(HeardType)
      /\ heard # <<>> => recvLatch.valid
      /\ \A i \in 1..Len(wire) : OnTheWay(wire[i], drift, now, recvFrame)
      /\ \A i \in 1..Len(wire) - 1 : Near(wire[i], wire[i + 1])
      /\ heard # <<>> /\ wire # <<>> => Near(LastHeard, wire[1])
      /\ heard # <<>> \/ wire # <<>> => SenderEnd(LastEdge)
  BY DEF EdgeInv
<1>4. group \in Seq(WireType) /\ Len(group) = n
  BY <1>1, SendGroup
<1>5. /\ \A i \in 1..n - 1 : Near(group[i], group[i + 1])
      /\ \A i \in 1..n : OnTheWay(group[i], drift, now, recvFrame)
  BY <1>1, SendGroupNear
<1>6. /\ wire' \in Seq(WireType) /\ Len(wire') = Len(wire) + n /\ Len(wire) \in Nat
      /\ \A i \in 1..Len(wire) : wire'[i] = wire[i]
      /\ \A i \in 1..n : wire'[Len(wire) + i] = group[i]
  <2>1. wire \in Seq(WireType) /\ group \in Seq(WireType)
    BY <1>3, <1>4
  <2> DEFINE u == wire \o group
  <2>2. /\ u \in Seq(WireType) /\ Len(u) = Len(wire) + Len(group) /\ Len(wire) \in Nat
        /\ \A i \in 1..Len(wire) : u[i] = wire[i]
        /\ \A i \in 1..Len(group) : u[Len(wire) + i] = group[i]
    BY <2>1, Joined
  <2>3. wire' = u
    BY <1>2
  <2> HIDE DEF u
  <2> QED BY <1>4, <2>2, <2>3
<1>7. heard # <<>> \/ wire # <<>> => LastEdge.made \in Int /\ LastEdge.at \in Int /\ LastEdge.sentAt \in Int
  BY <1>3, LastEdgeTypes
<1>8. n # 0 /\ (heard # <<>> \/ wire # <<>>) => Near(LastEdge, group[1])
  BY <1>1, <1>3, <1>7, SendAfterLast
<1>9. LastHeard' = LastHeard
  BY <1>2 DEF LastHeard
<1>10. \A i \in 1..Len(wire') : OnTheWay(wire'[i], drift, now', recvFrame')
  <2> SUFFICES ASSUME NEW i \in 1..Len(wire) + n PROVE OnTheWay(wire'[i], drift, now', recvFrame')
    BY <1>6
  <2>1. OnTheWay(wire'[i], drift, now, recvFrame)
    <3>1. CASE i \in 1..Len(wire)
      BY <1>3, <1>6, <3>1
    <3>2. CASE ~(i \in 1..Len(wire))
      <4>1. PICK j \in 1..n : i = Len(wire) + j
        <5>1. i - Len(wire) \in 1..n /\ i = Len(wire) + (i - Len(wire))
          BY <1>2, <1>6, <3>2
        <5> QED BY <5>1
      <4> QED BY <1>5, <1>6, <4>1
    <3> QED BY <3>1, <3>2
  <2> QED BY <1>2, <2>1
<1>11. \A i \in 1..Len(wire') - 1 : Near(wire'[i], wire'[i + 1])
  <2>1. wire # <<>> /\ group # <<>> => Near(wire[Len(wire)], group[1])
    <3>1. group # <<>> => n # 0
      BY <1>4
    <3>2. wire # <<>> => LastEdge = wire[Len(wire)]
      BY DEF LastEdge
    <3> QED BY <1>8, <3>1, <3>2
  <2> QED BY <1>2, <1>3, <1>4, <1>5, <2>1, NearJoined
<1>12. heard' # <<>> /\ wire' # <<>> => Near(LastHeard', wire'[1])
  <2>1. CASE wire # <<>>
    <3>1. 1 \in 1..Len(wire)
      BY <1>3, <2>1
    <3> QED BY <1>2, <1>3, <1>6, <1>9, <2>1, <3>1
  <2>2. CASE wire = <<>>
    <3>1. wire' # <<>> => n # 0
      BY <1>6, <2>2
    <3>2. n # 0 => 1 \in 1..n /\ Len(wire) + 1 = 1
      BY <1>2, <2>2
    <3>3. n # 0 => wire'[1] = group[1]
      BY <1>6, <3>2
    <3>4. LastEdge = LastHeard
      BY <2>2 DEF LastEdge
    <3> QED BY <1>2, <1>8, <1>9, <3>1, <3>3, <3>4
  <2> QED BY <2>1, <2>2
<1>13. heard' # <<>> \/ wire' # <<>> => SenderEnd(LastEdge)'
  <2>1. CASE n = 0
    <3>1. wire' = wire
      <4>1. group = <<>>
        BY <1>4, <2>1
      <4> QED BY <1>2, <1>3, <4>1, ConcatEmptySeq
    <3>2. LastEdge' = LastEdge
      BY <1>9, <3>1 DEF LastEdge
    <3> SUFFICES ASSUME heard # <<>> \/ wire # <<>> PROVE SenderEnd(LastEdge)'
      BY <1>2, <3>1
    <3> DEFINE z == LastEdge
    <3>3. z.made \in Int /\ z.at \in Int /\ z.sentAt \in Int /\ SenderEnd(z) /\ z = LastEdge
      BY <1>3, <1>7
    <3>4. Sends(0, edges, latch, group)
      BY <1>1, <2>1
    <3> HIDE DEF z
    <3>5. /\ \/ sendLatch'.valid /\ z.at = z.made + sendLatch'.offset
             \/ sendCore' - z.made >= MessageGap
          /\ Frames(z.made, sendCore', sendLatch'.lastEdge - Skew, sendFrame')
          /\ sendLatch'.lastEdge - Skew <= z.sentAt
      BY <3>3, <3>4, SendNothing
    <3> QED BY <3>2, <3>3, <3>5 DEF SenderEnd
  <2>2. CASE n # 0
    <3>1. n \in 1..n /\ Len(wire') = Len(wire) + n /\ wire' # <<>>
      BY <1>2, <1>6, <2>2
    <3>2. LastEdge' = group[n]
      BY <1>6, <3>1 DEF LastEdge
    <3> DEFINE z == group[n]
    <3>3. /\ z.made \in sendCore + 1 .. sendCore + FrameTime
          /\ z.at = z.made + latch.offset
          /\ z.sentAt = now
      BY <1>1, <3>1, SendGroup
    <3>4. z = LastEdge'
      BY <3>2
    <3> HIDE DEF z
    <3>5. /\ sendLatch'.valid /\ sendLatch'.offset = latch.offset
          /\ sendLatch'.lastEdge = now + Skew
      BY <1>1, <2>2, SendLatch
    <3>6. sendCore \in Int /\ now \in Int /\ sendFrame' = now /\ sendCore' = sendCore + FrameTime
      BY <1>1 DEF ClockInv, Sends
    <3>7. sendLatch'.lastEdge - Skew = now
      BY <3>5, <3>6, ClockConstants
    <3>8. Frames(z.made, sendCore', sendLatch'.lastEdge - Skew, sendFrame')
      <4>1. z.made \in Int /\ sendCore' \in Int /\ z.made <= sendCore'
        BY <3>3, <3>6, ClockConstants
      <4> QED BY <3>6, <3>7, <4>1, FramesStart
    <3>9. sendLatch'.lastEdge - Skew <= z.sentAt
      BY <3>3, <3>6, <3>7
    <3> QED BY <3>3, <3>4, <3>5, <3>8, <3>9 DEF SenderEnd
  <2> QED BY <2>1, <2>2
<1>14. SpacingExact' = SpacingExact
  BY <1>2 DEF SpacingExact
<1>15. EdgeInv(drift)'
  BY <1>2, <1>3, <1>6, <1>10, <1>11, <1>12, <1>13 DEF EdgeInv
<1> QED BY <1>14, <1>15

\* The pump of the receiver: it takes k messages, latch is the latch after it.
Receives(k, latch, placed) ==
    /\ k \in 0..Len(wire)
    /\ now - recvFrame >= FrameTime
    /\ recvFrame' = now /\ recvCore' = recvCore + FrameTime
    /\ recvLatch' = latch
    /\ latch = IF k = 0 THEN recvLatch
               ELSE [Relatch(recvLatch, now, recvCore + FrameTime, BestOffset(window)) EXCEPT !.lastEdge = now]
    /\ \A i \in k + 1 .. Len(wire) : now - wire[i].sentAt < MaxDelay
    /\ placed = [i \in 1..k |-> Place(wire[i], latch, recvCore + FrameTime)]
    /\ heard' = heard \o placed
    /\ wire' = SubSeq(wire, k + 1, Len(wire))
    /\ UNCHANGED <<now, sendFrame, sendCore, sendLatch, window, samples, made>>

LEMMA RecvCases ==
    ASSUME RecvFrame
    PROVE  \E k, latch, placed : Receives(k, latch, placed)
<1>1. PICK k \in 0..Len(wire) : RecvPump(k)
  BY DEF RecvFrame
<1>2. /\ now - recvFrame >= FrameTime
      /\ recvFrame' = now /\ recvCore' = recvCore + FrameTime
      /\ UNCHANGED <<now, sendFrame, sendCore, sendLatch, window, samples, made>>
  BY DEF RecvFrame
<1> DEFINE latch == IF k = 0 THEN recvLatch
                    ELSE [Relatch(recvLatch, now, recvCore + FrameTime, BestOffset(window)) EXCEPT !.lastEdge = now]
           placed == [i \in 1..k |-> Place(wire[i], latch, recvCore + FrameTime)]
<1>3. /\ \A i \in k + 1 .. Len(wire) : now - wire[i].sentAt < MaxDelay
      /\ heard' = heard \o placed
      /\ wire' = SubSeq(wire, k + 1, Len(wire))
      /\ recvLatch' = latch
  BY <1>1, <1>2, Zenon DEF RecvPump, RecvWall
<1>4. Receives(k, latch, placed)
  BY <1>1, <1>2, <1>3, Zenon DEF Receives
<1> QED BY <1>4

\* The messages that stay with the network.
LEMMA RecvLeft ==
    ASSUME NEW k, NEW latch, NEW placed, Receives(k, latch, placed), wire \in Seq(WireType)
    PROVE  /\ wire' \in Seq(WireType) /\ Len(wire') = Len(wire) - k /\ Len(wire) \in Nat /\ k \in 0..Len(wire)
           /\ \A i \in 1..Len(wire') : wire'[i] = wire[k + i]
<1>1. k \in 0..Len(wire) /\ Len(wire) \in Nat /\ wire' = SubSeq(wire, k + 1, Len(wire))
  BY DEF Receives
<1> DEFINE m == k + 1
           n == Len(wire)
           u == SubSeq(wire, m, n)
<1>2. m \in Int /\ n \in Int /\ k \in 0..n /\ m = k + 1
  BY <1>1
<1>3. \A i \in m..n : wire[i] \in WireType
  BY <1>1
<1> HIDE DEF m, n
<1>4. /\ u \in Seq(WireType)
      /\ Len(u) = IF m <= n THEN n - m + 1 ELSE 0
      /\ \A i \in 1 .. n - m + 1 : u[i] = wire[m + i - 1]
  BY <1>2, <1>3, SubSeqProperties
<1>5. wire' = u
  BY <1>1 DEF m, n
<1> HIDE DEF u
<1>6. Len(u) = n - k
  BY <1>2, <1>4
<1>7. ASSUME NEW i \in 1..n - k PROVE u[i] = wire[k + i]
  <2>1. i \in 1 .. n - m + 1 /\ m + i - 1 = k + i
    BY <1>2
  <2> QED BY <1>4, <2>1
<1> QED BY <1>1, <1>4, <1>5, <1>6, <1>7 DEF n

\* A frame in which nothing arrives.
LEMMA RecvNothing ==
    ASSUME NEW latch, NEW placed, Receives(0, latch, placed), wire \in Seq(WireType), heard \in Seq(HeardType)
    PROVE  wire' = wire /\ heard' = heard /\ recvLatch' = recvLatch
<1>1. /\ wire' \in Seq(WireType) /\ Len(wire') = Len(wire) - 0 /\ Len(wire) \in Nat
      /\ \A i \in 1..Len(wire') : wire'[i] = wire[0 + i]
  BY RecvLeft
<1>2. Len(wire') = Len(wire)
  BY <1>1
<1>3. \A i \in 1..Len(wire') : wire'[i] = wire[i]
  <2> SUFFICES ASSUME NEW i \in 1..Len(wire') PROVE wire'[i] = wire[i]
    OBVIOUS
  <2>1. 0 + i = i
    BY <1>1, <1>2
  <2> QED BY <1>1, <2>1
<1>4. wire' = wire
  <2> DEFINE a == wire'
             b == wire
  <2>1. a \in Seq(WireType) /\ b \in Seq(WireType) /\ Len(a) = Len(b) /\ \A i \in 1..Len(a) : a[i] = b[i]
    BY <1>1, <1>2, <1>3
  <2> HIDE DEF a, b
  <2>2. a = b
    BY <2>1, SeqEqual
  <2> QED BY <2>2 DEF a, b
<1>5. placed = <<>>
  <2>1. 1..0 = {}
    OBVIOUS
  <2>2. placed = [i \in 1..0 |-> Place(wire[i], latch, recvCore + FrameTime)]
    BY DEF Receives
  <2> QED BY <2>1, <2>2
<1>6. heard' = heard
  BY <1>5, ConcatEmptySeq DEF Receives
<1>7. recvLatch' = recvLatch
  BY DEF Receives
<1> QED BY <1>4, <1>6, <1>7

\* The latch of the receiver after a message: it keeps the offsets as long as the edge can
\* be in one message with the last one.
LEMMA RecvLatch ==
    ASSUME ClockInv, TripInv, NEW k, NEW latch, NEW placed, Receives(k, latch, placed), k # 0
    PROVE  /\ latch \in LatchType /\ latch.valid /\ latch.lastEdge = now
           /\ latch.offset <= now - (recvCore + FrameTime) /\ latch.peer <= Skew + SampleDelay
           /\ recvLatch.valid /\ now - recvLatch.lastEdge < RelatchIdle =>
                latch.offset = recvLatch.offset /\ latch.peer = recvLatch.peer
<1> DEFINE best == BestOffset(window)
           core == recvCore + FrameTime
           r == Relatch(recvLatch, now, core, best)
<1>1. recvLatch \in LatchType /\ now \in Int /\ recvCore \in Int /\ recvFrame \in Int /\ core \in Int
      /\ now - recvFrame >= FrameTime
  BY ClockConstants DEF ClockInv, Receives
<1>2. best \in Int /\ best <= Skew + SampleDelay
  BY OffsetBound
<1>3. latch = [r EXCEPT !.lastEdge = now]
  BY DEF Receives
<1>4. recvLatch.valid => recvLatch.offset <= recvFrame - recvCore /\ recvLatch.peer <= Skew + SampleDelay
  BY DEF ClockInv
<1>5. core = recvCore + FrameTime
  OBVIOUS
<1> HIDE DEF best, core
<1>6. /\ r \in LatchType /\ r.lastEdge = recvLatch.lastEdge /\ r.valid
      /\ \/ r = recvLatch /\ now - recvLatch.lastEdge < RelatchIdle
         \/ /\ r.offset = now - core /\ r.peer = best
            /\ recvLatch.valid => now - recvLatch.lastEdge >= RelatchIdle
  BY <1>1, <1>2, RelatchResult
<1> HIDE DEF r
<1>7. recvLatch.lastEdge \in Int /\ recvLatch.offset \in Int /\ recvLatch.peer \in Int
      /\ r.offset \in Int /\ r.peer \in Int /\ r.valid \in BOOLEAN
      /\ r = [valid |-> r.valid, offset |-> r.offset, peer |-> r.peer, lastEdge |-> r.lastEdge]
  BY <1>1, <1>6, Zenon DEF LatchType
<1>8. latch = [valid |-> r.valid, offset |-> r.offset, peer |-> r.peer, lastEdge |-> now]
  BY <1>3, <1>6, Zenon DEF LatchType
<1>9. latch \in LatchType /\ latch.lastEdge = now /\ latch.offset = r.offset /\ latch.peer = r.peer
  BY <1>1, <1>7, <1>8, Zenon DEF LatchType
<1>10. latch.valid
  BY <1>6, <1>8, Zenon
<1>11. r.offset <= now - core /\ r.peer <= Skew + SampleDelay
  <2>1. CASE r = recvLatch
    <3>1. r.offset <= recvFrame - recvCore /\ r.peer <= Skew + SampleDelay
      BY <1>4, <1>6, <2>1, Zenon
    <3> QED BY <1>1, <1>5, <1>7, <3>1, ClockConstants
  <2>2. CASE r.offset = now - core /\ r.peer = best
    BY <1>1, <1>2, <1>7, <2>2
  <2> QED BY <1>6, <2>1, <2>2, Zenon
<1>12. ASSUME recvLatch.valid, now - recvLatch.lastEdge < RelatchIdle
       PROVE  r = recvLatch
  <2>1. ~(now - recvLatch.lastEdge >= RelatchIdle)
    BY <1>1, <1>7, <1>12, ClockConstants
  <2> QED BY <1>6, <1>12, <2>1, Zenon
<1> QED BY <1>5, <1>9, <1>10, <1>11, <1>12

\* Where an edge gets its place, if all is in time: the wall clock of the sender, with the
\* offset between the wall clocks and between the clocks of the receiver, and the delay.
LEMMA PlacedInTime ==
    ASSUME NEW drift \in Nat, drift + FrameTime + SampleDelay + Transit <= Playout,
           ClockInv, TripInv, NEW k, NEW latch, NEW placed, Receives(k, latch, placed),
           NEW m \in WireType, OnTheWay(m, drift, now, recvFrame), k # 0
    PROVE  LET p == Place(m, latch, recvCore + FrameTime)
           IN  /\ p \in HeardType /\ p.made = m.made /\ p.lead > 0
               /\ p.at = (m.at - (latch.offset + latch.peer)) + Playout
<1>1. latch.offset \in Int /\ latch.peer \in Int
      /\ latch.offset <= now - (recvCore + FrameTime) /\ latch.peer <= Skew + SampleDelay
  BY RecvLatch DEF LatchType
<1>2. now \in Nat /\ recvCore \in Nat /\ recvFrame \in Nat /\ now - recvFrame <= MaxFrame /\ recvCore >= Playout
  BY DEF ClockInv
<1>3. m.at \in Int /\ m.sentAt \in Nat /\ m.made \in Nat
  BY DEF WireType
<1>4. /\ m.sentAt <= now
      /\ recvFrame < m.sentAt + MaxDelay \/ recvFrame <= m.sentAt
      /\ m.sentAt + Skew + 1 <= m.at + FrameTime + drift
  BY DEF OnTheWay
<1>5. now - m.sentAt <= Transit
  BY <1>2, <1>3, <1>4, ClockConstants DEF Transit
<1> DEFINE local == m.at - latch.peer - latch.offset
           core == recvCore + FrameTime
<1>6. local \in Int /\ core \in Nat /\ local + Playout > core /\ local >= 0
      /\ local = m.at - (latch.offset + latch.peer)
  BY <1>1, <1>2, <1>3, <1>4, <1>5, ClockConstants
<1>7. (m.at - latch.peer) - latch.offset = local
  OBVIOUS
<1> HIDE DEF local, core
<1>8. WallToLocal(latch.offset, m.at - latch.peer) = local
  <2>1. ~(local < 0)
    BY <1>6
  <2> QED BY <1>7, <2>1, Zenon DEF WallToLocal
<1> DEFINE at == local + Playout
           lead == at - core
<1>9. at \in Nat /\ lead \in Int /\ lead > 0 /\ at = local + Playout
  BY <1>6, ClockConstants
<1> DEFINE p == Place(m, latch, recvCore + FrameTime)
<1>10. p = [made |-> m.made, at |-> at, lead |-> lead]
  BY <1>8, Zenon DEF Place, core
<1> HIDE DEF at, lead, p
<1>11. p \in HeardType /\ p.made = m.made /\ p.lead = lead /\ p.at = at
  BY <1>3, <1>9, <1>10, SMT DEF HeardType
<1>13. p \in HeardType /\ p.made = m.made /\ p.lead > 0 /\ p.at = (m.at - (latch.offset + latch.peer)) + Playout
  <2>1. local = m.at - (latch.offset + latch.peer) /\ at = local + Playout /\ lead > 0
    BY <1>6, <1>9
  <2>2. p.at = (m.at - (latch.offset + latch.peer)) + Playout
    BY <1>11, <2>1, Zenon
  <2>3. p.lead > 0
    BY <1>11, <2>1, Zenon
  <2> QED BY <1>11, <2>2, <2>3
<1> QED BY <1>13 DEF p

Exact(a, b) == b.made - a.made <= MessageGap => b.at - a.at = b.made - a.made

AllInTime(s) == \A i \in 1..Len(s) : s[i].lead > 0

AllExact(s) == \A i \in 1..Len(s) - 1 : Exact(s[i], s[i + 1])

LEMMA PlayoutParts ==
    ASSUME heard \in Seq(HeardType)
    PROVE  PlayoutIsExact <=> AllExact(heard) /\ AllInTime(heard)
<1>1. DOMAIN heard = 1..Len(heard)
  OBVIOUS
<1>2. SpacingExact <=> AllExact(heard)
  BY DEF SpacingExact, AllExact, Exact
<1>3. NoLateEdge <=> AllInTime(heard)
  BY <1>1 DEF NoLateEdge, AllInTime
<1> QED BY <1>2, <1>3 DEF PlayoutIsExact

LEMMA ExactJoined ==
    ASSUME NEW s \in Seq(HeardType), NEW t \in Seq(HeardType),
           AllExact(s), AllInTime(s), AllExact(t), AllInTime(t),
           s # <<>> /\ t # <<>> => Exact(s[Len(s)], t[1])
    PROVE  s \o t \in Seq(HeardType) /\ AllExact(s \o t) /\ AllInTime(s \o t)
<1> DEFINE R == {p \in HeardType \X HeardType : Exact(p[1], p[2])}
<1>1. ASSUME NEW a \in HeardType, NEW b \in HeardType
      PROVE  <<a, b>> \in R <=> Exact(a, b)
  BY <1>1
<1>2. ASSUME NEW w \in Seq(HeardType)
      PROVE  /\ Len(w) \in Nat /\ (w # <<>> => Len(w) \in 1..Len(w) /\ 1 \in 1..Len(w))
             /\ \A i \in 1..Len(w) : w[i] \in HeardType
             /\ \A i \in 1..Len(w) - 1 : i \in 1..Len(w) /\ i + 1 \in 1..Len(w)
  OBVIOUS
<1> HIDE DEF R
<1>3. ASSUME NEW w \in Seq(HeardType)
      PROVE  Chain(w, R) <=> AllExact(w)
  <2>1. \A i \in 1..Len(w) - 1 : <<w[i], w[i + 1]>> \in R <=> Exact(w[i], w[i + 1])
    BY <1>1, <1>2
  <2> QED BY <2>1 DEF Chain, AllExact
<1>4. s # <<>> /\ t # <<>> => <<s[Len(s)], t[1]>> \in R
  BY <1>1, <1>2
<1>5. Chain(s, R) /\ Chain(t, R)
  BY <1>3
<1>6. Chain(s \o t, R)
  BY <1>4, <1>5, ChainJoined
<1> DEFINE m == Len(s)
           n == Len(t)
           u == s \o t
<1>7. /\ u \in Seq(HeardType) /\ m \in Nat /\ n \in Nat /\ Len(u) = m + n
      /\ \A i \in 1..m : u[i] = s[i]
      /\ \A i \in 1..n : u[m + i] = t[i]
  BY Joined
<1>8. AllExact(u)
  BY <1>3, <1>6, <1>7
<1>9. (\A i \in 1..m : s[i].lead > 0) /\ (\A i \in 1..n : t[i].lead > 0)
  BY DEF AllInTime
<1> SUFFICES AllInTime(u)
  BY <1>7, <1>8
<1> HIDE DEF m, n, u
<1> SUFFICES ASSUME NEW i \in 1 .. m + n PROVE u[i].lead > 0
  BY <1>7 DEF AllInTime
<1>10. CASE i <= m
  <2>1. i \in 1..m
    BY <1>7, <1>10
  <2> QED BY <1>7, <1>9, <2>1
<1>11. CASE ~(i <= m)
  <2> DEFINE j == i - m
  <2>1. j \in 1..n /\ i = m + j
    BY <1>7, <1>11
  <2> HIDE DEF j
  <2> QED BY <1>7, <1>9, <2>1
<1> QED BY <1>10, <1>11

\* The edges of one pump, as the core of the receiver gets them.
LEMMA RecvPlaced ==
    ASSUME NEW drift \in Nat, drift + FrameTime + SampleDelay + Transit <= Playout,
           ClockInv, TripInv, EdgeInv(drift),
           NEW k, NEW latch, NEW placed, Receives(k, latch, placed), k # 0
    PROVE  /\ placed \in Seq(HeardType) /\ Len(placed) = k
           /\ \A i \in 1..k : /\ placed[i].made = wire[i].made
                              /\ placed[i].at = (wire[i].at - (latch.offset + latch.peer)) + Playout
           /\ AllExact(placed) /\ AllInTime(placed)
<1>1. k \in 0..Len(wire) /\ wire \in Seq(WireType) /\ Len(wire) \in Nat /\ k \in Nat
  BY DEF EdgeInv, Receives
<1>2. ASSUME NEW i \in 1..k
      PROVE  /\ placed[i] = Place(wire[i], latch, recvCore + FrameTime)
             /\ wire[i] \in WireType /\ OnTheWay(wire[i], drift, now, recvFrame)
  <2>1. i \in 1..Len(wire)
    BY <1>1
  <2>2. placed[i] = Place(wire[i], latch, recvCore + FrameTime)
    BY DEF Receives
  <2> QED BY <1>1, <2>1, <2>2 DEF EdgeInv
<1>3. ASSUME NEW i \in 1..k
      PROVE  /\ placed[i] \in HeardType /\ placed[i].made = wire[i].made /\ placed[i].lead > 0
             /\ placed[i].at = (wire[i].at - (latch.offset + latch.peer)) + Playout
  BY <1>2, PlacedInTime
<1>4. placed \in Seq(HeardType) /\ Len(placed) = k
  <2>1. placed = [i \in 1..k |-> placed[i]]
    BY DEF Receives
  <2>2. placed \in [1..k -> HeardType]
    BY <1>3, <2>1
  <2> QED BY <1>1, <2>2
<1>5. AllInTime(placed)
  BY <1>3, <1>4 DEF AllInTime
<1>6. latch.offset \in Int /\ latch.peer \in Int
  BY RecvLatch DEF LatchType
<1>7. ASSUME NEW i \in 1..k - 1 PROVE Exact(placed[i], placed[i + 1])
  <2>1. i \in 1..k /\ i + 1 \in 1..k /\ i \in 1..Len(wire) - 1
    BY <1>1
  <2>2. Near(wire[i], wire[i + 1])
    BY <2>1 DEF EdgeInv
  <2> DEFINE a == wire[i]
             b == wire[i + 1]
             p == placed[i]
             q == placed[i + 1]
             d == latch.offset + latch.peer
  <2>3. a \in WireType /\ b \in WireType /\ Near(a, b)
        /\ p.made = a.made /\ q.made = b.made /\ p.at = (a.at - d) + Playout /\ q.at = (b.at - d) + Playout
    BY <1>2, <1>3, <2>1, <2>2
  <2>4. d \in Int
    BY <1>6
  <2> HIDE DEF a, b, p, q, d
  <2>5. a.at \in Int /\ b.at \in Int
    BY <2>3, WireFields
  <2>6. b.made - a.made <= MessageGap => b.at - a.at = b.made - a.made
    BY <2>3 DEF Near
  <2>7. q.at - p.at = b.at - a.at
    BY <2>3, <2>4, <2>5, ClockConstants
  <2>8. Exact(p, q)
    BY <2>3, <2>6, <2>7 DEF Exact
  <2> QED BY <2>8 DEF p, q
<1> QED BY <1>3, <1>4, <1>5, <1>7 DEF AllExact

\* The last edge that was heard, and the first edge of the pump.
LEMMA RecvAfterLast ==
    ASSUME NEW drift \in Nat, drift + FrameTime + SampleDelay + Transit <= Playout,
           ClockInv, TripInv, EdgeInv(drift),
           NEW k, NEW latch, NEW placed, Receives(k, latch, placed), k # 0, heard # <<>>
    PROVE  Exact(heard[Len(heard)], placed[1])
<1>1. 1 \in 1..k /\ 1 \in 1..Len(wire) /\ wire # <<>> /\ wire \in Seq(WireType)
  BY DEF EdgeInv, Receives
<1> DEFINE a == LastHeard
           b == wire[1]
           p == heard[Len(heard)]
           q == placed[1]
           d == latch.offset + latch.peer
           e == recvLatch.offset + recvLatch.peer
<1>2. Near(a, b) /\ recvLatch.valid
  BY <1>1 DEF EdgeInv
<1>3. b \in WireType /\ OnTheWay(b, drift, now, recvFrame)
  BY <1>1 DEF EdgeInv
<1>4. q.made = b.made /\ q.at = (b.at - d) + Playout
  BY <1>1, RecvPlaced
<1>5. a.made = p.made /\ a.at = (p.at - Playout) + e /\ a.sentAt = recvLatch.lastEdge
  BY DEF LastHeard
<1>6. p \in HeardType
  <2>1. Len(heard) \in 1..Len(heard)
    BY DEF EdgeInv
  <2> QED BY <2>1 DEF EdgeInv
<1>7. d \in Int /\ e \in Int /\ recvLatch.lastEdge \in Int
  <2>1. latch \in LatchType /\ recvLatch \in LatchType
    BY RecvLatch DEF ClockInv
  <2> QED BY <2>1 DEF LatchType
<1>8. now - recvLatch.lastEdge < RelatchIdle => d = e
  BY <1>2, RecvLatch
<1>9. now \in Int /\ recvFrame \in Int /\ now - recvFrame <= MaxFrame
  BY DEF ClockInv
<1> HIDE DEF a, b, p, q, d, e
<1>10. p.made \in Int /\ p.at \in Int /\ b.at \in Int /\ b.sentAt \in Int /\ b.made \in Int
  BY <1>3, <1>6, WireFields DEF HeardType
<1>11. ASSUME q.made - p.made <= MessageGap PROVE q.at - p.at = q.made - p.made
  <2>1. b.made - a.made <= MessageGap
    BY <1>4, <1>5, <1>11
  <2>2. b.at - a.at = b.made - a.made /\ b.sentAt + Transit < a.sentAt + RelatchIdle
    BY <1>2, <2>1 DEF Near
  <2>3. recvFrame < b.sentAt + MaxDelay \/ recvFrame <= b.sentAt
    BY <1>3 DEF OnTheWay
  <2>4. now - b.sentAt <= Transit
    BY <1>9, <1>10, <2>3, ClockConstants DEF Transit
  <2>5. now - recvLatch.lastEdge < RelatchIdle
    BY <1>5, <1>7, <1>9, <1>10, <2>2, <2>4, ClockConstants
  <2>6. q.at = (b.at - e) + Playout
    BY <1>4, <1>8, <2>5
  <2>7. b.at - ((p.at - Playout) + e) = b.made - p.made
    BY <1>5, <2>2
  <2>8. q.at - p.at = b.made - p.made
    BY <1>7, <1>10, <2>6, <2>7, ClockConstants
  <2> QED BY <1>4, <2>8
<1> QED BY <1>11 DEF Exact, p, q

\* What the receiver leaves with the network stays near and in time.
LEMMA RecvKeepsWire ==
    ASSUME NEW drift \in Nat, ClockInv, EdgeInv(drift),
           NEW k, NEW latch, NEW placed, Receives(k, latch, placed)
    PROVE  /\ wire' \in Seq(WireType)
           /\ \A i \in 1..Len(wire') : OnTheWay(wire'[i], drift, now', recvFrame')
           /\ \A i \in 1..Len(wire') - 1 : Near(wire'[i], wire'[i + 1])
<1>1. wire \in Seq(WireType)
  BY DEF EdgeInv
<1>2. /\ wire' \in Seq(WireType) /\ Len(wire') = Len(wire) - k /\ Len(wire) \in Nat /\ k \in 0..Len(wire)
      /\ \A i \in 1..Len(wire') : wire'[i] = wire[k + i]
  BY <1>1, RecvLeft
<1>3. now' = now /\ recvFrame' = now /\ now \in Int
      /\ \A i \in k + 1 .. Len(wire) : now - wire[i].sentAt < MaxDelay
  BY DEF Receives, ClockInv
<1>4. ASSUME NEW i \in 1..Len(wire') PROVE OnTheWay(wire'[i], drift, now', recvFrame')
  <2>1. k + i \in 1..Len(wire) /\ k + i \in k + 1 .. Len(wire)
    BY <1>2
  <2> DEFINE m == wire[k + i]
  <2>2. m \in WireType /\ OnTheWay(m, drift, now, recvFrame) /\ now - m.sentAt < MaxDelay /\ wire'[i] = m
    BY <1>1, <1>2, <1>3, <2>1 DEF EdgeInv
  <2> HIDE DEF m
  <2>3. now < m.sentAt + MaxDelay
    BY <1>3, <2>2, WireFields, ClockConstants
  <2>4. OnTheWay(m, drift, now, now)
    BY <2>2, <2>3 DEF OnTheWay
  <2> QED BY <1>3, <2>2, <2>4
<1>5. ASSUME NEW i \in 1..Len(wire') - 1 PROVE Near(wire'[i], wire'[i + 1])
  <2>1. i \in 1..Len(wire') /\ i + 1 \in 1..Len(wire') /\ k + i \in 1..Len(wire) - 1 /\ k + (i + 1) = (k + i) + 1
    BY <1>2
  <2>2. wire'[i] = wire[k + i] /\ wire'[i + 1] = wire[(k + i) + 1]
    BY <1>2, <2>1
  <2>3. Near(wire[k + i], wire[(k + i) + 1])
    BY <2>1 DEF EdgeInv
  <2> QED BY <2>2, <2>3
<1> QED BY <1>2, <1>4, <1>5

\* The last edge that the receiver took in this pump, as LastHeard has it, is the last one
\* that it took from the network.
LEMMA RecvLastHeard ==
    ASSUME NEW drift \in Nat, drift + FrameTime + SampleDelay + Transit <= Playout,
           ClockInv, TripInv, EdgeInv(drift),
           NEW k, NEW latch, NEW placed, Receives(k, latch, placed), k # 0
    PROVE  /\ heard' \in Seq(HeardType) /\ heard' # <<>> /\ recvLatch'.valid
           /\ AllExact(heard)  /\ AllInTime(heard) => AllExact(heard') /\ AllInTime(heard')
           /\ LastHeard'.made = wire[k].made /\ LastHeard'.at = wire[k].at /\ LastHeard'.sentAt = now
<1>1. /\ placed \in Seq(HeardType) /\ Len(placed) = k
      /\ \A i \in 1..k : /\ placed[i].made = wire[i].made
                         /\ placed[i].at = (wire[i].at - (latch.offset + latch.peer)) + Playout
      /\ AllExact(placed) /\ AllInTime(placed)
  BY RecvPlaced
<1>2. k \in 1..k /\ k \in Nat /\ heard \in Seq(HeardType) /\ heard' = heard \o placed /\ recvLatch' = latch
      /\ k \in 1..Len(wire) /\ wire \in Seq(WireType)
  BY DEF EdgeInv, Receives
<1>3. /\ heard' \in Seq(HeardType) /\ Len(heard') = Len(heard) + k /\ Len(heard) \in Nat
      /\ heard'[Len(heard) + k] = placed[k]
  <2> DEFINE u == heard \o placed
  <2>1. /\ u \in Seq(HeardType) /\ Len(u) = Len(heard) + Len(placed) /\ Len(heard) \in Nat
        /\ \A i \in 1..Len(placed) : u[Len(heard) + i] = placed[i]
    <3>1. placed \in Seq(HeardType)
      BY <1>1
    <3> QED BY <1>2, <3>1, Joined
  <2>2. heard' = u
    BY <1>2
  <2> HIDE DEF u
  <2> QED BY <1>1, <1>2, <2>1, <2>2
<1>4. heard' # <<>>
  BY <1>2, <1>3
<1>5. latch \in LatchType /\ latch.valid /\ latch.lastEdge = now
  BY RecvLatch
<1>6. AllExact(heard) /\ AllInTime(heard) => AllExact(heard') /\ AllInTime(heard')
  <2>1. heard # <<>> => Exact(heard[Len(heard)], placed[1])
    BY RecvAfterLast
  <2> QED BY <1>1, <1>2, <2>1, ExactJoined
<1>7. /\ LastHeard'.made = placed[k].made
      /\ LastHeard'.at = (placed[k].at - Playout) + (latch.offset + latch.peer)
      /\ LastHeard'.sentAt = now
  BY <1>2, <1>3, <1>5 DEF LastHeard
<1>8. LastHeard'.made = wire[k].made /\ LastHeard'.at = wire[k].at
  <2> DEFINE b == wire[k]
             q == placed[k]
             d == latch.offset + latch.peer
  <2>1. b.at \in Int
    BY <1>2, WireFields
  <2>2. d \in Int
    BY <1>5 DEF LatchType
  <2>3. q.made = b.made /\ q.at = (b.at - d) + Playout
    BY <1>1, <1>2
  <2>4. LastHeard'.made = q.made /\ LastHeard'.at = (q.at - Playout) + d
    BY <1>7
  <2> HIDE DEF b, q, d
  <2>5. (((b.at - d) + Playout) - Playout) + d = b.at
    BY <2>1, <2>2, ClockConstants
  <2>6. LastHeard'.at = b.at
    BY <2>3, <2>4, <2>5
  <2> QED BY <2>3, <2>4, <2>6 DEF b
<1> QED BY <1>2, <1>3, <1>4, <1>5, <1>6, <1>7, <1>8

LEMMA RecvKeepsEdges ==
    ASSUME NEW drift \in Nat, drift + FrameTime + SampleDelay + Transit <= Playout,
           ClockInv, TripInv, EdgeInv(drift), PlayoutIsExact, RecvFrame
    PROVE  EdgeInv(drift)' /\ PlayoutIsExact'
<1>1. PICK k, latch, placed : Receives(k, latch, placed)
  BY RecvCases
<1>2. wire \in Seq(WireType) /\ heard \in Seq(HeardType) /\ Len(wire) \in Nat /\ k \in 0..Len(wire)
  BY <1>1 DEF EdgeInv, Receives
<1>3. /\ wire' \in Seq(WireType) /\ Len(wire') = Len(wire) - k
      /\ \A i \in 1..Len(wire') : wire'[i] = wire[k + i]
  BY <1>1, <1>2, RecvLeft
<1>4. /\ \A i \in 1..Len(wire') : OnTheWay(wire'[i], drift, now', recvFrame')
      /\ \A i \in 1..Len(wire') - 1 : Near(wire'[i], wire'[i + 1])
  BY <1>1, RecvKeepsWire
<1>5. UNCHANGED <<sendFrame, sendCore, sendLatch>> /\ now' = now
  BY <1>1 DEF Receives
<1>6. AllExact(heard) /\ AllInTime(heard)
  BY <1>2, PlayoutParts
<1>7. /\ heard # <<>> => recvLatch.valid
      /\ \A i \in 1..Len(wire) - 1 : Near(wire[i], wire[i + 1])
      /\ heard # <<>> /\ wire # <<>> => Near(LastHeard, wire[1])
      /\ heard # <<>> \/ wire # <<>> => SenderEnd(LastEdge)
      /\ \A i \in 1..Len(wire) : OnTheWay(wire[i], drift, now, recvFrame)
  BY DEF EdgeInv
<1>8. CASE k = 0
  <2>1. wire' = wire /\ heard' = heard /\ recvLatch' = recvLatch
    BY <1>1, <1>2, <1>8, RecvNothing
  <2>2. LastHeard' = LastHeard
    BY <2>1 DEF LastHeard
  <2>3. LastEdge' = LastEdge
    BY <2>1, <2>2 DEF LastEdge
  <2>4. heard' # <<>> \/ wire' # <<>> => SenderEnd(LastEdge)'
    BY <1>5, <1>7, <2>1, <2>3 DEF SenderEnd
  <2>5. EdgeInv(drift)'
    BY <1>2, <1>3, <1>4, <1>7, <2>1, <2>2, <2>4 DEF EdgeInv
  <2>6. PlayoutIsExact'
    BY <2>1 DEF PlayoutIsExact, SpacingExact, NoLateEdge
  <2> QED BY <2>5, <2>6
<1>9. CASE k # 0
  <2>1. /\ heard' \in Seq(HeardType) /\ heard' # <<>> /\ recvLatch'.valid
        /\ AllExact(heard') /\ AllInTime(heard')
        /\ LastHeard'.made = wire[k].made /\ LastHeard'.at = wire[k].at /\ LastHeard'.sentAt = now
    BY <1>1, <1>6, <1>9, RecvLastHeard
  <2>2. PlayoutIsExact'
    <3>1. DOMAIN heard' = 1..Len(heard')
      BY <2>1
    <3>2. SpacingExact'
      <4> SUFFICES ASSUME NEW i \in 1 .. Len(heard') - 1, heard'[i + 1].made - heard'[i].made <= MessageGap
                   PROVE  heard'[i + 1].at - heard'[i].at = heard'[i + 1].made - heard'[i].made
        BY DEF SpacingExact
      <4>1. Exact(heard'[i], heard'[i + 1])
        BY <2>1 DEF AllExact
      <4> QED BY <4>1 DEF Exact
    <3>3. NoLateEdge'
      BY <2>1, <3>1 DEF NoLateEdge, AllInTime
    <3> QED BY <3>2, <3>3 DEF PlayoutIsExact
  <2>3. k \in 1..Len(wire) /\ wire # <<>>
    BY <1>2, <1>9
  <2> DEFINE a == wire[k]
             z == LastHeard'
  <2>4. a \in WireType /\ a.sentAt <= now
    BY <1>2, <1>7, <2>3 DEF OnTheWay
  <2>5. z.made = a.made /\ z.at = a.at /\ z.sentAt = now
    BY <2>1
  <2>6. wire' # <<>> => Near(z, wire'[1])
    <3> SUFFICES ASSUME wire' # <<>> PROVE Near(z, wire'[1])
      OBVIOUS
    <3>1. Len(wire') > 0
      BY <1>3
    <3>2. 1 \in 1..Len(wire') /\ k \in 1..Len(wire) - 1
      BY <1>2, <1>3, <2>3, <3>1
    <3> DEFINE b == wire'[1]
    <3>3. Near(a, b) /\ b \in WireType
      BY <1>3, <1>7, <3>2
    <3> HIDE DEF a, b, z
    <3>4. a.sentAt + RelatchIdle <= now + RelatchIdle /\ b.sentAt + Transit \in Int
          /\ a.sentAt + RelatchIdle \in Int /\ now + RelatchIdle \in Int
      <4>1. a.sentAt \in Nat /\ b.sentAt \in Nat
        BY <2>4, <3>3, WireFields
      <4>2. now \in Nat
        BY DEF ClockInv
      <4> QED BY <2>4, <4>1, <4>2, ClockConstants
    <3>5. ASSUME b.made - z.made <= MessageGap
          PROVE  b.at - z.at = b.made - z.made /\ b.sentAt + Transit < z.sentAt + RelatchIdle
      <4>1. b.at - a.at = b.made - a.made /\ b.sentAt + Transit < a.sentAt + RelatchIdle
        BY <2>5, <3>3, <3>5 DEF Near
      <4>2. b.sentAt + Transit < now + RelatchIdle
        BY <3>4, <4>1
      <4> QED BY <2>5, <4>1, <4>2
    <3>6. Near(z, b)
      BY <3>5 DEF Near
    <3> QED BY <3>6 DEF b
  <2>7. SenderEnd(LastEdge)'
    <3>1. SenderEnd(LastEdge) /\ LastEdge = wire[Len(wire)]
      BY <1>7, <2>3 DEF LastEdge
    <3>2. CASE wire' # <<>>
      <4>1. Len(wire') > 0
        BY <1>3, <3>2
      <4>2. Len(wire') \in 1..Len(wire') /\ k + Len(wire') = Len(wire)
        BY <1>2, <1>3, <4>1
      <4>3. LastEdge' = wire'[Len(wire')]
        BY <3>2 DEF LastEdge
      <4>4. LastEdge' = LastEdge
        BY <1>3, <3>1, <4>2, <4>3
      <4> QED BY <1>5, <3>1, <4>4 DEF SenderEnd
    <3>3. CASE wire' = <<>>
      <4>1. k = Len(wire)
        BY <1>2, <1>3, <3>3
      <4>2. LastEdge = a
        BY <3>1, <4>1
      <4>3. LastEdge' = z
        BY <3>3 DEF LastEdge
      <4>4. SenderEnd(a)
        BY <3>1, <4>2
      <4> HIDE DEF a
      <4>5. /\ \/ sendLatch.valid /\ a.at = a.made + sendLatch.offset
               \/ sendCore - a.made >= MessageGap
            /\ Frames(a.made, sendCore, sendLatch.lastEdge - Skew, sendFrame)
            /\ sendLatch.lastEdge - Skew <= a.sentAt
        BY <4>4 DEF SenderEnd
      <4>6. sendLatch.lastEdge - Skew <= now
        <5>1. sendLatch.lastEdge - Skew \in Int /\ now \in Int /\ a.sentAt \in Int
          BY <2>4, WireFields, ClockConstants DEF ClockInv, LatchType
        <5> QED BY <2>4, <4>5, <5>1
      <4> DEFINE y == LastEdge'
      <4>7. y.at = a.at /\ y.made = a.made /\ y.sentAt = now
        BY <2>5, <4>3
      <4> HIDE DEF y, z
      <4>8. /\ \/ sendLatch'.valid /\ y.at = y.made + sendLatch'.offset
               \/ sendCore' - y.made >= MessageGap
            /\ Frames(y.made, sendCore', sendLatch'.lastEdge - Skew, sendFrame')
            /\ sendLatch'.lastEdge - Skew <= y.sentAt
        BY <1>5, <4>5, <4>6, <4>7
      <4> QED BY <4>8 DEF SenderEnd, y
    <3> QED BY <3>2, <3>3
  <2>8. EdgeInv(drift)'
    BY <1>3, <1>4, <2>1, <2>6, <2>7 DEF EdgeInv
  <2> QED BY <2>2, <2>8
<1> QED BY <1>8, <1>9

LEMMA ClockStart ==
    ASSUME \A c \in CoreStart : c >= Playout
    PROVE  Init => ClockInv
<1> SUFFICES ASSUME Init PROVE ClockInv
  OBVIOUS
<1>1. /\ now = 0 /\ sendFrame = 0 /\ recvFrame = 0
      /\ sendCore \in CoreStart /\ recvCore \in CoreStart
      /\ sendLatch = Unlatched(SendWall(0)) /\ recvLatch = Unlatched(RecvWall(0))
  BY DEF Init
<1>2. sendCore \in Nat /\ recvCore \in Nat /\ recvCore >= Playout
  BY <1>1, ConstantsAssumption DEF ConstantsAssumption
<1>3. 0 + Skew \in Int /\ (0 + Skew) - Skew = 0
  BY ClockConstants
<1> DEFINE s == 0 + Skew
<1>4. /\ sendLatch = [valid |-> FALSE, offset |-> 0, peer |-> 0, lastEdge |-> s]
      /\ recvLatch = [valid |-> FALSE, offset |-> 0, peer |-> 0, lastEdge |-> 0]
  BY <1>1 DEF Unlatched, SendWall, RecvWall
<1>5. s \in Int /\ s - Skew = 0
  BY <1>3
<1> HIDE DEF s
<1>6. /\ sendLatch \in LatchType /\ recvLatch \in LatchType
      /\ sendLatch.lastEdge = s /\ recvLatch.lastEdge = 0 /\ ~recvLatch.valid
  BY <1>4, <1>5 DEF LatchType
<1>7. sendLatch.lastEdge - Skew <= sendFrame /\ recvLatch.lastEdge <= recvFrame
  BY <1>1, <1>5, <1>6
<1>8. /\ {now, sendFrame, recvFrame, sendCore, recvCore} \subseteq Nat
      /\ 0 <= now - sendFrame /\ now - sendFrame <= MaxFrame
      /\ 0 <= now - recvFrame /\ now - recvFrame <= MaxFrame
  BY <1>1, <1>2, ClockConstants
<1> QED BY <1>2, <1>6, <1>7, <1>8 DEF ClockInv

LEMMA EdgeStart == ASSUME NEW drift PROVE Init => EdgeInv(drift) /\ PlayoutIsExact
<1> SUFFICES ASSUME Init PROVE EdgeInv(drift) /\ PlayoutIsExact
  OBVIOUS
<1>1. wire = <<>> /\ heard = <<>>
  BY DEF Init
<1>2. Len(wire) = 0 /\ Len(heard) = 0 /\ DOMAIN heard = {}
      /\ wire \in Seq(WireType) /\ heard \in Seq(HeardType)
  BY <1>1
<1>3. 1..0 = {} /\ 1..0 - 1 = {}
  OBVIOUS
<1> QED BY <1>1, <1>2, <1>3 DEF EdgeInv, PlayoutIsExact, SpacingExact, NoLateEdge

LEMMA ClockStep ==
    ASSUME ClockInv, TripInv, TripInv', [Next]_vars
    PROVE  ClockInv'
<1>1. /\ {now, sendFrame, recvFrame, sendCore, recvCore} \subseteq Nat
      /\ 0 <= now - sendFrame /\ now - sendFrame <= MaxFrame
      /\ 0 <= now - recvFrame /\ now - recvFrame <= MaxFrame
      /\ sendLatch \in LatchType /\ recvLatch \in LatchType
      /\ recvCore >= Playout
      /\ sendLatch.lastEdge - Skew <= sendFrame
      /\ recvLatch.lastEdge <= recvFrame
      /\ recvLatch.valid => recvLatch.offset <= recvFrame - recvCore /\ recvLatch.peer <= Skew + SampleDelay
  BY DEF ClockInv
<1>2. CASE Tick
  <2>1. now < MaxTime /\ now - sendFrame < MaxFrame /\ now - recvFrame < MaxFrame /\ now' = now + 1
        /\ UNCHANGED <<sendFrame, recvFrame, sendCore, recvCore, sendLatch, recvLatch>>
    BY <1>2 DEF Tick
  <2>2. /\ 0 <= now' - sendFrame /\ now' - sendFrame <= MaxFrame
        /\ 0 <= now' - recvFrame /\ now' - recvFrame <= MaxFrame /\ now' \in Nat
    BY <1>1, <2>1, ClockConstants
  <2> QED BY <1>1, <2>1, <2>2 DEF ClockInv
<1>3. CASE SendFrame
  <2>1. PICK n, edges, latch, group : Sends(n, edges, latch, group)
    BY <1>3, SendCases
  <2>2. /\ sendFrame' = now /\ sendCore' = sendCore + FrameTime
        /\ UNCHANGED <<now, recvFrame, recvCore, recvLatch>>
    BY <2>1 DEF Sends
  <2>3. sendLatch' \in LatchType /\ (sendLatch'.lastEdge = sendLatch.lastEdge \/ sendLatch'.lastEdge = now + Skew)
    BY <2>1, SendLatch
  <2>4. sendLatch.lastEdge \in Int
    BY <1>1 DEF LatchType
  <2>5. sendLatch'.lastEdge - Skew <= sendFrame'
    BY <1>1, <2>2, <2>3, <2>4, ClockConstants
  <2>6. /\ {now, sendFrame', recvFrame, sendCore', recvCore} \subseteq Nat
        /\ 0 <= now - sendFrame' /\ now - sendFrame' <= MaxFrame
    BY <1>1, <2>2, ClockConstants
  <2> QED BY <1>1, <2>2, <2>3, <2>5, <2>6 DEF ClockInv
<1>4. CASE RecvFrame
  <2>1. PICK k, latch, placed : Receives(k, latch, placed)
    BY <1>4, RecvCases
  <2>2. /\ recvFrame' = now /\ recvCore' = recvCore + FrameTime /\ recvLatch' = latch
        /\ now - recvFrame >= FrameTime
        /\ UNCHANGED <<now, sendFrame, sendCore, sendLatch>>
    BY <2>1 DEF Receives
  <2>3. /\ {now, sendFrame, recvFrame', sendCore, recvCore'} \subseteq Nat
        /\ 0 <= now - recvFrame' /\ now - recvFrame' <= MaxFrame /\ recvCore' >= Playout
    BY <1>1, <2>2, ClockConstants
  <2>4. /\ latch \in LatchType /\ latch.lastEdge <= now
        /\ latch.valid => latch.offset <= now - (recvCore + FrameTime) /\ latch.peer <= Skew + SampleDelay
    <3>1. CASE k = 0
      <4>1. latch = recvLatch
        BY <2>1, <3>1 DEF Receives
      <4>2. recvLatch.offset \in Int /\ recvLatch.lastEdge \in Int
        BY <1>1 DEF LatchType
      <4>3. recvLatch.lastEdge <= now
        BY <1>1, <4>2
      <4>4. recvFrame - recvCore <= now - (recvCore + FrameTime)
        BY <1>1, <2>2, ClockConstants
      <4>5. recvLatch.offset <= recvFrame - recvCore => recvLatch.offset <= now - (recvCore + FrameTime)
        BY <1>1, <4>2, <4>4, ClockConstants
      <4> QED BY <1>1, <4>1, <4>3, <4>5
    <3>2. CASE k # 0
      <4>1. /\ latch \in LatchType /\ latch.lastEdge = now
            /\ latch.offset <= now - (recvCore + FrameTime) /\ latch.peer <= Skew + SampleDelay
        BY <2>1, <3>2, RecvLatch
      <4> QED BY <1>1, <4>1
    <3> QED BY <3>1, <3>2
  <2> DEFINE y == recvLatch'
  <2>5. /\ y \in LatchType /\ y.lastEdge <= recvFrame'
        /\ y.valid => y.offset <= recvFrame' - recvCore' /\ y.peer <= Skew + SampleDelay
    BY <2>2, <2>4
  <2> QED BY <1>1, <2>2, <2>3, <2>5 DEF ClockInv
<1>5. CASE UNCHANGED <<now, sendFrame, recvFrame, sendCore, recvCore, sendLatch, recvLatch>>
  BY <1>5 DEF ClockInv
<1>6. Sample \/ UNCHANGED vars => UNCHANGED <<now, sendFrame, recvFrame, sendCore, recvCore, sendLatch, recvLatch>>
  BY DEF Sample, vars
<1> QED BY <1>2, <1>3, <1>4, <1>5, <1>6 DEF Next

\* No step of the clock, of the window, or of another part changes what is known of the edges.
LEMMA EdgesStay ==
    ASSUME NEW drift, ClockInv, EdgeInv(drift), PlayoutIsExact, now' \in Nat, now <= now',
           UNCHANGED <<sendFrame, recvFrame, sendCore, recvCore, sendLatch, recvLatch, wire, heard>>
    PROVE  EdgeInv(drift)' /\ PlayoutIsExact'
<1>1. PlayoutIsExact'
  BY DEF PlayoutIsExact, SpacingExact, NoLateEdge
<1>2. LastHeard' = LastHeard /\ LastEdge' = LastEdge
  BY DEF LastHeard, LastEdge
<1>3. heard' # <<>> \/ wire' # <<>> => SenderEnd(LastEdge)'
  BY <1>2 DEF EdgeInv, SenderEnd
<1>4. \A i \in 1..Len(wire) : OnTheWay(wire[i], drift, now', recvFrame')
  <2> SUFFICES ASSUME NEW i \in 1..Len(wire) PROVE OnTheWay(wire[i], drift, now', recvFrame)
    OBVIOUS
  <2> DEFINE m == wire[i]
  <2>1. m \in WireType /\ OnTheWay(m, drift, now, recvFrame)
    BY DEF EdgeInv
  <2> HIDE DEF m
  <2>2. m.sentAt <= now'
    BY <2>1, WireFields DEF OnTheWay, ClockInv
  <2>3. OnTheWay(m, drift, now', recvFrame)
    BY <2>1, <2>2 DEF OnTheWay
  <2> QED BY <2>3 DEF m
<1>5. /\ wire \in Seq(WireType) /\ heard \in Seq(HeardType)
      /\ heard # <<>> => recvLatch.valid
      /\ \A i \in 1..Len(wire) - 1 : Near(wire[i], wire[i + 1])
      /\ heard # <<>> /\ wire # <<>> => Near(LastHeard, wire[1])
  BY DEF EdgeInv
<1>6. EdgeInv(drift)'
  BY <1>2, <1>3, <1>4, <1>5 DEF EdgeInv
<1> QED BY <1>1, <1>6

LEMMA EdgeStep ==
    ASSUME MessageFits, NEW drift \in Nat, drift + FrameTime + SampleDelay + Transit <= Playout,
           DriftWithin(drift)', ClockInv, TripInv, EdgeInv(drift), PlayoutIsExact, [Next]_vars
    PROVE  EdgeInv(drift)' /\ PlayoutIsExact'
<1>1. CASE SendFrame
  <2>1. EdgeInv(drift)' /\ SpacingExact' = SpacingExact
    BY <1>1, SendKeepsEdges
  <2>2. heard' = heard
    BY <1>1 DEF SendFrame
  <2>3. PlayoutIsExact'
    BY <2>2 DEF PlayoutIsExact, SpacingExact, NoLateEdge
  <2> QED BY <2>1, <2>3
<1>2. CASE RecvFrame
  BY <1>2, RecvKeepsEdges
<1>3. CASE Tick \/ Sample \/ UNCHANGED vars
  <2>1. /\ now' = now \/ now' = now + 1
        /\ UNCHANGED <<sendFrame, recvFrame, sendCore, recvCore, sendLatch, recvLatch, wire, heard>>
    BY <1>3 DEF Tick, Sample, vars
  <2>2. now' \in Nat /\ now <= now'
    BY <2>1 DEF ClockInv
  <2> QED BY <2>1, <2>2, EdgesStay
<1> QED BY <1>1, <1>2, <1>3 DEF Next

(* "The delay must cover the transit time, the batching, and the clock drift   *)
(* over one full message" (ir_link.c:141): if the playout delay covers them    *)
(* and a message is quick enough for the relatch, each message gets to the     *)
(* other core in its shape and in time.                                        *)
THEOREM PlayoutWithinDrift ==
    ASSUME MessageFits, \A c \in CoreStart : c >= Playout,
           NEW drift \in Nat, drift + FrameTime + SampleDelay + Transit <= Playout
    PROVE  Spec /\ []DriftWithin(drift) => []PlayoutIsExact
<1> DEFINE Inv == PlayInv(drift)
<1>1. Init => Inv
  BY ClockStart, TripStart, EdgeStart DEF PlayInv
<1>2. Inv /\ DriftWithin(drift)' /\ [Next]_vars => Inv'
  <2> SUFFICES ASSUME Inv, DriftWithin(drift)', [Next]_vars PROVE Inv'
    OBVIOUS
  <2>1. TripInv'
    BY TripStep DEF PlayInv
  <2>2. ClockInv'
    BY <2>1, ClockStep DEF PlayInv
  <2> QED BY <2>1, <2>2, EdgeStep DEF PlayInv
<1>3. Inv => PlayoutIsExact
  BY DEF PlayInv
<1> HIDE DEF Inv
<1> QED BY <1>1, <1>2, <1>3, PTL DEF Spec

-----------------------------------------------------------------------------
\* The drift since the latch, in terms of the frames since the first one.
DriftInv ==
    sendLatch.valid =>
        /\ 0 <= sendFrame + Skew - sendCore - sendLatch.offset
        /\ (sendFrame + Skew - sendCore - sendLatch.offset) * MaxFrame
             <= (sendFrame - FrameTime) * (MaxFrame - FrameTime)

TimeInv == now <= MaxTime

LEMMA Product ==
    ASSUME NEW d \in Int, NEW s \in Int, NEW x \in Int, x <= MaxFrame,
           d * MaxFrame <= (s - FrameTime) * (MaxFrame - FrameTime)
    PROVE  (d + (x - FrameTime)) * MaxFrame <= ((s + x) - FrameTime) * (MaxFrame - FrameTime)
<1> DEFINE m == MaxFrame
           f == FrameTime
<1>1. m \in Nat /\ f \in Nat /\ x <= m
  BY ClockConstants
<1>2. d * m <= (s - f) * (m - f)
  OBVIOUS
<1> HIDE DEF m, f
<1>3. (d + (x - f)) * m = d * m + x * m - f * m /\ ((s + x) - f) * (m - f) = (s - f) * (m - f) + x * m - x * f
  BY <1>1, SMTT(60)
<1>4. x * f <= f * m /\ x * f \in Int /\ f * m \in Int /\ x * m \in Int /\ d * m \in Int /\ (s - f) * (m - f) \in Int
  BY <1>1, SMTT(60)
<1>5. (d + (x - f)) * m <= ((s + x) - f) * (m - f)
  BY <1>2, <1>3, <1>4
<1> QED BY <1>5 DEF m, f

LEMMA DriftStep ==
    ASSUME ClockInv, DriftInv, TimeInv, [Next]_vars
    PROVE  DriftInv' /\ TimeInv'
<1>1. CASE UNCHANGED <<sendFrame, sendCore, sendLatch>>
  <2>1. DriftInv'
    BY <1>1 DEF DriftInv
  <2>2. TimeInv'
    <3>1. (now' = now + 1 /\ now < MaxTime) \/ now' = now \/ SendFrame
      BY DEF Next, Tick, RecvFrame, Sample, vars
    <3>2. SendFrame => now' = now
      BY DEF SendFrame
    <3> QED BY <3>1, <3>2, ClockConstants, ConstantsAssumption DEF TimeInv, ClockInv, ConstantsAssumption
  <2> QED BY <2>1, <2>2
<1>2. CASE SendFrame
  <2>1. PICK n, edges, latch, group : Sends(n, edges, latch, group)
    BY <1>2, SendCases
  <2>2. /\ sendFrame' = now /\ sendCore' = sendCore + FrameTime /\ now' = now
        /\ now - sendFrame >= FrameTime
    BY <2>1 DEF Sends
  <2>3. /\ now \in Nat /\ sendFrame \in Nat /\ sendCore \in Nat /\ now - sendFrame <= MaxFrame
        /\ sendLatch.offset \in Int /\ sendLatch'.offset \in Int
    <3>1. sendLatch' \in LatchType
      BY <2>1, SendLatch
    <3> QED BY <3>1 DEF ClockInv, LatchType
  <2> DEFINE d == sendFrame + Skew - sendCore - sendLatch.offset
             e == sendFrame' + Skew - sendCore' - sendLatch'.offset
             x == now - sendFrame
  <2>4. d \in Int /\ x \in Int /\ x <= MaxFrame /\ x >= FrameTime /\ e \in Int
        /\ sendFrame + x = sendFrame'
    BY <2>2, <2>3, ClockConstants
  <2>5. \/ sendLatch.valid /\ sendLatch'.offset = sendLatch.offset
        \/ sendLatch'.offset = now + Skew - (sendCore + FrameTime)
    <3>1. sendLatch'.offset = latch.offset
      BY <2>1, SendLatch
    <3> DEFINE wall == now + Skew
               core == sendCore + FrameTime
    <3>2. wall \in Int /\ core \in Int /\ sendLatch \in LatchType /\ 0 \in Int
      BY <2>3, ClockConstants DEF ClockInv
    <3>3. latch = Relatch(sendLatch, wall, core, 0)
      BY <2>1 DEF Sends, SendWall
    <3>4. wall - core = now + Skew - (sendCore + FrameTime)
      BY <2>3, ClockConstants
    <3> HIDE DEF wall, core
    <3>5. (latch = sendLatch /\ latch.valid) \/ latch.offset = wall - core
      BY <3>2, <3>3, RelatchResult
    <3> QED BY <3>1, <3>4, <3>5
  <2>6. \/ sendLatch.valid /\ e = d + (x - FrameTime)
        \/ e = 0
    <3>1. CASE sendLatch.valid /\ sendLatch'.offset = sendLatch.offset
      <4>1. e = d + (x - FrameTime)
        BY <2>2, <2>3, <3>1, ClockConstants
      <4> QED BY <3>1, <4>1
    <3>2. CASE sendLatch'.offset = now + Skew - (sendCore + FrameTime)
      BY <2>2, <2>3, <3>2, ClockConstants
    <3> QED BY <2>5, <3>1, <3>2
  <2>7. sendLatch.valid => 0 <= d /\ d * MaxFrame <= (sendFrame - FrameTime) * (MaxFrame - FrameTime)
    BY DEF DriftInv
  <2> HIDE DEF d, e, x
  <2>8. 0 <= e /\ e * MaxFrame <= (sendFrame' - FrameTime) * (MaxFrame - FrameTime)
    <3>1. CASE sendLatch.valid /\ e = d + (x - FrameTime)
      <4>1. 0 <= d /\ d * MaxFrame <= (sendFrame - FrameTime) * (MaxFrame - FrameTime)
        BY <2>7, <3>1
      <4>2. (d + (x - FrameTime)) * MaxFrame <= ((sendFrame + x) - FrameTime) * (MaxFrame - FrameTime)
        BY <2>3, <2>4, <4>1, Product
      <4>3. 0 <= e
        BY <2>4, <3>1, <4>1, ClockConstants
      <4>4. e * MaxFrame <= (sendFrame' - FrameTime) * (MaxFrame - FrameTime)
        BY <2>4, <3>1, <4>2, Zenon
      <4> QED BY <4>3, <4>4
    <3>2. CASE e = 0
      <4> DEFINE u == sendFrame' - FrameTime
                 v == MaxFrame - FrameTime
      <4>1. u \in Nat /\ v \in Nat
        BY <2>2, <2>3, ClockConstants
      <4> HIDE DEF u, v
      <4>2. 0 <= u * v
        BY <4>1, SMTT(30)
      <4>3. e * MaxFrame = 0
        BY <3>2, ClockConstants
      <4> QED BY <3>2, <4>2, <4>3 DEF u, v
    <3> QED BY <2>6, <3>1, <3>2
  <2>9. DriftInv'
    BY <2>8 DEF DriftInv, e
  <2>10. TimeInv'
    BY <2>2 DEF TimeInv
  <2> QED BY <2>9, <2>10
<1>3. Tick \/ RecvFrame \/ Sample \/ UNCHANGED vars => UNCHANGED <<sendFrame, sendCore, sendLatch>>
  BY DEF Tick, RecvFrame, Sample, vars
<1> QED BY <1>1, <1>2, <1>3 DEF Next

(* The same, where the bound of the time bounds the drift.                     *)
THEOREM PlayoutAlwaysExact ==
    ASSUME MessageFits, \A c \in CoreStart : c >= Playout,
           NEW drift \in Nat, drift + FrameTime + SampleDelay + Transit <= Playout,
           \A d \in Nat : d * MaxFrame <= (MaxTime - FrameTime) * (MaxFrame - FrameTime) => d <= drift
    PROVE  Spec => []PlayoutIsExact
<1> DEFINE Inv == ClockInv /\ TripInv /\ DriftInv /\ TimeInv
<1>1. Init => Inv
  <2> SUFFICES ASSUME Init PROVE DriftInv /\ TimeInv
    BY ClockStart, TripStart
  <2>1. ~sendLatch.valid
    BY DEF Init, Unlatched
  <2>2. now <= MaxTime
    BY ConstantsAssumption DEF Init, ConstantsAssumption
  <2> QED BY <2>1, <2>2 DEF DriftInv, TimeInv
<1>2. Inv /\ [Next]_vars => Inv'
  <2> SUFFICES ASSUME Inv, [Next]_vars PROVE Inv'
    OBVIOUS
  <2>1. TripInv'
    BY TripStep
  <2>2. ClockInv'
    BY <2>1, ClockStep
  <2> QED BY <2>1, <2>2, DriftStep
<1>3. Inv => DriftWithin(drift)
  <2> SUFFICES ASSUME Inv, sendLatch.valid
               PROVE  sendFrame + Skew - sendCore - sendLatch.offset <= drift
    BY DEF DriftWithin
  <2> DEFINE d == sendFrame + Skew - sendCore - sendLatch.offset
  <2>1. 0 <= d /\ d * MaxFrame <= (sendFrame - FrameTime) * (MaxFrame - FrameTime)
    BY DEF DriftInv
  <2>2. d \in Int /\ sendFrame \in Nat /\ sendFrame <= MaxTime /\ MaxTime \in Nat
    BY ClockConstants, ConstantsAssumption DEF ClockInv, LatchType, TimeInv, ConstantsAssumption
  <2> HIDE DEF d
  <2> DEFINE u == sendFrame - FrameTime
             w == MaxTime - FrameTime
             v == MaxFrame - FrameTime
  <2>3. u \in Int /\ w \in Int /\ v \in Nat /\ u <= w
    BY <2>2, ClockConstants
  <2>4. d * MaxFrame <= u * v
    BY <2>1
  <2>5. d * MaxFrame \in Int
    BY <2>2, ClockConstants
  <2>6. \A k \in Nat : k * MaxFrame <= w * v => k <= drift
    OBVIOUS
  <2> HIDE DEF u, w, v
  <2>7. u * v <= w * v /\ u * v \in Int /\ w * v \in Int
    BY <2>3, SMTT(60)
  <2>8. d * MaxFrame <= w * v
    BY <2>4, <2>5, <2>7
  <2>9. d <= drift
    BY <2>1, <2>2, <2>6, <2>8
  <2> QED BY <2>9 DEF d
<1>4. Spec => []Inv
  <2> HIDE DEF Inv
  <2> QED BY <1>1, <1>2, PTL DEF Spec
<1>5. Spec => []DriftWithin(drift)
  <2> HIDE DEF Inv
  <2> QED BY <1>3, <1>4, PTL
<1>6. Spec /\ []DriftWithin(drift) => []PlayoutIsExact
  BY PlayoutWithinDrift
<1> QED BY <1>5, <1>6, PTL
=============================================================================
