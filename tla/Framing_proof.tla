---------------------------- MODULE Framing_proof ----------------------------
(***************************************************************************)
(* What the loop of handle_rcv makes of a datagram of any number of        *)
(* segments, whole or damaged.  The loop is followed turn by turn, by      *)
(* induction over the frames.  The library's induction theorems are about  *)
(* an arbitrary predicate; here induction is a fact about sets of numbers, *)
(* and comes from the well-foundedness of < on Nat.                        *)
(***************************************************************************)
EXTENDS Framing, Connection_proof, WellFoundedInduction

\* A set of numbers that holds 0, and with each number the next, holds all.
LEMMA SetInduction ==
  ASSUME NEW T, T \subseteq Nat, 0 \in T, \A n \in T : n + 1 \in T
  PROVE  T = Nat
<1> SUFFICES ASSUME Nat \ T # {} PROVE FALSE
  OBVIOUS
<1> DEFINE R == OpToRel(<, Nat)
<1>1. IsWellFoundedOn(R, Nat)
  BY NatLessThanWellFounded
<1>2. PICK x \in Nat \ T : \A y \in Nat \ T : ~(<<y, x>> \in R)
  <2> HIDE DEF R
  <2>1. Nat \ T \subseteq Nat
    OBVIOUS
  <2> QED BY <2>1, <1>1, WFMin
<1>3. \A y \in Nat \ T : ~(y < x)
  BY <1>2 DEF OpToRel
<1>4. x # 0 /\ x - 1 \in Nat /\ x - 1 < x
  OBVIOUS
<1>5. x - 1 \in T
  BY <1>3, <1>4
<1>6. x - 1 + 1 \in T
  BY <1>5
<1> QED BY <1>4, <1>6

-----------------------------------------------------------------------------
(* Numbers of segments and offsets *)

Segments(size) == (size + MSS - 1) \div MSS
Offset(i) == MSS * (i - 1)
SizeOf(size, i) == IF Offset(i + 1) < size THEN MSS ELSE size - Offset(i)

LEMMA OffsetStep ==
  ASSUME NEW i \in Nat
  PROVE  /\ Offset(i) \in Int
         /\ Offset(i + 1) = Offset(i) + MSS
         /\ Offset(i + 1) = MSS * i
         /\ Offset(1) = 0
BY SegmentAssumption DEF Offset

LEMMA OffsetPositive ==
  ASSUME NEW i \in Nat \ {0}
  PROVE  Offset(i) \in Nat
<1>1. i - 1 \in Nat /\ MSS \in Nat
  BY SegmentAssumption
<1>2. \A a, b \in Nat : a * b \in Nat
  OBVIOUS
<1> QED BY <1>1, <1>2 DEF Offset

LEMMA OffsetMonotone ==
  ASSUME NEW i \in Nat, NEW j \in Nat, i <= j
  PROVE  Offset(i) <= Offset(j)
<1>1. j - i \in Nat /\ MSS \in Nat
  BY SegmentAssumption
<1>2. \A a, b \in Nat : a * b \in Nat
  OBVIOUS
<1>3. MSS * (j - i) \in Nat
  BY <1>1, <1>2
<1>4. MSS * (j - 1) = MSS * (i - 1) + MSS * (j - i)
  BY <1>1
<1> QED BY <1>1, <1>3, <1>4 DEF Offset

LEMMA DivisionFacts ==
  ASSUME NEW a \in Nat, NEW m \in Nat \ {0}
  PROVE  /\ a \div m \in Nat
         /\ m * (a \div m) <= a
         /\ a < m * (a \div m) + m
BY SMT

LEMMA SegmentsFacts ==
  ASSUME NEW size \in Nat \ {0}
  PROVE  /\ Segments(size) \in Nat \ {0}
         /\ Offset(Segments(size)) < size
         /\ size <= Offset(Segments(size) + 1)
<1> DEFINE a == size + MSS - 1
           q == a \div MSS
<1>1. MSS \in Nat \ {0} /\ a \in Nat
  BY SegmentAssumption
<1>2. q \in Nat /\ MSS * q <= a /\ a < MSS * q + MSS
  BY <1>1, DivisionFacts
<1>3. Segments(size) = q
  BY DEF Segments
<1> HIDE DEF q
<1>4. q # 0
  BY <1>1, <1>2
<1>5. Offset(q + 1) = MSS * q /\ Offset(q + 1) = Offset(q) + MSS /\ Offset(q) \in Int
  BY <1>2, OffsetStep
<1> QED BY <1>1, <1>2, <1>3, <1>4, <1>5

LEMMA NoSegments == Segments(0) = 0
BY SegmentAssumption DEF Segments

\* The segments of a datagram: each but the last is full, the last is not empty.
LEMMA SizeFacts ==
  ASSUME NEW size \in Nat \ {0}, NEW i \in 1..Segments(size)
  PROVE  /\ Offset(i) \in Nat /\ Offset(i) < size
         /\ SizeOf(size, i) \in 1..MSS
         /\ Offset(i) + SizeOf(size, i) <= size
         /\ Offset(i + 1) = Offset(i) + MSS
         /\ i < Segments(size) => SizeOf(size, i) = MSS
         /\ i = Segments(size) => SizeOf(size, i) = size - Offset(i)
         /\ SizeOf(size, i) < MSS => i = Segments(size)
<1>1. Segments(size) \in Nat \ {0} /\ i \in Nat \ {0} /\ MSS \in Nat \ {0}
  BY SegmentsFacts, SegmentAssumption
<1>2. Offset(i) \in Nat /\ Offset(i + 1) = Offset(i) + MSS
  BY <1>1, OffsetPositive, OffsetStep
<1>3. Offset(i) <= Offset(Segments(size))
  BY <1>1, OffsetMonotone
<1>4. Offset(Segments(size)) < size /\ size <= Offset(Segments(size) + 1)
  BY SegmentsFacts
<1>5. Offset(Segments(size)) \in Nat
  BY <1>1, OffsetPositive
<1>6. i < Segments(size) => Offset(i + 1) <= Offset(Segments(size))
  BY <1>1, OffsetMonotone
<1> QED BY <1>1, <1>2, <1>3, <1>4, <1>5, <1>6 DEF SizeOf

LEMMA Remainder ==
  ASSUME NEW i \in Nat \ {0}, NEW b \in 0..(MSS - 1)
  PROVE  (Offset(i) + b) % MSS = b
<1> DEFINE q == i - 1
<1>1. MSS \in Nat \ {0} /\ q \in Nat /\ b \in Nat /\ b < MSS
  BY SegmentAssumption
<1>2. \A m \in Nat \ {0} : \A k, c \in Nat : c < m => (m * k + c) % m = c
  BY SMT
<1> QED BY <1>1, <1>2 DEF Offset

-----------------------------------------------------------------------------
(* The datagrams of the initial states *)

\* The n bytes behind byte start.
Run(start, n) == [k \in 1..n |-> start + k]

DataSegment(start, size, i) ==
  Segment(start + Offset(i), FALSE, FALSE, FALSE, 0, Run(start + Offset(i), SizeOf(size, i)))

\* The datagram of the bytes behind start, size of them.
DataFrames(start, size) == [i \in 1..Segments(size) |-> pack(DataSegment(start, size, i))]

LEMMA RunFacts ==
  ASSUME NEW start \in Int, NEW n \in Nat
  PROVE  /\ Run(start, n) \in Seq(Int)
         /\ Len(Run(start, n)) = n
         /\ \A k \in 1..n : Run(start, n)[k] = start + k
BY DEF Run

LEMMA RunEmpty == \A start : Run(start, 0) = <<>>
BY DEF Run

LEMMA RunConcat ==
  ASSUME NEW start \in Int, NEW m \in Nat, NEW n \in Nat
  PROVE  Run(start, m) \o Run(start + m, n) = Run(start, m + n)
<1> DEFINE r == Run(start, m)
           s == Run(start + m, n)
<1>1. r \in Seq(Int) /\ Len(r) = m /\ s \in Seq(Int) /\ Len(s) = n
  BY RunFacts
<1>2. r \o s \in Seq(Int) /\ Len(r \o s) = m + n
  BY <1>1
<1>3. \A k \in 1..(m + n) : (r \o s)[k] = IF k <= m THEN r[k] ELSE s[k - m]
  BY <1>1
<1>4. ASSUME NEW k \in 1..(m + n)
      PROVE  (r \o s)[k] = start + k
  <2>1. CASE k <= m
    <3>1. r[k] = start + k
      BY <2>1, RunFacts
    <3> QED BY <1>3, <2>1, <3>1
  <2>2. CASE ~(k <= m)
    <3>1. k - m \in 1..n
      BY <2>2
    <3>2. start + m \in Int /\ k \in Int
      OBVIOUS
    <3>3. s[k - m] = (start + m) + (k - m)
      BY <3>1, <3>2, RunFacts
    <3>4. (r \o s)[k] = s[k - m]
      BY <1>3, <2>2
    <3> HIDE DEF r, s
    <3> QED BY <3>2, <3>3, <3>4
  <2> QED BY <2>1, <2>2
<1>5. DOMAIN (r \o s) = 1..(m + n) /\ r \o s = [k \in 1..(m + n) |-> (r \o s)[k]]
  BY <1>2
<1> QED BY <1>4, <1>5 DEF Run

\* A slice of a run is a run.
LEMMA RunSlice ==
  ASSUME NEW start \in Int, NEW size \in Nat, NEW from \in Nat, NEW to \in Int, from <= size
  PROVE  slice(Run(start, size), from + 1, to) =
           IF to < from THEN <<>>
           ELSE Run(start + from, IF to < size THEN to - from ELSE size - from)
<1> DEFINE s == Run(start, size)
           end == IF to < size THEN to ELSE size
<1>1. s \in Seq(Int) /\ Len(s) = size /\ \A k \in 1..size : s[k] = start + k
  BY RunFacts
<1>2. slice(s, from + 1, to) = SubSeq(s, from + 1, end)
  BY <1>1 DEF slice
<1>3. SubSeq(s, from + 1, end) = [k \in 1..(end - from) |-> s[k + from]]
  BY <1>1
<1>4. CASE to < from
  <2>1. end - from < 0
    BY <1>4
  <2>2. 1..(end - from) = {}
    BY <2>1
  <2> QED BY <1>2, <1>3, <1>4, <2>2
<1>5. CASE ~(to < from)
  <2>1. \A k \in 1..(end - from) : k + from \in 1..size
    BY <1>5
  <2>2. SubSeq(s, from + 1, end) = Run(start + from, end - from)
    BY <1>1, <1>3, <2>1 DEF Run
  <2> QED BY <1>2, <1>5, <2>2
<1> QED BY <1>4, <1>5

LEMMA PackedFrames ==
  ASSUME NEW c, NEW start \in Nat, NEW size \in Nat,
         package_message(c) = Run(start, size), package_seq(c) = start
  PROVE  package_frames(c) = DataFrames(start, size)
<1>1. Len(package_message(c)) = size
  BY RunFacts
<1>2. ASSUME NEW i \in 1..Segments(size)
      PROVE  /\ package_seq(c) + MSS * (i - 1) = start + Offset(i)
             /\ slice(package_message(c), MSS * (i - 1) + 1, MSS * i)
                  = Run(start + Offset(i), SizeOf(size, i))
  <2>1. size # 0
    BY <1>2, NoSegments
  <2>2. /\ Segments(size) \in Nat /\ i \in Nat /\ Offset(i) \in Nat /\ Offset(i) < size
        /\ Offset(i + 1) = Offset(i) + MSS /\ MSS \in Nat \ {0}
    BY <2>1, SegmentsFacts, SizeFacts, SegmentAssumption
  <2>3. MSS * (i - 1) = Offset(i) /\ MSS * i = Offset(i + 1)
    BY <2>2, OffsetStep DEF Offset
  <2>4. slice(Run(start, size), Offset(i) + 1, Offset(i + 1))
          = Run(start + Offset(i), IF Offset(i + 1) < size THEN Offset(i + 1) - Offset(i)
                                                           ELSE size - Offset(i))
    <3> DEFINE from == Offset(i)
               to == Offset(i + 1)
    <3>1. from \in Nat /\ to \in Int /\ from <= size /\ ~(to < from)
      BY <2>2
    <3> HIDE DEF from, to
    <3>2. slice(Run(start, size), from + 1, to)
            = Run(start + from, IF to < size THEN to - from ELSE size - from)
      BY <3>1, RunSlice
    <3> QED BY <3>2 DEF from, to
  <2>5. (IF Offset(i + 1) < size THEN Offset(i + 1) - Offset(i) ELSE size - Offset(i))
          = SizeOf(size, i)
    BY <2>2 DEF SizeOf
  <2> QED BY <2>3, <2>4, <2>5
<1> QED BY <1>1, <1>2 DEF package_frames, DataFrames, DataSegment, Segments

\* What package_message packs for the senders of the initial states.
LEMMA SenderMessage ==
  ASSUME NEW n \in Nat, NEW i \in Nat, NEW cwnd \in Nat
  PROVE  \E size \in Nat : package_frames(Sender(n, i, cwnd)) = DataFrames(i, size)
<1> DEFINE c == Sender(n, i, cwnd)
           last == i + cwnd * MSS
           end == IF last < n THEN last ELSE n
<1>1. /\ c.write_buff = Bytes(n) /\ c.write_index = i /\ c.congestion_window = cwnd
      /\ c.old_sequence_no = 0
  BY DEF Sender, establish, NewConnection
<1>2. Bytes(n) = Run(0, n) /\ Len(Bytes(n)) = n
  BY DEF Bytes, Run
<1>3. package_seq(c) = i
  BY <1>1 DEF package_seq
<1>4. cwnd * MSS \in Nat
  <2>1. \A a, b \in Nat : a * b \in Nat
    OBVIOUS
  <2> QED BY <2>1, SegmentAssumption
<1>5. package_message(c) = SubSeq(Bytes(n), i + 1, end)
  BY <1>1, <1>2 DEF package_message
<1> HIDE DEF c, last
<1>6. last \in Nat /\ last >= i
  BY <1>4 DEF last
<1>7. SubSeq(Bytes(n), i + 1, end) = slice(Run(0, n), i + 1, last)
  BY <1>2 DEF slice
<1>8. CASE i <= n
  <2>1. slice(Run(0, n), i + 1, last) = Run(i, IF last < n THEN last - i ELSE n - i)
    BY <1>6, <1>8, RunSlice
  <2> DEFINE size == IF last < n THEN last - i ELSE n - i
  <2>2. size \in Nat
    BY <1>6, <1>8
  <2>3. package_message(c) = Run(i, size)
    BY <1>5, <1>7, <2>1
  <2> HIDE DEF size
  <2>4. package_frames(c) = DataFrames(i, size)
    BY <1>3, <2>2, <2>3, PackedFrames
  <2> QED BY <2>2, <2>4 DEF c
<1>9. CASE n < i
  <2>1. SubSeq(Bytes(n), i + 1, end) = Run(i, 0)
    <3>1. end = n
      BY <1>6, <1>9
    <3>2. SubSeq(Bytes(n), i + 1, n) = [k \in 1..(n - i) |-> Bytes(n)[k + i]]
      BY <1>2, RunFacts
    <3>3. 1..(n - i) = {}
      BY <1>9
    <3>4. [k \in {} |-> Bytes(n)[k + i]] = <<>>
      OBVIOUS
    <3> QED BY <3>1, <3>2, <3>3, <3>4, RunEmpty
  <2> QED BY <1>3, <1>5, <2>1, PackedFrames DEF c
<1> QED BY <1>8, <1>9

-----------------------------------------------------------------------------
(* The loops *)

Unfolds(turn, start, frames, n) ==
  turn = [j \in 0..n |-> IF j = 0 THEN start ELSE handle_segment(turn[j - 1], frames[j])]

\* The loop of handle_rcv takes one frame in each turn.
LEMMA Turns ==
  ASSUME NEW start, NEW frames, Len(frames) \in Nat
  PROVE  /\ turns(start, frames)[0] = start
         /\ \A j \in 0..(Len(frames) - 1) :
              turns(start, frames)[j + 1] = handle_segment(turns(start, frames)[j], frames[j + 1])
<1> DEFINE T == {n \in Nat : \E turn : Unfolds(turn, start, frames, n)}
<1>1. 0 \in T
  <2>1. Unfolds([j \in 0..0 |-> start], start, frames, 0)
    BY DEF Unfolds
  <2> QED BY <2>1
<1>2. ASSUME NEW n \in T
      PROVE  n + 1 \in T
  <2>1. PICK t : Unfolds(t, start, frames, n)
    OBVIOUS
  <2> DEFINE u == [j \in 0..(n + 1) |->
                     IF j = n + 1 THEN handle_segment(t[n], frames[n + 1]) ELSE t[j]]
  <2>2. Unfolds(u, start, frames, n + 1)
    <3> SUFFICES ASSUME NEW j \in 0..(n + 1)
                 PROVE  u[j] = IF j = 0 THEN start ELSE handle_segment(u[j - 1], frames[j])
      BY DEF Unfolds
    <3>1. CASE j = n + 1
      BY <3>1
    <3>2. CASE j # n + 1 /\ j # 0
      <4>1. u[j] = t[j] /\ u[j - 1] = t[j - 1]
        BY <3>2
      <4>2. t[j] = handle_segment(t[j - 1], frames[j])
        BY <3>2, <2>1 DEF Unfolds
      <4> QED BY <4>1, <4>2, <3>2
    <3>3. CASE j = 0
      BY <3>3, <2>1 DEF Unfolds
    <3> QED BY <3>1, <3>2, <3>3
  <2> HIDE DEF u
  <2> QED BY <2>2
<1>3. T = Nat
  <2> HIDE DEF T
  <2>1. T \subseteq Nat
    BY DEF T
  <2> QED BY <1>1, <1>2, <2>1, SetInduction
<1>4. \E turn : Unfolds(turn, start, frames, Len(frames))
  BY <1>3
<1>5. Unfolds(turns(start, frames), start, frames, Len(frames))
  BY <1>4 DEF turns, Unfolds
<1>0. turns(start, frames)[0] = start
  BY <1>5 DEF Unfolds
<1> SUFFICES ASSUME NEW j \in 0..(Len(frames) - 1)
             PROVE  turns(start, frames)[j + 1] = handle_segment(turns(start, frames)[j], frames[j + 1])
  BY <1>0
<1>6. j + 1 \in 0..Len(frames) /\ j + 1 # 0 /\ (j + 1) - 1 = j
  OBVIOUS
<1>7. turns(start, frames)[j + 1] = handle_segment(turns(start, frames)[(j + 1) - 1], frames[j + 1])
  BY <1>5, <1>6 DEF Unfolds
<1> QED BY <1>6, <1>7

\* The loop of handle_rcv on c, and what handle_rcv makes of it.
Loop(c, frames) == turns([conn |-> c, fin |-> FALSE, going |-> TRUE], frames)

LEMMA LoopTurns ==
  ASSUME NEW c, NEW frames, Len(frames) \in Nat
  PROVE  /\ Loop(c, frames)[0] = [conn |-> c, fin |-> FALSE, going |-> TRUE]
         /\ \A j \in 0..(Len(frames) - 1) :
              Loop(c, frames)[j + 1] = handle_segment(Loop(c, frames)[j], frames[j + 1])
         /\ handle_rcv(c, frames) = [conn |-> Loop(c, frames)[Len(frames)].conn,
                                     fin |-> Loop(c, frames)[Len(frames)].fin, done |-> TRUE]
<1> DEFINE start == [conn |-> c, fin |-> FALSE, going |-> TRUE]
<1>1. Loop(c, frames) = turns(start, frames)
  BY DEF Loop
<1>2. handle_rcv(c, frames) = [conn |-> Loop(c, frames)[Len(frames)].conn,
                               fin |-> Loop(c, frames)[Len(frames)].fin, done |-> TRUE]
  BY DEF Loop, handle_rcv
<1> HIDE DEF start
<1>3. /\ Loop(c, frames)[0] = start
      /\ \A j \in 0..(Len(frames) - 1) :
           Loop(c, frames)[j + 1] = handle_segment(Loop(c, frames)[j], frames[j + 1])
  BY <1>1, Turns
<1> QED BY <1>2, <1>3 DEF start

Joins(data, n) ==
  data = [j \in 0..n |-> IF j = 0 THEN <<>> ELSE data[j - 1] \o sent[j].segment.data]

LEMMA Joined ==
  ASSUME Len(sent) \in Nat
  PROVE  /\ joined[0] = <<>>
         /\ \A j \in 0..(Len(sent) - 1) :
              joined[j + 1] = joined[j] \o sent[j + 1].segment.data
<1> DEFINE T == {n \in Nat : \E data : Joins(data, n)}
<1>1. 0 \in T
  <2>1. Joins([j \in 0..0 |-> <<>>], 0)
    BY DEF Joins
  <2> QED BY <2>1
<1>2. ASSUME NEW n \in T
      PROVE  n + 1 \in T
  <2>1. PICK t : Joins(t, n)
    OBVIOUS
  <2> DEFINE u == [j \in 0..(n + 1) |->
                     IF j = n + 1 THEN t[n] \o sent[n + 1].segment.data ELSE t[j]]
  <2>2. Joins(u, n + 1)
    <3> SUFFICES ASSUME NEW j \in 0..(n + 1)
                 PROVE  u[j] = IF j = 0 THEN <<>> ELSE u[j - 1] \o sent[j].segment.data
      BY DEF Joins
    <3>1. CASE j = n + 1
      <4>1. u[j] = t[n] \o sent[n + 1].segment.data
        BY <3>1
      <4>2. j # 0 /\ j - 1 = n /\ n \in 0..(n + 1) /\ n # n + 1
        BY <3>1
      <4>3. u[j - 1] = t[n]
        BY <4>2
      <4> QED BY <3>1, <4>1, <4>2, <4>3
    <3>2. CASE j # n + 1 /\ j # 0
      <4>1. u[j] = t[j] /\ u[j - 1] = t[j - 1]
        BY <3>2
      <4>2. \A k \in 0..n : t[k] = IF k = 0 THEN <<>> ELSE t[k - 1] \o sent[k].segment.data
        BY <2>1 DEF Joins
      <4>3. j \in 0..n /\ j # 0
        BY <3>2
      <4> HIDE DEF u, T
      <4>4. t[j] = t[j - 1] \o sent[j].segment.data
        BY <4>2, <4>3
      <4> QED BY <4>1, <4>3, <4>4
    <3>3. CASE j = 0
      BY <3>3, <2>1 DEF Joins
    <3> QED BY <3>1, <3>2, <3>3
  <2> HIDE DEF u
  <2> QED BY <2>2
<1>3. T = Nat
  <2> HIDE DEF T
  <2>1. T \subseteq Nat
    BY DEF T
  <2> QED BY <1>1, <1>2, <2>1, SetInduction
<1>4. \E data : Joins(data, Len(sent))
  BY <1>3
<1>5. Joins(joined, Len(sent))
  BY <1>4 DEF joined, Joins
<1>0. joined[0] = <<>>
  BY <1>5 DEF Joins
<1> SUFFICES ASSUME NEW j \in 0..(Len(sent) - 1)
             PROVE  joined[j + 1] = joined[j] \o sent[j + 1].segment.data
  BY <1>0
<1>6. j + 1 \in 0..Len(sent) /\ j + 1 # 0 /\ (j + 1) - 1 = j
  OBVIOUS
<1>7. joined[j + 1] = joined[(j + 1) - 1] \o sent[j + 1].segment.data
  BY <1>5, <1>6 DEF Joins
<1> QED BY <1>6, <1>7

-----------------------------------------------------------------------------
(* The invariant: what arrives is what was sent, with at most one thing    *)
(* wrong with each frame, and the outcome is what multiplex makes of it.   *)

Arrives(frame, arrived) ==
  \/ arrived = frame
  \/ \E seg \in Damages(frame.segment) : arrived = [frame EXCEPT !.segment = seg]
  \/ \E length \in {"short", "long", "too long", "beyond"} :
       arrived = [frame EXCEPT !.length = length]

FramingInv ==
  /\ before \in Receivers /\ sent \in Datagrams /\ same_memory \in BOOLEAN
  /\ wire = [i \in 1..Len(sent) |-> wire[i]]
  /\ \A i \in 1..Len(sent) : Arrives(sent[i], wire[i])
  /\ outcome = Pending \/ outcome = multiplex(before, wire)

-----------------------------------------------------------------------------
(* Connections *)

\* A connection on which nothing has been taken yet.
Empty(c) == c \in ConnectionType /\ c.rcv_window = <<>> /\ c.timeout_count = 0

LEMMA ReceiversEmpty ==
  ASSUME NEW c \in Receivers
  PROVE  /\ Empty(c)
         /\ c.valid => c.sequence_no \in Nat
         /\ ~c.valid => c.sequence_no \in {-2, -1} /\ Empty(establish(c, 0))
<1>1. Bytes(MaxBytes) \in Seq(Nat)
  BY MaxBytesAssumption DEF Bytes
<1>2. MSS \in Int
  BY SegmentAssumption
<1>3. /\ NewConnection \in ConnectionType /\ ~NewConnection.valid
      /\ NewConnection.rcv_window = <<>> /\ NewConnection.timeout_count = 0
  BY NewConnectionType DEF NewConnection
<1>4. ASSUME NEW d \in ConnectionType, d.rcv_window = <<>>, NEW n \in Int
      PROVE  Empty(establish(d, n)) /\ establish(d, n).sequence_no = n /\ establish(d, n).valid
  <2>1. establish(d, n).timeout_count = 0
    BY DEF establish, ConnectionType
  <2> QED BY <1>4, <2>1, EstablishFields DEF Empty
<1>5. CASE \E n \in 0..MaxBytes :
             c = [establish(NewConnection, n) EXCEPT !.write_buff = Bytes(MaxBytes),
                    !.valid_send_handler = TRUE, !.remote_window_size = MSS]
  <2>1. PICK n \in 0..MaxBytes :
               c = [establish(NewConnection, n) EXCEPT !.write_buff = Bytes(MaxBytes),
                      !.valid_send_handler = TRUE, !.remote_window_size = MSS]
    BY <1>5
  <2> DEFINE d == establish(NewConnection, n)
             d1 == [d EXCEPT !.write_buff = Bytes(MaxBytes)]
             d2 == [d1 EXCEPT !.valid_send_handler = TRUE]
             d3 == [d2 EXCEPT !.remote_window_size = MSS]
  <2>2. n \in Nat
    BY MaxBytesAssumption
  <2>3. Empty(d) /\ d.sequence_no = n /\ d.valid
    BY <1>3, <1>4, <2>2
  <2>4. d \in ConnectionType
    BY <2>3 DEF Empty
  <2> HIDE DEF d
  <2>5. d1 \in ConnectionType
    BY <1>1, <2>4, FieldUpdate
  <2>6. d2 \in ConnectionType
    <3> HIDE DEF d1
    <3> QED BY <2>5, FieldUpdate
  <2>7. d3 \in ConnectionType
    <3> HIDE DEF d2
    <3> QED BY <1>2, <2>6, FieldUpdate
  <2>8. c = d3
    BY <2>1 DEF d
  <2>9. /\ c.rcv_window = d.rcv_window /\ c.timeout_count = d.timeout_count
        /\ c.sequence_no = d.sequence_no /\ c.valid = d.valid
    BY <2>4, <2>8 DEF ConnectionType
  <2> QED BY <2>2, <2>3, <2>7, <2>8, <2>9 DEF Empty
<1>6. CASE \E n \in {-2, -1} : c = [NewConnection EXCEPT !.sequence_no = n]
  <2>1. PICK n \in {-2, -1} : c = [NewConnection EXCEPT !.sequence_no = n]
    BY <1>6
  <2>2. c \in ConnectionType
    BY <1>3, <2>1, n \in Int, FieldUpdate
  <2>3. c.rcv_window = <<>> /\ c.timeout_count = 0 /\ c.sequence_no = n /\ ~c.valid
    BY <1>3, <2>1 DEF ConnectionType
  <2> QED BY <1>4, <2>2, <2>3 DEF Empty
<1> QED BY <1>5, <1>6 DEF Receivers

LEMMA TakeNothingOfData ==
  ASSUME NEW c, Empty(c)
  PROVE  take_data(c, <<>>) = c
<1>1. c \in ConnectionType /\ c.rcv_window = <<>> /\ c.timeout_count = 0
  BY DEF Empty
<1>2. <<>> \o <<>> = <<>> /\ c.sequence_no + Len(<<>>) = c.sequence_no
  BY <1>1 DEF ConnectionType
<1> QED BY <1>1, <1>2 DEF take_data, ConnectionType

LEMMA TakenFields ==
  ASSUME NEW c, Empty(c), NEW w \in Seq(Int)
  PROVE  /\ take_data(c, w).rcv_window = w
         /\ take_data(c, w).sequence_no = c.sequence_no + Len(w)
         /\ take_data(c, w).sequence_no \in Int
<1>1. c \in ConnectionType /\ c.rcv_window = <<>> /\ c.sequence_no \in Int
  BY DEF Empty, ConnectionType
<1>2. /\ take_data(c, w).rcv_window = <<>> \o w
      /\ take_data(c, w).sequence_no = c.sequence_no + Len(w)
  BY <1>1 DEF take_data, ConnectionType
<1>3. <<>> \o w = w /\ Len(w) \in Int
  OBVIOUS
<1> QED BY <1>1, <1>2, <1>3

LEMMA TakeDataTwice ==
  ASSUME NEW c, Empty(c), NEW w \in Seq(Int), NEW d \in Seq(Int)
  PROVE  take_data(take_data(c, w), d) = take_data(c, w \o d)
<1>1. c \in ConnectionType /\ c.rcv_window = <<>> /\ c.sequence_no \in Int
  BY DEF Empty, ConnectionType
<1>2. <<>> \o w = w /\ <<>> \o (w \o d) = w \o d
  OBVIOUS
<1>3. c.sequence_no + Len(w) + Len(d) = c.sequence_no + Len(w \o d)
  BY <1>1
<1> QED BY <1>1, <1>2, <1>3 DEF take_data, ConnectionType

-----------------------------------------------------------------------------
(* One data frame: what arrives of it, if its checksums are right *)

IsSegment(seg) ==
  \E n, ack, syn, fin, window, data : seg = Segment(n, ack, syn, fin, window, data)

LEMMA SegmentFields ==
  ASSUME NEW n, NEW ack, NEW syn, NEW fin, NEW window, NEW data
  PROVE  Segment(n, ack, syn, fin, window, data) =
           [sequence_no |-> n, ack |-> ack, syn |-> syn, fin |-> fin,
            receive_window |-> window, data |-> data,
            data_checksum |-> create_data_checksum(data),
            header_checksum |-> <<n, ack, syn, fin>>]
BY DEF Segment, create_header_checksum

\* A damaged segment differs in one field.
LEMMA DamageKinds ==
  ASSUME NEW seg, IsSegment(seg), NEW d \in Damages(seg)
  PROVE  \/ d.header_checksum = <<>>
         \/ /\ d.header_checksum = seg.header_checksum
            /\ \/ d.data = seg.data /\ d.data_checksum = seg.data_checksum
               \/ d.data = seg.data /\ d.data_checksum = <<Damaged>>
               \/ /\ d.data_checksum = seg.data_checksum
                  /\ \E k \in 1..Len(seg.data) : d.data = [seg.data EXCEPT ![k] = Damaged]
               \/ /\ d.data_checksum = seg.data_checksum
                  /\ \E k \in 0..(Len(seg.data) - 1) : d.data = SubSeq(seg.data, 1, k)
<1> PICK n, ack, syn, fin, window, data : seg = Segment(n, ack, syn, fin, window, data)
  BY DEF IsSegment
<1>1. seg = [sequence_no |-> n, ack |-> ack, syn |-> syn, fin |-> fin,
             receive_window |-> window, data |-> data,
             data_checksum |-> create_data_checksum(data),
             header_checksum |-> <<n, ack, syn, fin>>]
  BY DEF Segment, create_header_checksum
<1>2. CASE \/ \E v : d = [seg EXCEPT !.sequence_no = v]
           \/ d = [seg EXCEPT !.ack = ~@] \/ d = [seg EXCEPT !.syn = ~@]
           \/ d = [seg EXCEPT !.fin = ~@] \/ d = [seg EXCEPT !.receive_window = Damaged]
  <2>1. /\ d.header_checksum = seg.header_checksum
        /\ d.data = seg.data /\ d.data_checksum = seg.data_checksum
    BY <1>1, <1>2
  <2> QED BY <2>1
<1>3. CASE d = [seg EXCEPT !.data_checksum = <<Damaged>>]
  BY <1>1, <1>3
<1>4. CASE d = [seg EXCEPT !.header_checksum = <<>>]
  BY <1>1, <1>4
<1>5. CASE \E k \in 1..Len(seg.data) : d = [seg EXCEPT !.data[k] = Damaged]
  <2>1. PICK k \in 1..Len(seg.data) : d = [seg EXCEPT !.data[k] = Damaged]
    BY <1>5
  <2>2. d.data = [seg.data EXCEPT ![k] = Damaged]
    BY <1>1, <2>1
  <2>3. d.header_checksum = seg.header_checksum /\ d.data_checksum = seg.data_checksum
    BY <1>1, <2>1
  <2> QED BY <2>2, <2>3
<1>6. CASE \E k \in 0..(Len(seg.data) - 1) : d = [seg EXCEPT !.data = SubSeq(@, 1, k)]
  <2>1. PICK k \in 0..(Len(seg.data) - 1) : d = [seg EXCEPT !.data = SubSeq(@, 1, k)]
    BY <1>6
  <2>2. d.data = SubSeq(seg.data, 1, k)
    BY <1>1, <2>1
  <2>3. d.header_checksum = seg.header_checksum /\ d.data_checksum = seg.data_checksum
    BY <1>1, <2>1
  <2> QED BY <2>2, <2>3
<1> QED BY <1>2, <1>3, <1>4, <1>5, <1>6 DEF Damages

\* The window of a damaged segment is the one that was sent, or Damaged.
LEMMA DamagedWindow ==
  ASSUME NEW seg, IsSegment(seg), NEW d \in Damages(seg)
  PROVE  d.receive_window \in {seg.receive_window, Damaged}
<1> PICK n, ack, syn, fin, window, data : seg = Segment(n, ack, syn, fin, window, data)
  BY DEF IsSegment
<1>1. seg = [sequence_no |-> n, ack |-> ack, syn |-> syn, fin |-> fin,
             receive_window |-> window, data |-> data,
             data_checksum |-> create_data_checksum(data),
             header_checksum |-> <<n, ack, syn, fin>>]
  BY DEF Segment, create_header_checksum
<1>2. CASE \/ \E v : d = [seg EXCEPT !.sequence_no = v]
           \/ d = [seg EXCEPT !.ack = ~@] \/ d = [seg EXCEPT !.syn = ~@]
           \/ d = [seg EXCEPT !.fin = ~@] \/ d = [seg EXCEPT !.data_checksum = <<Damaged>>]
           \/ d = [seg EXCEPT !.header_checksum = <<>>]
  BY <1>1, <1>2
<1>3. CASE d = [seg EXCEPT !.receive_window = Damaged]
  BY <1>1, <1>3
<1>4. CASE \/ \E k \in 1..Len(seg.data) : d = [seg EXCEPT !.data[k] = Damaged]
           \/ \E k \in 0..(Len(seg.data) - 1) : d = [seg EXCEPT !.data = SubSeq(@, 1, k)]
  <2>1. \E e : d = [seg EXCEPT !.data = e]
    BY <1>4
  <2> QED BY <1>1, <2>1
<1> QED BY <1>2, <1>3, <1>4 DEF Damages

LEMMA HeaderTells ==
  ASSUME NEW seg, IsSegment(seg), NEW d, d = seg \/ d \in Damages(seg),
         check_header_checksum(d)
  PROVE  /\ d.sequence_no = seg.sequence_no /\ d.ack = seg.ack
         /\ d.syn = seg.syn /\ d.fin = seg.fin
<1>1. seg.header_checksum = <<seg.sequence_no, seg.ack, seg.syn, seg.fin>>
  BY DEF IsSegment, Segment, create_header_checksum
<1>2. d.header_checksum = <<d.sequence_no, d.ack, d.syn, d.fin>>
  BY DEF check_header_checksum, create_header_checksum
<1>3. d.header_checksum # <<>>
  BY <1>2
<1>4. d.header_checksum = <<seg.sequence_no, seg.ack, seg.syn, seg.fin>>
  BY <1>1, <1>3, DamageKinds
<1> QED BY <1>2, <1>4

\* Bytes that stand for the ones behind byte n: each is right, or damaged behind
\* the first Span.
RightButBehindSpan(n, data) ==
  /\ data \in Seq(Int)
  /\ \A k \in 1..Len(data) : data[k] = n + k \/ (data[k] = Damaged /\ k > Span)

LEMMA ChecksumOfRun ==
  ASSUME NEW n \in Int, NEW m \in Nat \ {0}
  PROVE  /\ create_data_checksum(Run(n, m)) = Run(n, IF Span < m THEN Span ELSE m)
         /\ create_data_checksum(Run(n, m)) # <<>>
<1>1. Span \in Nat \ {0}
  BY SegmentAssumption
<1>2. slice(Run(n, m), 0 + 1, Span) = IF Span < 0 THEN <<>>
                                      ELSE Run(n + 0, IF Span < m THEN Span - 0 ELSE m - 0)
  BY <1>1, RunSlice
<1>3. create_data_checksum(Run(n, m)) = Run(n, IF Span < m THEN Span ELSE m)
  BY <1>1, <1>2 DEF create_data_checksum
<1>4. Len(Run(n, IF Span < m THEN Span ELSE m)) # 0
  BY <1>1, RunFacts
<1> QED BY <1>3, <1>4

\* One damaged byte is noticed among the first Span.
LEMMA DamagedByte ==
  ASSUME NEW n \in Nat, NEW m \in Nat \ {0}, NEW k \in 1..m,
         NEW data, data = [Run(n, m) EXCEPT ![k] = Damaged],
         IsPrefix(create_data_checksum(data), create_data_checksum(Run(n, m)))
  PROVE  RightButBehindSpan(n, data) /\ Len(data) = m
<1>1. Span \in Nat \ {0} /\ Damaged \in Int /\ Damaged < 0
  BY SegmentAssumption DEF Damaged
<1>2. data \in Seq(Int) /\ Len(data) = m /\ data[k] = Damaged
      /\ \A i \in 1..m : i # k => data[i] = n + i
  BY <1>1 DEF Run
<1>3. ASSUME k <= Span
      PROVE  FALSE
  <2> DEFINE p == IF Span < m THEN Span ELSE m
             c == create_data_checksum(data)
             d == create_data_checksum(Run(n, m))
  <2>1. p \in Nat /\ k \in 1..p /\ p <= m
    BY <1>1, <1>3
  <2>2. d = Run(n, p)
    BY ChecksumOfRun
  <2>4. c = SubSeq(data, 1, p)
    BY <1>2 DEF create_data_checksum, slice
  <2> HIDE DEF p, c, d
  <2>3. d \in Seq(Int) /\ Len(d) = p /\ d[k] = n + k
    BY <2>1, <2>2, n \in Int, RunFacts
  <2>5. c \in Seq(Int) /\ Len(c) = p /\ c[k] = Damaged
    BY <1>2, <2>1, <2>4
  <2>6. SubSeq(c, 1, p) = SubSeq(d, 1, p)
    BY <2>5 DEF IsPrefix, c, d
  <2>7. SubSeq(c, 1, p)[k] = c[k] /\ SubSeq(d, 1, p)[k] = d[k]
    BY <2>1, <2>3, <2>5
  <2>8. n + k >= 0
    BY <2>1
  <2>9. c[k] = d[k]
    BY <2>6, <2>7, Zenon
  <2> QED BY <1>1, <2>3, <2>5, <2>8, <2>9
<1> QED BY <1>1, <1>2, <1>3 DEF RightButBehindSpan

\* What the loop takes of a data frame whose checksums are right.
LEMMA DataFrameArrives ==
  ASSUME NEW n \in Nat, NEW m \in 1..MSS, NEW seg,
         seg = Segment(n, FALSE, FALSE, FALSE, 0, Run(n, m)),
         NEW d, d = seg \/ d \in Damages(seg),
         check_header_checksum(d), check_data_checksum(d)
  PROVE  RightButBehindSpan(n, d.data) /\ Len(d.data) \in 1..MSS
<1>1. m \in Nat \ {0} /\ m <= MSS /\ MSS \in Nat
  BY SegmentAssumption
<1>2. /\ seg.data = Run(n, m) /\ seg.data_checksum = create_data_checksum(Run(n, m))
      /\ seg.header_checksum # <<>> /\ IsSegment(seg)
  BY DEF Segment, create_header_checksum, IsSegment
<1>3. d.header_checksum # <<>>
  BY DEF check_header_checksum, create_header_checksum
<1>4. /\ Run(n, m) \in Seq(Int) /\ Len(Run(n, m)) = m /\ \A k \in 1..m : Run(n, m)[k] = n + k
  BY <1>1, RunFacts
<1>5. create_data_checksum(Run(n, m)) # <<>>
  BY <1>1, ChecksumOfRun
<1>6. CASE d.data = seg.data /\ d.data_checksum = seg.data_checksum
  BY <1>1, <1>2, <1>4, <1>6 DEF RightButBehindSpan
<1>7. CASE d.data = seg.data /\ d.data_checksum = <<Damaged>>
  <2> DEFINE c == create_data_checksum(Run(n, m))
             p == IF Span < m THEN Span ELSE m
  <2>1. IsPrefix(c, <<Damaged>>)
    BY <1>1, <1>2, <1>4, <1>7 DEF check_data_checksum
  <2>2. p \in Nat \ {0} /\ c = Run(n, p)
    BY <1>1, ChecksumOfRun, SegmentAssumption
  <2> HIDE DEF c, p
  <2>3. c \in Seq(Int) /\ Len(c) = p /\ c[1] = n + 1
    BY <2>2, 1 \in 1..p, n \in Int, RunFacts
  <2>4. Len(<<Damaged>>) = 1 /\ <<Damaged>>[1] = Damaged /\ <<Damaged>> \in Seq(Int)
    BY DEF Damaged
  <2>5. p = 1 /\ SubSeq(c, 1, 1) = SubSeq(<<Damaged>>, 1, 1)
    BY <2>1, <2>2, <2>3, <2>4 DEF IsPrefix
  <2>6. SubSeq(c, 1, 1)[1] = c[1] /\ SubSeq(<<Damaged>>, 1, 1)[1] = Damaged
    BY <2>2, <2>3, <2>4, <2>5
  <2>7. n + 1 = Damaged
    BY <2>3, <2>5, <2>6
  <2> QED BY <2>7 DEF Damaged
<1>8. CASE d.data_checksum = seg.data_checksum
           /\ \E k \in 1..Len(seg.data) : d.data = [seg.data EXCEPT ![k] = Damaged]
  <2>1. PICK k \in 1..m : d.data = [Run(n, m) EXCEPT ![k] = Damaged]
    BY <1>2, <1>4, <1>8
  <2>2. Len(d.data) = m
    BY <1>4, <2>1
  <2>3. IsPrefix(create_data_checksum(d.data), create_data_checksum(Run(n, m)))
    BY <1>1, <1>2, <1>8, <2>2 DEF check_data_checksum
  <2> QED BY <1>1, <2>1, <2>3, DamagedByte
<1>9. CASE d.data_checksum = seg.data_checksum
           /\ \E k \in 0..(Len(seg.data) - 1) : d.data = SubSeq(seg.data, 1, k)
  <2>1. PICK k \in 0..(m - 1) : d.data = SubSeq(Run(n, m), 1, k)
    BY <1>2, <1>4, <1>9
  <2>2. d.data # <<>>
    BY <1>2, <1>5, <1>9 DEF check_data_checksum
  <2>3. /\ d.data \in Seq(Int) /\ Len(d.data) = k
        /\ \A i \in 1..k : d.data[i] = Run(n, m)[i]
    BY <1>1, <1>4, <2>1
  <2>4. k # 0
    BY <2>2, <2>3
  <2> QED BY <1>1, <1>4, <2>3, <2>4 DEF RightButBehindSpan
<1> QED BY <1>2, <1>3, <1>6, <1>7, <1>8, <1>9, DamageKinds

LEMMA ArrivedSegment ==
  ASSUME NEW seg, NEW g, Arrives(pack(seg), g)
  PROVE  /\ g.segment = seg \/ g.segment \in Damages(seg)
         /\ g.length = "right" \/ g.segment = seg
<1> DEFINE f == pack(seg)
<1>1. f.length = "right" /\ f.segment = seg
  BY DEF pack
<1>2. ASSUME NEW d
      PROVE  [f EXCEPT !.segment = d].segment = d /\ [f EXCEPT !.segment = d].length = "right"
  BY DEF pack
<1>3. ASSUME NEW length
      PROVE  [f EXCEPT !.length = length].segment = seg
  BY DEF pack
<1>4. CASE \E d \in Damages(f.segment) : g = [f EXCEPT !.segment = d]
  BY <1>1, <1>2, <1>4
<1>5. CASE \E length \in {"short", "long", "too long", "beyond"} : g = [f EXCEPT !.length = length]
  BY <1>3, <1>5
<1> HIDE DEF f
<1>6. Arrives(f, g)
  BY DEF f
<1> QED BY <1>1, <1>4, <1>5, <1>6 DEF Arrives

LEMMA DataSegmentFields ==
  ASSUME NEW start, NEW size, NEW i, NEW seg, seg = DataSegment(start, size, i)
  PROVE  /\ IsSegment(seg)
         /\ seg.sequence_no = start + Offset(i)
         /\ ~seg.ack /\ ~seg.syn /\ ~seg.fin
         /\ seg.data = Run(start + Offset(i), SizeOf(size, i))
         /\ seg.data_checksum = create_data_checksum(seg.data)
         /\ check_header_checksum(seg)
BY DEF DataSegment, Segment, create_header_checksum, IsSegment, check_header_checksum

-----------------------------------------------------------------------------
(* The loop over a data datagram, whole or damaged *)

\* Bytes that stand for the ones behind byte m: each is right, or damaged at a
\* place of its segment that no checksum covers.
Contained(start, m, w) ==
  /\ w \in Seq(Int)
  /\ \A k \in 1..Len(w) : w[k] = m + k \/ (w[k] = Damaged /\ (m + k - start - 1) % MSS >= Span)

\* The loop has taken w on c.
Took(c, w, going) == [conn |-> take_data(c, w), fin |-> FALSE, going |-> going]

\* Bytes that are right but behind the first Span of their segment are contained.
LEMMA SegmentContained ==
  ASSUME NEW start \in Nat, NEW i \in Nat \ {0}, NEW d,
         RightButBehindSpan(start + Offset(i), d), Len(d) \in 1..MSS
  PROVE  Contained(start, start + Offset(i), d)
<1> SUFFICES ASSUME NEW k \in 1..Len(d), d[k] = Damaged, k > Span
             PROVE  (start + Offset(i) + k - start - 1) % MSS >= Span
  BY DEF Contained, RightButBehindSpan
<1>1. Offset(i) \in Nat /\ MSS \in Nat /\ Span \in Nat /\ k \in Nat \ {0} /\ k <= MSS
  BY OffsetPositive, SegmentAssumption
<1>2. start + Offset(i) + k - start - 1 = Offset(i) + (k - 1)
  BY <1>1
<1>3. (Offset(i) + (k - 1)) % MSS = k - 1
  BY <1>1, Remainder
<1> QED BY <1>1, <1>2, <1>3

LEMMA ContainedConcat ==
  ASSUME NEW start \in Int, NEW m \in Int, NEW w, Contained(start, m, w),
         NEW d, Contained(start, m + Len(w), d)
  PROVE  Contained(start, m, w \o d)
<1>1. w \in Seq(Int) /\ d \in Seq(Int) /\ w \o d \in Seq(Int) /\ Len(w \o d) = Len(w) + Len(d)
  BY DEF Contained
<1> SUFFICES ASSUME NEW k \in 1..(Len(w) + Len(d))
             PROVE  \/ (w \o d)[k] = m + k
                    \/ (w \o d)[k] = Damaged /\ (m + k - start - 1) % MSS >= Span
  BY <1>1 DEF Contained
<1>2. CASE k <= Len(w)
  <2>1. (w \o d)[k] = w[k] /\ k \in 1..Len(w)
    BY <1>1, <1>2
  <2> QED BY <2>1 DEF Contained
<1>3. CASE ~(k <= Len(w))
  <2> DEFINE j == k - Len(w)
  <2>1. (w \o d)[k] = d[j] /\ j \in 1..Len(d)
    BY <1>1, <1>3
  <2>2. m + Len(w) + j = m + k
    BY <1>1
  <2> HIDE DEF j
  <2> QED BY <2>1, <2>2 DEF Contained
<1> QED BY <1>2, <1>3

\* One turn on a data frame takes contained bytes under the right number, or
\* leaves the loop.
LEMMA DataTurn ==
  ASSUME NEW c, Empty(c), NEW start \in Nat, NEW size \in Nat \ {0},
         NEW i \in 1..Segments(size), NEW g, Arrives(pack(DataSegment(start, size, i)), g),
         NEW w, Contained(start, c.sequence_no, w), NEW going \in BOOLEAN
  PROVE  \E v : \E b \in BOOLEAN :
           /\ Contained(start, c.sequence_no, v)
           /\ handle_segment(Took(c, w, going), g) = Took(c, v, b)
<1> DEFINE r == Took(c, w, going)
           n == start + Offset(i)
           m == SizeOf(size, i)
           seg == DataSegment(start, size, i)
           d == g.segment
<1>1. /\ i \in Nat \ {0} /\ Offset(i) \in Nat /\ n \in Nat /\ m \in 1..MSS
  BY SegmentsFacts, SizeFacts
<1>2. d = seg \/ d \in Damages(seg)
  BY ArrivedSegment
<1>3. r.conn = take_data(c, w) /\ r.fin = FALSE /\ r.going = going
  BY DEF Took
<1>4. w \in Seq(Int) /\ r.conn.sequence_no = c.sequence_no + Len(w) /\ c.sequence_no \in Int
  BY <1>3, TakenFields DEF Contained, Empty, ConnectionType
<1>5. [conn |-> r.conn, fin |-> r.fin, going |-> FALSE] = Took(c, w, FALSE)
  BY <1>3 DEF Took
<1>6. CASE \/ ~r.going
           \/ ~unpacks(g) \/ g.length \in {"too long", "beyond"}
           \/ ~check_header_checksum(d) \/ ~check_data_checksum(d)
  <2>1. handle_segment(r, g) = [conn |-> r.conn, fin |-> r.fin, going |-> FALSE]
    BY <1>6 DEF handle_segment
  <2> QED BY <1>5, <2>1
<1>7. CASE ~(\/ ~r.going
             \/ ~unpacks(g) \/ g.length \in {"too long", "beyond"}
             \/ ~check_header_checksum(d) \/ ~check_data_checksum(d))
  <2>1. d.sequence_no = n /\ ~d.ack /\ ~d.fin
    <3>1. IsSegment(seg) /\ seg.sequence_no = n /\ ~seg.ack /\ ~seg.fin
      BY DataSegmentFields
    <3>2. d.sequence_no = seg.sequence_no /\ d.ack = seg.ack /\ d.fin = seg.fin
      <4> HIDE DEF seg, d
      <4> QED BY <1>2, <1>7, <3>1, HeaderTells
    <3> QED BY <3>1, <3>2
  <2>2. CASE n # r.conn.sequence_no
    <3>1. handle_segment(r, g) = [conn |-> r.conn, fin |-> r.fin, going |-> FALSE]
      BY <1>7, <2>1, <2>2 DEF handle_segment
    <3> QED BY <1>5, <3>1
  <2>3. CASE n = r.conn.sequence_no
    <3> DEFINE b == g.length # "long"
    <3>1. handle_segment(r, g) = [conn |-> take_data(r.conn, d.data), fin |-> r.fin, going |-> b]
      BY <1>7, <2>1, <2>3 DEF handle_segment
    <3>2. RightButBehindSpan(n, d.data) /\ Len(d.data) \in 1..MSS
      <4>1. seg = Segment(n, FALSE, FALSE, FALSE, 0, Run(n, m))
        BY DEF DataSegment
      <4> HIDE DEF seg, n, m, d
      <4> QED BY <1>1, <1>2, <1>7, <4>1, DataFrameArrives
    <3>3. Contained(start, c.sequence_no + Len(w), d.data)
      BY <1>1, <1>4, <2>3, <3>2, SegmentContained
    <3>4. Contained(start, c.sequence_no, w \o d.data)
      BY <1>4, <3>3, ContainedConcat
    <3>5. take_data(r.conn, d.data) = take_data(c, w \o d.data)
      BY <1>3, <1>4, <3>3, TakeDataTwice DEF Contained
    <3>6. handle_segment(r, g) = Took(c, w \o d.data, b)
      BY <1>3, <3>1, <3>5 DEF Took
    <3> QED BY <3>4, <3>6
  <2> QED BY <2>2, <2>3
<1> QED BY <1>6, <1>7

\* The frames of a data datagram as they may arrive.
ArrivesAll(start, size, frames) ==
  /\ Len(frames) = Segments(size)
  /\ \A i \in 1..Segments(size) : Arrives(pack(DataSegment(start, size, i)), frames[i])

\* Whatever happened to a data datagram, the loop takes contained bytes of it
\* and nothing else.
LEMMA DataLoop ==
  ASSUME NEW c, Empty(c), NEW start \in Nat, NEW size \in Nat \ {0},
         NEW frames, ArrivesAll(start, size, frames)
  PROVE  \E v : /\ Contained(start, c.sequence_no, v)
                /\ handle_rcv(c, frames) = [conn |-> take_data(c, v), fin |-> FALSE, done |-> TRUE]
<1> DEFINE n == Segments(size)
           t == Loop(c, frames)
           At(j) == \E w : \E going \in BOOLEAN :
                      Contained(start, c.sequence_no, w) /\ t[j] = Took(c, w, going)
           T == {j \in Nat : j <= n => At(j)}
<1>1. n \in Nat \ {0} /\ Len(frames) = n
  BY SegmentsFacts DEF ArrivesAll
<1>2. /\ t[0] = [conn |-> c, fin |-> FALSE, going |-> TRUE]
      /\ \A j \in 0..(n - 1) : t[j + 1] = handle_segment(t[j], frames[j + 1])
  BY <1>1, LoopTurns
<1> HIDE DEF t
<1>3. 0 \in T
  <2>1. Contained(start, c.sequence_no, <<>>)
    BY DEF Contained
  <2>2. take_data(c, <<>>) = c
    BY TakeNothingOfData
  <2>3. t[0] = Took(c, <<>>, TRUE)
    BY <1>2, <2>2 DEF Took
  <2> QED BY <2>1, <2>3
<1>4. ASSUME NEW j \in T
      PROVE  j + 1 \in T
  <2> SUFFICES ASSUME j + 1 <= n
               PROVE  At(j + 1)
    OBVIOUS
  <2>1. j + 1 \in 1..n /\ j \in 0..(n - 1) /\ j <= n
    BY <1>1
  <2>2. PICK w : \E going \in BOOLEAN :
          Contained(start, c.sequence_no, w) /\ t[j] = Took(c, w, going)
    BY <2>1
  <2> PICK going \in BOOLEAN : t[j] = Took(c, w, going)
    BY <2>2
  <2>3. t[j + 1] = handle_segment(Took(c, w, going), frames[j + 1])
    BY <1>2, <2>1
  <2>4. Arrives(pack(DataSegment(start, size, j + 1)), frames[j + 1])
    BY <2>1 DEF ArrivesAll
  <2>5. \E v : \E b \in BOOLEAN :
          /\ Contained(start, c.sequence_no, v)
          /\ handle_segment(Took(c, w, going), frames[j + 1]) = Took(c, v, b)
    BY <2>1, <2>2, <2>4, DataTurn
  <2> QED BY <2>3, <2>5
<1>5. T = Nat
  <2>1. T \subseteq Nat
    OBVIOUS
  <2> HIDE DEF T
  <2> QED BY <1>3, <1>4, <2>1, SetInduction
<1>6. PICK w : \E going \in BOOLEAN :
              Contained(start, c.sequence_no, w) /\ t[n] = Took(c, w, going)
  <2>1. n \in T
    BY <1>1, <1>5
  <2> QED BY <1>1, <2>1
<1>7. t[n].conn = take_data(c, w) /\ t[n].fin = FALSE
  BY <1>6 DEF Took
<1>8. handle_rcv(c, frames) = [conn |-> t[n].conn, fin |-> t[n].fin, done |-> TRUE]
  BY <1>1, LoopTurns DEF t
<1> QED BY <1>6, <1>7, <1>8

\* The loop has taken w on c, and goes on or is left.
Goes(c, w) == [conn |-> take_data(c, w), fin |-> FALSE, going |-> TRUE]
Leaves(c, w) == [conn |-> take_data(c, w), fin |-> FALSE, going |-> FALSE]

\* A turn on an undamaged frame takes all of it, unless it is a short last one.
LEMMA WholeTurn ==
  ASSUME NEW c, Empty(c), NEW start \in Nat, NEW size \in Nat \ {0},
         NEW i \in 1..Segments(size), c.sequence_no = start, NEW r,
         r = Goes(c, Run(start, Offset(i))),
         NEW frame, frame = pack(DataSegment(start, size, i))
  PROVE  \/ handle_segment(r, frame) = Goes(c, Run(start, Offset(i) + SizeOf(size, i)))
         \/ /\ i = Segments(size) /\ SizeOf(size, i) < Span
            /\ handle_segment(r, frame) = Leaves(c, Run(start, Offset(i)))
<1> DEFINE n == start + Offset(i)
           m == SizeOf(size, i)
           seg == DataSegment(start, size, i)
<1>1. /\ i \in Nat \ {0} /\ Offset(i) \in Nat /\ m \in 1..MSS /\ start \in Int
      /\ m < MSS => i = Segments(size)
      /\ Span \in 1..MSS /\ MSS \in Nat
  BY SegmentsFacts, SizeFacts, SegmentAssumption
<1>2. frame.length = "right" /\ frame.segment = seg /\ unpacks(frame)
  BY DEF pack, unpacks
<1>3. /\ seg.sequence_no = n /\ ~seg.ack /\ ~seg.fin /\ seg.data = Run(n, m)
      /\ seg.data_checksum = create_data_checksum(seg.data) /\ check_header_checksum(seg)
  BY DataSegmentFields
<1>4. /\ r.conn = take_data(c, Run(start, Offset(i))) /\ r.fin = FALSE /\ r.going = TRUE
      /\ r.conn.sequence_no = n
  <2>1. Run(start, Offset(i)) \in Seq(Int) /\ Len(Run(start, Offset(i))) = Offset(i)
    BY <1>1, RunFacts
  <2>2. take_data(c, Run(start, Offset(i))).sequence_no = n
    BY <2>1, TakenFields
  <2> QED BY <2>2 DEF Goes, Leaves
<1>5. CASE check_data_checksum(seg)
  <2>1. handle_segment(r, frame) = [conn |-> take_data(r.conn, seg.data), fin |-> r.fin, going |-> TRUE]
    <3> HIDE DEF seg, n
    <3> QED BY <1>2, <1>3, <1>4, <1>5 DEF handle_segment
  <2>2. take_data(r.conn, seg.data) = take_data(c, Run(start, Offset(i)) \o Run(n, m))
    <3>1. n \in Int /\ m \in Nat
      BY <1>1
    <3> HIDE DEF n, m, seg
    <3>2. Run(start, Offset(i)) \in Seq(Int) /\ Run(n, m) \in Seq(Int)
      BY <1>1, <3>1, RunFacts
    <3> QED BY <1>3, <1>4, <3>2, TakeDataTwice
  <2>3. Run(start, Offset(i)) \o Run(n, m) = Run(start, Offset(i) + m)
    <3>1. m \in Nat
      BY <1>1
    <3> HIDE DEF m
    <3> QED BY <1>1, <3>1, RunConcat
  <2> QED BY <1>4, <2>1, <2>2, <2>3 DEF Goes, Leaves
<1>6. CASE ~check_data_checksum(seg)
  <2>1. Len(seg.data) = m
    <3>1. n \in Int /\ m \in Nat
      BY <1>1
    <3> HIDE DEF n, m, seg
    <3> QED BY <1>3, <3>1, RunFacts
  <2>2. IsPrefix(seg.data_checksum, seg.data_checksum)
    <3> DEFINE d == create_data_checksum(seg.data)
    <3>1. m \in Nat \ {0} /\ n \in Int /\ (IF Span < m THEN Span ELSE m) \in Nat
      BY <1>1
    <3>2. d = Run(n, IF Span < m THEN Span ELSE m)
      BY <1>3, <3>1, ChecksumOfRun
    <3>3. Len(d) \in Int
      BY <3>1, <3>2, RunFacts
    <3>4. seg.data_checksum = d
      BY <1>3
    <3> HIDE DEF d, seg
    <3> QED BY <3>3, <3>4 DEF IsPrefix
  <2>3. seg.data # <<>>
    BY <1>1, <2>1
  <2>4. m < Span
    BY <1>3, <1>6, <2>1, <2>2, <2>3 DEF check_data_checksum
  <2>5. handle_segment(r, frame) = [conn |-> r.conn, fin |-> r.fin, going |-> FALSE]
    <3> HIDE DEF seg, n
    <3> QED BY <1>2, <1>6 DEF handle_segment
  <2> QED BY <1>1, <1>4, <2>4, <2>5 DEF Goes, Leaves
<1> QED BY <1>5, <1>6

\* How far the first j frames reach.
Reach(size, j) == IF j = Segments(size) THEN size ELSE Offset(j + 1)

LEMMA ReachStep ==
  ASSUME NEW size \in Nat \ {0}, NEW j \in 0..(Segments(size) - 1)
  PROVE  /\ Reach(size, j) = Offset(j + 1) /\ Offset(j + 1) \in Nat
         /\ Reach(size, j + 1) = Offset(j + 1) + SizeOf(size, j + 1)
         /\ SizeOf(size, j + 1) \in Nat
<1>1. Segments(size) \in Nat \ {0} /\ j \in Nat /\ j # Segments(size)
  BY SegmentsFacts
<1>2. j + 1 \in 1..Segments(size)
  BY <1>1
<1>3. /\ Offset(j + 1) \in Nat
      /\ SizeOf(size, j + 1) \in 1..MSS
      /\ Offset((j + 1) + 1) = Offset(j + 1) + MSS
      /\ j + 1 < Segments(size) => SizeOf(size, j + 1) = MSS
      /\ j + 1 = Segments(size) => SizeOf(size, j + 1) = size - Offset(j + 1)
  BY <1>2, SizeFacts
<1> QED BY <1>1, <1>2, <1>3, SegmentAssumption DEF Reach

LEMMA ReachEnds ==
  ASSUME NEW size \in Nat \ {0}
  PROVE  Reach(size, 0) = 0 /\ Reach(size, Segments(size)) = size
BY SegmentsFacts, OffsetStep DEF Reach

\* An undamaged datagram under the number that is due is taken whole, or but for
\* a short last segment.
LEMMA WholeLoop ==
  ASSUME NEW c, Empty(c), NEW start \in Nat, c.sequence_no = start,
         NEW size \in Nat \ {0}, NEW frames, frames = DataFrames(start, size)
  PROVE  \E k \in accepted_lengths(size) :
           handle_rcv(c, frames) = [conn |-> take_data(c, Run(start, k)), fin |-> FALSE, done |-> TRUE]
<1> DEFINE n == Segments(size)
           t == Loop(c, frames)
           At(j) == \/ t[j] = Goes(c, Run(start, Reach(size, j)))
                    \/ /\ j = n /\ SizeOf(size, n) < Span
                       /\ t[j] = Leaves(c, Run(start, Offset(n)))
           T == {j \in Nat : j <= n => At(j)}
<1>1. n \in Nat \ {0} /\ Len(frames) = n
  BY SegmentsFacts DEF DataFrames
<1>2. /\ t[0] = [conn |-> c, fin |-> FALSE, going |-> TRUE]
      /\ \A j \in 0..(n - 1) : t[j + 1] = handle_segment(t[j], frames[j + 1])
  BY <1>1, LoopTurns
<1> HIDE DEF t, At
<1>3. 0 \in T
  <2>1. take_data(c, Run(start, Reach(size, 0))) = c
    BY ReachEnds, RunEmpty, TakeNothingOfData
  <2> QED BY <1>2, <2>1 DEF Goes, Leaves, At
<1>4. ASSUME NEW j \in T
      PROVE  j + 1 \in T
  <2> SUFFICES ASSUME j + 1 <= n
               PROVE  At(j + 1)
    OBVIOUS
  <2>1. j + 1 \in 1..n /\ j \in 0..(n - 1) /\ j <= n /\ j # n
    BY <1>1
  <2> DEFINE r == Goes(c, Run(start, Offset(j + 1)))
  <2>2. t[j] = r
    <3>1. At(j)
      BY <2>1
    <3>2. Reach(size, j) = Offset(j + 1)
      BY <2>1, ReachStep
    <3> QED BY <2>1, <3>1, <3>2 DEF At
  <2>3. t[j + 1] = handle_segment(r, pack(DataSegment(start, size, j + 1)))
    <3>1. t[j + 1] = handle_segment(t[j], frames[j + 1])
      BY <1>2, <2>1
    <3>2. frames[j + 1] = pack(DataSegment(start, size, j + 1))
      BY <2>1 DEF DataFrames
    <3> QED BY <2>2, <3>1, <3>2
  <2>4. \/ t[j + 1] = Goes(c, Run(start, Offset(j + 1) + SizeOf(size, j + 1)))
        \/ /\ j + 1 = Segments(size) /\ SizeOf(size, j + 1) < Span
           /\ t[j + 1] = Leaves(c, Run(start, Offset(j + 1)))
    <3> DEFINE i == j + 1
               frame == pack(DataSegment(start, size, i))
    <3>1. r = Goes(c, Run(start, Offset(i))) /\ frame = pack(DataSegment(start, size, i))
      OBVIOUS
    <3>2. i \in 1..Segments(size)
      BY <2>1
    <3>3. t[i] = handle_segment(r, frame)
      BY <2>3
    <3> HIDE DEF r, frame, i
    <3>4. \/ handle_segment(r, frame) = Goes(c, Run(start, Offset(i) + SizeOf(size, i)))
          \/ /\ i = Segments(size) /\ SizeOf(size, i) < Span
             /\ handle_segment(r, frame) = Leaves(c, Run(start, Offset(i)))
      BY <3>1, <3>2, WholeTurn
    <3> QED BY <3>3, <3>4 DEF i
  <2>5. Reach(size, j + 1) = Offset(j + 1) + SizeOf(size, j + 1)
    BY <2>1, ReachStep
  <2> QED BY <2>4, <2>5 DEF At
<1>5. T = Nat
  <2>1. T \subseteq Nat
    OBVIOUS
  <2> HIDE DEF T
  <2> QED BY <1>3, <1>4, <2>1, SetInduction
<1>6. At(n)
  <2>1. n \in T
    BY <1>1, <1>5
  <2> QED BY <1>1, <2>1
<1>7. handle_rcv(c, frames) = [conn |-> t[n].conn, fin |-> t[n].fin, done |-> TRUE]
  BY <1>1, LoopTurns DEF t
<1>8. CASE t[n] = Goes(c, Run(start, Reach(size, n)))
  <2>1. t[n].conn = take_data(c, Run(start, size)) /\ t[n].fin = FALSE
    BY <1>8, ReachEnds DEF Goes, Leaves
  <2>2. size \in accepted_lengths(size)
    BY DEF accepted_lengths
  <2> QED BY <1>7, <2>1, <2>2
<1>9. CASE SizeOf(size, n) < Span /\ t[n] = Leaves(c, Run(start, Offset(n)))
  <2>1. t[n].conn = take_data(c, Run(start, Offset(n))) /\ t[n].fin = FALSE
    BY <1>9 DEF Goes, Leaves
  <2>2. Offset(n) \in Nat /\ Offset(n) < size /\ SizeOf(size, n) = size - Offset(n)
    BY <1>1, SizeFacts
  <2>3. (Offset(n) + 0) % MSS = 0
    BY <1>1, Remainder, SegmentAssumption
  <2>4. Offset(n) \in accepted_lengths(size)
    BY <1>9, <2>2, <2>3 DEF accepted_lengths
  <2> QED BY <1>7, <2>1, <2>4
<1> QED BY <1>6, <1>8, <1>9 DEF At

\* One under another number is not taken at all.
LEMMA WrongNumberLoop ==
  ASSUME NEW c, NEW start \in Nat, c.sequence_no # start,
         NEW size \in Nat \ {0}, NEW frames, frames = DataFrames(start, size)
  PROVE  handle_rcv(c, frames) = [conn |-> c, fin |-> FALSE, done |-> TRUE]
<1> DEFINE n == Segments(size)
           t == Loop(c, frames)
           At(j) == t[j].conn = c /\ t[j].fin = FALSE /\ (j # 0 => t[j].going = FALSE)
           T == {j \in Nat : j <= n => At(j)}
<1>1. n \in Nat \ {0} /\ Len(frames) = n
  BY SegmentsFacts DEF DataFrames
<1>2. /\ t[0] = [conn |-> c, fin |-> FALSE, going |-> TRUE]
      /\ \A j \in 0..(n - 1) : t[j + 1] = handle_segment(t[j], frames[j + 1])
  BY <1>1, LoopTurns
<1> HIDE DEF t, At
<1>3. 0 \in T
  BY <1>2 DEF At
<1>4. ASSUME NEW j \in T
      PROVE  j + 1 \in T
  <2> SUFFICES ASSUME j + 1 <= n
               PROVE  At(j + 1)
    OBVIOUS
  <2>1. j + 1 \in 1..n /\ j \in 0..(n - 1) /\ j <= n
    BY <1>1
  <2> DEFINE r == t[j]
             frame == frames[j + 1]
  <2>2. r.conn = c /\ r.fin = FALSE /\ (j # 0 => r.going = FALSE)
    <3>1. At(j)
      BY <2>1
    <3> QED BY <3>1 DEF At
  <2>3. t[j + 1] = handle_segment(r, frame)
    BY <1>2, <2>1
  <2>4. frame = pack(DataSegment(start, size, j + 1))
    BY <2>1 DEF DataFrames
  <2>5. frame.segment = DataSegment(start, size, j + 1)
    BY <2>4 DEF pack
  <2>6. /\ ~frame.segment.ack /\ ~frame.segment.fin
        /\ j = 0 => frame.segment.sequence_no = start
    BY <2>5, DataSegmentFields, OffsetStep
  <2> HIDE DEF r, frame
  <2>7. handle_segment(r, frame) = [conn |-> r.conn, fin |-> r.fin, going |-> FALSE]
    BY <2>2, <2>6 DEF handle_segment
  <2> QED BY <2>1, <2>2, <2>3, <2>7 DEF At
<1>5. T = Nat
  <2>1. T \subseteq Nat
    OBVIOUS
  <2> HIDE DEF T
  <2> QED BY <1>3, <1>4, <2>1, SetInduction
<1>6. At(n)
  <2>1. n \in T
    BY <1>1, <1>5
  <2> QED BY <1>1, <2>1
<1>7. handle_rcv(c, frames) = [conn |-> t[n].conn, fin |-> t[n].fin, done |-> TRUE]
  BY <1>1, LoopTurns DEF t
<1> QED BY <1>6, <1>7 DEF At

\* Joined, the data of the frames is the bytes they were packed of.
LEMMA JoinedData ==
  ASSUME NEW start \in Nat, NEW size \in Nat \ {0}, sent = DataFrames(start, size)
  PROVE  SentBytes = Run(start, size)
<1> DEFINE n == Segments(size)
           At(j) == joined[j] = Run(start, Reach(size, j))
           T == {j \in Nat : j <= n => At(j)}
<1>1. n \in Nat \ {0} /\ Len(sent) = n
  BY SegmentsFacts DEF DataFrames
<1>2. /\ joined[0] = <<>>
      /\ \A j \in 0..(n - 1) : joined[j + 1] = joined[j] \o sent[j + 1].segment.data
  BY <1>1, Joined
<1> HIDE DEF At
<1>3. 0 \in T
  BY <1>2, ReachEnds, RunEmpty DEF At
<1>4. ASSUME NEW j \in T
      PROVE  j + 1 \in T
  <2> SUFFICES ASSUME j + 1 <= n
               PROVE  At(j + 1)
    OBVIOUS
  <2>1. j + 1 \in 1..n /\ j \in 0..(n - 1) /\ j <= n
    BY <1>1
  <2> DEFINE o == Offset(j + 1)
             m == SizeOf(size, j + 1)
  <2>2. /\ Reach(size, j) = o /\ Reach(size, j + 1) = o + m
        /\ o \in Nat /\ m \in Nat
    BY <2>1, ReachStep
  <2>3. sent[j + 1].segment.data = Run(start + o, m)
    BY <2>1, DataSegmentFields DEF DataFrames, pack
  <2>4. joined[j] = Run(start, o)
    BY <2>1, <2>2 DEF At
  <2>5. joined[j + 1] = Run(start, o) \o Run(start + o, m)
    <3>1. joined[j + 1] = joined[j] \o sent[j + 1].segment.data
      BY <1>2, <2>1
    <3> QED BY <2>3, <2>4, <3>1
  <2> HIDE DEF o, m
  <2>6. joined[j + 1] = Run(start, o + m)
    BY <2>2, <2>5, start \in Int, RunConcat
  <2> QED BY <2>2, <2>6 DEF At
<1>5. T = Nat
  <2>1. T \subseteq Nat
    OBVIOUS
  <2> HIDE DEF T
  <2> QED BY <1>3, <1>4, <2>1, SetInduction
<1>6. At(n)
  <2>1. n \in T
    BY <1>1, <1>5
  <2> QED BY <1>1, <2>1
<1> QED BY <1>1, <1>6, ReachEnds DEF SentBytes, At

-----------------------------------------------------------------------------
(* The kinds of datagram *)

DataSent(start, size) == start \in Nat /\ size \in Nat \ {0} /\ sent = DataFrames(start, size)

\* A segment of the handshake, of a close or an acknowledgement.
IsControl(seg) ==
  \E n, w \in Int : \/ seg = Segment(n, TRUE, FALSE, FALSE, w, <<>>)
                    \/ n = -2 /\ seg = Segment(n, FALSE, TRUE, FALSE, w, <<>>)
                    \/ seg = Segment(n, TRUE, TRUE, FALSE, w, <<>>)
                    \/ seg = Segment(n, FALSE, FALSE, TRUE, w, <<>>)

ControlSent(seg) == IsControl(seg) /\ sent = <<pack(seg)>>

LEMMA DatagramKinds ==
  ASSUME sent \in Datagrams
  PROVE  \/ \E start, size : DataSent(start, size)
         \/ \E seg : ControlSent(seg)
<1>1. CASE \E n \in 1..MaxBytes, i \in 0..(MaxBytes - 1), cwnd \in 1..MaxCwnd :
             sent = package_frames(Sender(n, i, cwnd)) /\ sent # <<>>
  <2>1. PICK n \in 1..MaxBytes, i \in 0..(MaxBytes - 1), cwnd \in 1..MaxCwnd :
               sent = package_frames(Sender(n, i, cwnd)) /\ sent # <<>>
    BY <1>1
  <2>2. n \in Nat /\ i \in Nat /\ cwnd \in Nat
    BY MaxBytesAssumption, LimitAssumption
  <2>3. PICK size \in Nat : sent = DataFrames(i, size)
    BY <2>1, <2>2, SenderMessage
  <2>4. size # 0
    <3>1. ASSUME size = 0 PROVE sent = <<>>
      BY <2>3, <3>1, NoSegments DEF DataFrames
    <3> QED BY <2>1, <3>1
  <2> QED BY <2>2, <2>3, <2>4 DEF DataSent
<1>2. CASE \/ \E n \in 0..MaxBytes : sent = <<AckFrame(n)>>
           \/ sent \in { <<SynFrame(MSS)>>, <<SynAckFrame(MSS)>>, <<FinFrame>> }
  <2>1. ASSUME NEW n \in Int, NEW w \in Int
        PROVE  /\ IsControl(Segment(n, TRUE, FALSE, FALSE, w, <<>>))
               /\ n = -2 => IsControl(Segment(n, FALSE, TRUE, FALSE, w, <<>>))
               /\ IsControl(Segment(n, TRUE, TRUE, FALSE, w, <<>>))
               /\ IsControl(Segment(n, FALSE, FALSE, TRUE, w, <<>>))
    BY DEF IsControl
  <2>2. ASSUME NEW n \in 0..MaxBytes, sent = <<AckFrame(n)>>
        PROVE  \E seg : ControlSent(seg)
    BY <2>1, <2>2, n \in Int, 0 \in Int DEF AckFrame, ControlSent
  <2>3. ASSUME sent = <<SynFrame(MSS)>>
        PROVE  \E seg : ControlSent(seg)
    <3>1. -2 \in Int /\ MSS \in Int
      BY SegmentAssumption
    <3>2. IsControl(Segment(-2, FALSE, TRUE, FALSE, MSS, <<>>))
      BY <2>1, <3>1, Zenon
    <3> QED BY <2>3, <3>2 DEF SynFrame, ControlSent
  <2>4. ASSUME sent = <<SynAckFrame(MSS)>>
        PROVE  \E seg : ControlSent(seg)
    <3>1. -1 \in Int /\ MSS \in Int
      BY SegmentAssumption
    <3>2. IsControl(Segment(-1, TRUE, TRUE, FALSE, MSS, <<>>))
      BY <2>1, <3>1, Zenon
    <3> QED BY <2>4, <3>2 DEF SynAckFrame, ControlSent
  <2>5. ASSUME sent = <<FinFrame>>
        PROVE  \E seg : ControlSent(seg)
    BY <2>1, <2>5, 0 \in Int DEF FinFrame, ControlSent
  <2> QED BY <1>2, <2>2, <2>3, <2>4, <2>5
<1> QED BY <1>1, <1>2 DEF Datagrams

LEMMA DataSentFields ==
  ASSUME NEW start, NEW size, DataSent(start, size)
  PROVE  /\ Len(sent) = Segments(size) /\ Segments(size) \in Nat \ {0}
         /\ sent[1].segment.sequence_no = start
         /\ IsData
         /\ \A i \in 1..Len(sent) : Len(sent[i].segment.data) <= MSS
<1>1. /\ start \in Nat /\ size \in Nat \ {0} /\ sent = DataFrames(start, size)
      /\ Segments(size) \in Nat \ {0}
  BY SegmentsFacts DEF DataSent
<1>2. /\ Len(sent) = Segments(size)
      /\ \A i \in 1..Segments(size) : sent[i].segment = DataSegment(start, size, i)
  BY <1>1 DEF DataFrames, pack
<1>3. sent[1].segment = DataSegment(start, size, 1)
  BY <1>1, <1>2
<1>4. sent[1].segment.sequence_no = start + Offset(1) /\ IsData
  BY <1>3, DataSegmentFields DEF IsData
<1>5. ASSUME NEW i \in 1..Segments(size)
      PROVE  Len(sent[i].segment.data) <= MSS
  <2> DEFINE n == start + Offset(i)
             m == SizeOf(size, i)
  <2>1. n \in Int /\ m \in Nat /\ m <= MSS
    BY <1>1, SizeFacts, SegmentAssumption
  <2>2. sent[i].segment.data = Run(n, m)
    BY <1>2, DataSegmentFields
  <2> HIDE DEF n, m
  <2> QED BY <2>1, <2>2, RunFacts
<1> QED BY <1>1, <1>2, <1>4, <1>5, OffsetStep

LEMMA ControlFields ==
  ASSUME NEW seg, IsControl(seg)
  PROVE  /\ IsSegment(seg) /\ seg.sequence_no \in Int /\ seg.receive_window \in Int
         /\ seg.data = <<>> /\ seg.data_checksum = <<>>
         /\ check_header_checksum(seg)
         /\ seg.ack \/ seg.syn \/ seg.fin
         /\ seg.ack \/ seg.fin \/ seg.sequence_no = -2
<1>1. create_data_checksum(<<>>) = <<>>
  <2>1. Span \in Nat \ {0}
    BY SegmentAssumption
  <2>2. SubSeq(<<>>, 1, 0) = <<>> /\ Len(<<>>) = 0
    OBVIOUS
  <2> QED BY <2>1, <2>2 DEF create_data_checksum, slice
<1>2. IsSegment(seg)
  BY DEF IsControl, IsSegment
<1> PICK n, w \in Int : \/ seg = Segment(n, TRUE, FALSE, FALSE, w, <<>>)
                        \/ n = -2 /\ seg = Segment(n, FALSE, TRUE, FALSE, w, <<>>)
                        \/ seg = Segment(n, TRUE, TRUE, FALSE, w, <<>>)
                        \/ seg = Segment(n, FALSE, FALSE, TRUE, w, <<>>)
  BY DEF IsControl
<1>3. CASE seg = Segment(n, TRUE, FALSE, FALSE, w, <<>>)
  BY <1>1, <1>2, <1>3 DEF Segment, create_header_checksum, check_header_checksum
<1>4. CASE n = -2 /\ seg = Segment(n, FALSE, TRUE, FALSE, w, <<>>)
  BY <1>1, <1>2, <1>4 DEF Segment, create_header_checksum, check_header_checksum
<1>5. CASE seg = Segment(n, TRUE, TRUE, FALSE, w, <<>>)
  BY <1>1, <1>2, <1>5 DEF Segment, create_header_checksum, check_header_checksum
<1>6. CASE seg = Segment(n, FALSE, FALSE, TRUE, w, <<>>)
  BY <1>1, <1>2, <1>6 DEF Segment, create_header_checksum, check_header_checksum
<1> QED BY <1>3, <1>4, <1>5, <1>6

LEMMA ControlSentFields ==
  ASSUME NEW seg, ControlSent(seg)
  PROVE  /\ Len(sent) = 1 /\ sent[1] = pack(seg) /\ sent[1].segment = seg
         /\ ~IsData /\ seg.data = <<>>
<1>1. Len(sent) = 1 /\ sent[1] = pack(seg) /\ sent[1].segment = seg
  BY DEF ControlSent, pack
<1>2. seg.data = <<>> /\ (seg.ack \/ seg.syn \/ seg.fin)
  BY ControlFields DEF ControlSent
<1> QED BY <1>1, <1>2 DEF IsData

-----------------------------------------------------------------------------
(* The invariant holds *)

LEMMA SentFrames ==
  ASSUME sent \in Datagrams
  PROVE  /\ Len(sent) \in Nat \ {0}
         /\ sent = [i \in 1..Len(sent) |-> sent[i]]
         /\ \A i \in 1..Len(sent) : \E seg : IsSegment(seg) /\ sent[i] = pack(seg)
<1>1. CASE \E start, size : DataSent(start, size)
  <2> PICK start, size : DataSent(start, size)
    BY <1>1
  <2>1. Len(sent) = Segments(size) /\ Segments(size) \in Nat \ {0}
    BY DataSentFields
  <2>2. sent = [i \in 1..Segments(size) |-> pack(DataSegment(start, size, i))]
    BY DEF DataSent, DataFrames
  <2>3. \A i \in 1..Segments(size) : IsSegment(DataSegment(start, size, i))
    BY DataSegmentFields
  <2> QED BY <2>1, <2>2, <2>3
<1>2. CASE \E seg : ControlSent(seg)
  <2> PICK seg : ControlSent(seg)
    BY <1>2
  <2>1. sent = <<pack(seg)>> /\ Len(sent) = 1 /\ sent[1] = pack(seg)
    BY DEF ControlSent
  <2>2. IsSegment(seg)
    BY ControlFields DEF ControlSent
  <2> QED BY <2>1, <2>2
<1> QED BY <1>1, <1>2, DatagramKinds

LEMMA FramingInit == Init => FramingInv
<1> SUFFICES ASSUME Init
             PROVE  FramingInv
  OBVIOUS
<1> QED BY SentFrames DEF Init, FramingInv, Arrives

LEMMA ReadIsDone ==
  ASSUME NEW c, NEW frames
  PROVE  multiplex(c, frames).done = TRUE
<1>1. \A d : handle_rcv(d, frames).done = TRUE
  BY DEF handle_rcv
<1> QED BY <1>1 DEF multiplex, connection_establishment

\* What a datagram is read as depends on the memory alone, besides what is given.
LEMMA SameReading ==
  ASSUME same_memory' = same_memory, NEW c, NEW frames
  PROVE  multiplex(c, frames)' = multiplex(c, frames)
<1>1. ASSUME NEW r, NEW frame
      PROVE  handle_segment(r, frame)' = handle_segment(r, frame)
  BY DEF handle_segment, check_data_checksum
<1>2. ASSUME NEW start
      PROVE  turns(start, frames)' = turns(start, frames)
  BY <1>1 DEF turns
<1>3. ASSUME NEW d
      PROVE  handle_rcv(d, frames)' = handle_rcv(d, frames)
  BY <1>2 DEF handle_rcv
<1>4. connection_establishment(c, frames)' = connection_establishment(c, frames)
  BY <1>3 DEF connection_establishment
<1> QED BY <1>3, <1>4 DEF multiplex

LEMMA ReadAgain ==
  ASSUME UNCHANGED <<before, sent, same_memory>>
  PROVE  /\ multiplex(before, sent)' = multiplex(before, sent)
         /\ UNCHANGED wire => multiplex(before, wire)' = multiplex(before, wire)
<1> PICK b, s, w : b = before /\ s = sent /\ w = wire
  OBVIOUS
<1>1. multiplex(b, s)' = multiplex(b, s) /\ multiplex(b, w)' = multiplex(b, w)
  BY SameReading
<1> QED BY <1>1

LEMMA FramingNext == FramingInv /\ [Next]_vars => FramingInv'
<1> SUFFICES ASSUME FramingInv, [Next]_vars
             PROVE  FramingInv'
  OBVIOUS
<1>1. /\ before \in Receivers /\ sent \in Datagrams /\ same_memory \in BOOLEAN
      /\ wire = [i \in 1..Len(sent) |-> wire[i]]
      /\ \A i \in 1..Len(sent) : Arrives(sent[i], wire[i])
      /\ outcome = Pending \/ outcome = multiplex(before, wire)
  BY DEF FramingInv
<1>2. Len(sent) \in Nat \ {0} /\ sent = [i \in 1..Len(sent) |-> sent[i]]
  BY <1>1, SentFrames
<1>3. ASSUME ~outcome.done
      PROVE  outcome = Pending
  BY <1>1, <1>3, ReadIsDone
<1>4. CASE DamageSegment
  <2>1. ~outcome.done /\ wire = sent /\ UNCHANGED <<before, sent, same_memory, outcome>>
    BY <1>4 DEF DamageSegment
  <2>2. PICK i \in 1..Len(wire) : \E seg \in Damages(wire[i].segment) :
               wire' = [wire EXCEPT ![i].segment = seg]
    BY <1>4 DEF DamageSegment
  <2> PICK seg \in Damages(wire[i].segment) : wire' = [wire EXCEPT ![i].segment = seg]
    BY <2>2
  <2>3. /\ wire' = [j \in 1..Len(sent) |-> wire'[j]]
        /\ wire'[i] = [sent[i] EXCEPT !.segment = seg]
        /\ \A j \in 1..Len(sent) : j # i => wire'[j] = sent[j]
    BY <1>2, <2>1, <2>2
  <2>4. \A j \in 1..Len(sent) : Arrives(sent[j], wire'[j])
    BY <2>1, <2>3 DEF Arrives
  <2> QED BY <1>1, <1>3, <2>1, <2>3, <2>4 DEF FramingInv
<1>5. CASE DamageLength
  <2>1. ~outcome.done /\ wire = sent /\ UNCHANGED <<before, sent, same_memory, outcome>>
    BY <1>5 DEF DamageLength
  <2>2. PICK i \in 1..Len(wire) : \E length \in {"short", "long", "too long", "beyond"} :
               wire' = [wire EXCEPT ![i].length = length]
    BY <1>5 DEF DamageLength
  <2> PICK length \in {"short", "long", "too long", "beyond"} :
             wire' = [wire EXCEPT ![i].length = length]
    BY <2>2
  <2>3. /\ wire' = [j \in 1..Len(sent) |-> wire'[j]]
        /\ wire'[i] = [sent[i] EXCEPT !.length = length]
        /\ \A j \in 1..Len(sent) : j # i => wire'[j] = sent[j]
    BY <1>2, <2>1, <2>2
  <2>4. \A j \in 1..Len(sent) : Arrives(sent[j], wire'[j])
    BY <2>1, <2>3 DEF Arrives
  <2> QED BY <1>1, <1>3, <2>1, <2>3, <2>4 DEF FramingInv
<1>6. CASE Read
  <2>1. /\ outcome' = multiplex(before, wire)
        /\ UNCHANGED <<before, sent, wire, same_memory>>
    BY <1>6 DEF Read
  <2> QED BY <1>1, <2>1, ReadAgain DEF FramingInv
<1>7. CASE UNCHANGED vars
  BY <1>1, <1>7, ReadAgain DEF vars, FramingInv
<1> QED BY <1>4, <1>5, <1>6, <1>7 DEF Next

LEMMA FramingInvariant == Spec => []FramingInv
<1>1. Init => FramingInv
  BY FramingInit
<1>2. FramingInv /\ [Next]_vars => FramingInv'
  BY FramingNext
<1> QED BY <1>1, <1>2, PTL DEF Spec

-----------------------------------------------------------------------------
(* What becomes of a data datagram *)

LEMMA ReadyFields ==
  ASSUME before \in Receivers
  PROVE  /\ Empty(Ready) /\ Ready.sequence_no \in Nat
         /\ before.valid => Ready = before
         /\ ~before.valid => Ready = establish(before, 0) /\ Ready.sequence_no = 0
<1>1. CASE before.valid
  BY <1>1, ReceiversEmpty DEF Ready
<1>2. CASE ~before.valid
  <2>1. establish(before, 0).sequence_no = 0
    <3>1. before \in ConnectionType /\ 0 \in Int
      BY ReceiversEmpty DEF Empty
    <3> QED BY <3>1, EstablishFields
  <2> QED BY <1>2, <2>1, ReceiversEmpty DEF Ready
<1> QED BY <1>1, <1>2

LEMMA DataArrives ==
  ASSUME FramingInv, NEW start, NEW size, DataSent(start, size)
  PROVE  ArrivesAll(start, size, wire)
<1>1. Len(sent) = Segments(size) /\ Segments(size) \in Nat
  BY DataSentFields
<1>2. \A i \in 1..Segments(size) : sent[i] = pack(DataSegment(start, size, i))
  BY DEF DataSent, DataFrames
<1>3. Len(wire) = Segments(size)
  BY <1>1 DEF FramingInv
<1> QED BY <1>1, <1>2, <1>3 DEF FramingInv, ArrivesAll

\* A data datagram changes nothing, or the loop reads it; a connection that is
\* not set up is, by data that starts at 0.
LEMMA DataIsRead ==
  ASSUME FramingInv, NEW start, NEW size, DataSent(start, size)
  PROVE  \/ multiplex(before, wire) = [conn |-> before, fin |-> FALSE, done |-> TRUE]
         \/ /\ multiplex(before, wire) = handle_rcv(Ready, wire)
            /\ ~before.valid => start = 0
<1>1. before \in Receivers
  BY DEF FramingInv
<1>2. CASE before.valid
  BY <1>1, <1>2, ReadyFields DEF multiplex
<1>3. CASE ~before.valid
  <2> DEFINE frame == Head(wire)
             seg == DataSegment(start, size, 1)
             d == frame.segment
  <2>1. start \in Nat /\ size \in Nat \ {0} /\ Segments(size) \in Nat \ {0}
    BY DataSentFields DEF DataSent
  <2>2. ArrivesAll(start, size, wire)
    BY DataArrives
  <2>3. Arrives(pack(seg), frame)
    BY <2>1, <2>2 DEF ArrivesAll
  <2>4. d = seg \/ d \in Damages(seg)
    BY <2>3, ArrivedSegment
  <2>5. IsSegment(seg) /\ seg.sequence_no = start + Offset(1) /\ ~seg.ack /\ ~seg.syn
    BY DataSegmentFields
  <2>6. multiplex(before, wire) = connection_establishment(before, wire)
    BY <1>3 DEF multiplex
  <2> HIDE DEF seg
  <2>7. CASE check_header_checksum(d)
    <3>1. d.sequence_no = start /\ ~d.ack /\ ~d.syn
      <4>1. d.sequence_no = seg.sequence_no /\ d.ack = seg.ack /\ d.syn = seg.syn
        <5> HIDE DEF d
        <5> QED BY <2>4, <2>5, <2>7, HeaderTells
      <4> QED BY <2>1, <2>5, <4>1, OffsetStep
    <3>2. Ready = establish(before, 0)
      BY <1>1, <1>3, ReadyFields
    <3> QED BY <2>6, <3>1, <3>2 DEF connection_establishment
  <2>8. CASE ~check_header_checksum(d)
    BY <2>6, <2>8 DEF connection_establishment
  <2> QED BY <2>7, <2>8
<1> QED BY <1>2, <1>3

LEMMA DataOutcome ==
  ASSUME FramingInv, outcome.done, NEW start, NEW size, DataSent(start, size)
  PROVE  /\ outcome.fin = FALSE
         /\ \/ outcome.conn = before
            \/ \E v : /\ Contained(start, Ready.sequence_no, v)
                      /\ outcome.conn = take_data(Ready, v)
<1>1. outcome = multiplex(before, wire)
  BY DEF FramingInv, Pending
<1>2. CASE multiplex(before, wire) = [conn |-> before, fin |-> FALSE, done |-> TRUE]
  BY <1>1, <1>2
<1>3. CASE multiplex(before, wire) = handle_rcv(Ready, wire)
  <2> DEFINE c == Ready
  <2>1. Empty(c) /\ start \in Nat /\ size \in Nat \ {0} /\ ArrivesAll(start, size, wire)
    BY ReadyFields, DataArrives DEF FramingInv, DataSent
  <2> HIDE DEF c
  <2>2. PICK v : /\ Contained(start, c.sequence_no, v)
                 /\ handle_rcv(c, wire) = [conn |-> take_data(c, v), fin |-> FALSE, done |-> TRUE]
    BY <2>1, DataLoop
  <2> QED BY <1>1, <1>3, <2>2 DEF c
<1> QED BY <1>2, <1>3, DataIsRead

LEMMA ContainedHolds == FramingInv => DamageIsContained
<1> DEFINE got == outcome.conn.rcv_window
           right(k) == got[k] = Ready.sequence_no + k
           place(k, start) == ((Ready.sequence_no + k) - start - 1) % MSS
<1> SUFFICES ASSUME FramingInv, outcome.done, IsData
             PROVE  /\ ~outcome.fin
                    /\ \/ outcome.conn = before
                       \/ /\ outcome.conn = take_data(Ready, got)
                          /\ \A k \in 1..Len(got) :
                               \/ right(k)
                               \/ got[k] = Damaged /\ place(k, sent[1].segment.sequence_no) >= Span
  BY DEF DamageIsContained
<1>1. sent \in Datagrams
  BY DEF FramingInv
<1>2. \A seg : ~ControlSent(seg)
  BY ControlSentFields
<1> PICK start, size : DataSent(start, size)
  BY <1>1, <1>2, DatagramKinds
<1>3. sent[1].segment.sequence_no = start
  BY DataSentFields
<1>4. outcome.fin = FALSE
  BY DataOutcome
<1>5. CASE outcome.conn = before
  BY <1>4, <1>5
<1>6. CASE \E v : /\ Contained(start, Ready.sequence_no, v)
                  /\ outcome.conn = take_data(Ready, v)
  <2>1. PICK v : /\ Contained(start, Ready.sequence_no, v)
                 /\ outcome.conn = take_data(Ready, v)
    BY <1>6
  <2>2. v \in Seq(Int)
    BY <2>1 DEF Contained
  <2>3. Empty(Ready)
    BY ReadyFields DEF FramingInv
  <2>4. outcome.conn.rcv_window = v
    <3> DEFINE c == Ready
    <3> HIDE DEF c
    <3>1. Empty(c) => take_data(c, v).rcv_window = v
      BY <2>2, TakenFields
    <3> QED BY <2>1, <2>3, <3>1 DEF c
  <2>5. outcome.conn = take_data(Ready, got) /\ Contained(start, Ready.sequence_no, got)
    BY <2>1, <2>4
  <2>6. \A k \in 1..Len(got) : right(k) \/ (got[k] = Damaged /\ place(k, start) >= Span)
    <3> DEFINE m == Ready.sequence_no
    <3>1. m \in Int /\ start \in Int
      BY ReadyFields DEF FramingInv, DataSent
    <3> HIDE DEF m
    <3>2. \A k \in Int : (m + k) - start - 1 = m + k - start - 1
      BY <3>1
    <3> QED BY <2>5, <3>2 DEF m, Contained
  <2> QED BY <1>3, <1>4, <2>5, <2>6
<1> QED BY <1>5, <1>6, DataOutcome

LEMMA RunPrefix ==
  ASSUME NEW start \in Int, NEW size \in Nat, NEW k \in 0..size
  PROVE  SubSeq(Run(start, size), 1, k) = Run(start, k)
<1>1. /\ Run(start, size) \in Seq(Int) /\ Len(Run(start, size)) = size
      /\ \A i \in 1..size : Run(start, size)[i] = start + i
  BY RunFacts
<1>2. SubSeq(Run(start, size), 1, k) = [i \in 1..k |-> Run(start, size)[i]]
  BY <1>1
<1> QED BY <1>1, <1>2 DEF Run

\* What an undamaged data datagram is read as: a connection that is not set up
\* reads it if it starts at 0 and a SYN has been answered.
LEMMA WholeIsRead ==
  ASSUME before \in Receivers, NEW start, NEW size, DataSent(start, size)
  PROVE  /\ before.valid \/ (start = 0 /\ before.sequence_no = -1) =>
              multiplex(before, sent) = handle_rcv(Ready, sent)
         /\ ~(before.valid \/ (start = 0 /\ before.sequence_no = -1)) =>
              multiplex(before, sent).conn = before
<1>1. CASE before.valid
  BY <1>1, ReadyFields DEF multiplex
<1>2. CASE ~before.valid
  <2> DEFINE frame == Head(sent)
             seg == DataSegment(start, size, 1)
  <2>1. start \in Nat /\ size \in Nat \ {0} /\ Segments(size) \in Nat \ {0}
    BY DataSentFields DEF DataSent
  <2>2. frame = pack(seg)
    BY <2>1, DataSentFields DEF DataSent, DataFrames
  <2>3. /\ seg.sequence_no = start + Offset(1) /\ ~seg.ack /\ ~seg.syn
        /\ seg.data = Run(start + Offset(1), SizeOf(size, 1)) /\ check_header_checksum(seg)
    BY DataSegmentFields
  <2>4. seg.sequence_no = start /\ seg.data # <<>>
    <3>1. Offset(1) = 0 /\ SizeOf(size, 1) \in 1..MSS /\ SizeOf(size, 1) \in Nat \ {0}
      <4>1. Offset(1) = 0
        BY 1 \in Nat, OffsetStep
      <4>2. SizeOf(size, 1) \in 1..MSS
        BY <2>1, 1 \in 1..Segments(size), SizeFacts
      <4> QED BY <4>1, <4>2, SegmentAssumption
    <3>2. start + Offset(1) = start
      BY <2>1, <3>1
    <3>3. Len(seg.data) = SizeOf(size, 1) /\ Len(<<>>) = 0
      BY <2>1, <2>3, <3>1, <3>2, start \in Int, RunFacts
    <3> QED BY <2>3, <3>1, <3>2, <3>3
  <2> HIDE DEF frame, seg
  <2>5. /\ frame.segment = seg /\ unpacks(frame) /\ frame.length # "beyond"
        /\ frame = Head(sent)
    BY <2>2 DEF pack, unpacks, frame
  <2>6. /\ multiplex(before, sent) = connection_establishment(before, sent)
        /\ Ready = establish(before, 0)
    BY <1>2, ReadyFields DEF multiplex
  <2>7. CASE start = 0 /\ before.sequence_no = -1
    <3>1. connection_establishment(before, sent) = handle_rcv(establish(before, 0), sent)
      BY <2>3, <2>4, <2>5, <2>7 DEF connection_establishment
    <3> QED BY <2>6, <2>7, <3>1
  <2>8. CASE ~(start = 0 /\ before.sequence_no = -1)
    <3>1. connection_establishment(before, sent) = [conn |-> before, fin |-> FALSE, done |-> TRUE]
      BY <2>3, <2>4, <2>5, <2>8 DEF connection_establishment
    <3> QED BY <1>2, <2>6, <2>8, <3>1
  <2> QED BY <2>7, <2>8
<1> QED BY <1>1, <1>2

LEMMA RunHolds == FramingInv => LoopTakesARun
<1> DEFINE expected == /\ Ready.sequence_no = sent[1].segment.sequence_no
                       /\ before.valid \/ before.sequence_no = -1
<1> SUFFICES ASSUME FramingInv, outcome.done, wire = sent, IsData
             PROVE  IF expected
                    THEN \E k \in accepted_lengths(Len(SentBytes)) :
                           outcome.conn = IF k > 0 THEN take_data(Ready, SubSeq(SentBytes, 1, k))
                                          ELSE Ready
                    ELSE outcome.conn = before
  BY DEF LoopTakesARun
<1>1. sent \in Datagrams /\ before \in Receivers
  BY DEF FramingInv
<1>2. \A seg : ~ControlSent(seg)
  BY ControlSentFields
<1> PICK start, size : DataSent(start, size)
  BY <1>1, <1>2, DatagramKinds
<1>3. start \in Nat /\ size \in Nat \ {0} /\ sent = DataFrames(start, size)
  BY DEF DataSent
<1>4. sent[1].segment.sequence_no = start
  BY DataSentFields
<1>5. SentBytes = Run(start, size) /\ Len(SentBytes) = size
  <2>1. SentBytes = Run(start, size)
    BY <1>3, JoinedData
  <2> QED BY <1>3, <2>1, start \in Int, RunFacts
<1>6. outcome = multiplex(before, sent)
  BY DEF FramingInv, Pending
<1> DEFINE c == Ready
<1>7. /\ Empty(c)
      /\ before.valid => c = before
      /\ ~before.valid => c.sequence_no = 0
  BY <1>1, ReadyFields
<1>8. /\ before.valid \/ (start = 0 /\ before.sequence_no = -1) =>
           outcome = handle_rcv(c, sent)
      /\ ~(before.valid \/ (start = 0 /\ before.sequence_no = -1)) => outcome.conn = before
  BY <1>1, <1>6, WholeIsRead
<1>9. expected <=> c.sequence_no = start /\ (before.valid \/ before.sequence_no = -1)
  BY <1>4
<1> HIDE DEF c, expected
<1>10. CASE expected
  <2>1. c.sequence_no = start /\ outcome = handle_rcv(c, sent)
    BY <1>7, <1>8, <1>9, <1>10
  <2>2. PICK k \in accepted_lengths(size) :
               handle_rcv(c, sent) = [conn |-> take_data(c, Run(start, k)), fin |-> FALSE, done |-> TRUE]
    BY <1>3, <1>7, <2>1, WholeLoop
  <2>3. outcome.conn = take_data(c, Run(start, k)) /\ k \in 0..size
    BY <1>3, <2>1, <2>2, AcceptedLengths
  <2>4. CASE k = 0
    <3>1. outcome.conn = c
      BY <1>7, <2>3, <2>4, RunEmpty, TakeNothingOfData
    <3> QED BY <1>5, <1>10, <2>4, <3>1 DEF c
  <2>5. CASE k # 0
    <3>1. SubSeq(SentBytes, 1, k) = Run(start, k) /\ k > 0
      BY <1>3, <1>5, <2>3, <2>5, start \in Int, size \in Nat, RunPrefix
    <3> QED BY <1>5, <1>10, <2>3, <3>1 DEF c
  <2> QED BY <2>4, <2>5
<1>11. CASE ~expected
  <2>1. CASE before.valid
    <3>1. c.sequence_no # start /\ c = before /\ outcome = handle_rcv(c, sent)
      BY <1>7, <1>8, <1>9, <1>11, <2>1
    <3>2. handle_rcv(c, sent) = [conn |-> c, fin |-> FALSE, done |-> TRUE]
      BY <1>3, <3>1, WrongNumberLoop
    <3> QED BY <1>11, <3>1, <3>2
  <2>2. CASE ~before.valid
    <3>1. ~(start = 0 /\ before.sequence_no = -1)
      BY <1>7, <1>9, <1>11, <2>2
    <3> QED BY <1>8, <1>11, <2>2, <3>1
  <2> QED BY <2>1, <2>2
<1> QED BY <1>10, <1>11

-----------------------------------------------------------------------------
(* What becomes of a control segment *)

LEMMA ControlArrives ==
  ASSUME FramingInv, NEW seg, ControlSent(seg)
  PROVE  Len(wire) = 1 /\ Arrives(pack(seg), wire[1])
<1>1. Len(sent) = 1 /\ sent[1] = pack(seg)
  BY ControlSentFields
<1>2. Len(wire) = 1
  BY <1>1 DEF FramingInv
<1> QED BY <1>1, <1>2 DEF FramingInv

\* If its header is right, only the window can be wrong.
LEMMA ControlFrame ==
  ASSUME NEW seg, IsControl(seg), NEW g, Arrives(pack(seg), g),
         NEW d, d = g.segment, check_header_checksum(d)
  PROVE  /\ d.sequence_no = seg.sequence_no /\ d.ack = seg.ack
         /\ d.syn = seg.syn /\ d.fin = seg.fin
         /\ d.data = <<>> /\ d.receive_window \in Int
<1>1. IsSegment(seg) /\ seg.data = <<>> /\ seg.receive_window \in Int
  BY ControlFields
<1>2. d = seg \/ d \in Damages(seg)
  BY ArrivedSegment
<1>3. d.header_checksum # <<>>
  BY DEF check_header_checksum, create_header_checksum
<1>4. d.data = <<>>
  <2>1. CASE d = seg
    BY <1>1, <2>1
  <2>2. CASE d \in Damages(seg)
    <3>1. Len(seg.data) = 0 /\ 1..Len(seg.data) = {} /\ 0..(Len(seg.data) - 1) = {}
      BY <1>1
    <3> QED BY <1>1, <1>3, <2>2, <3>1, DamageKinds
  <2> QED BY <1>2, <2>1, <2>2
<1>5. d.receive_window \in Int
  <2>1. Damaged \in Int
    BY DEF Damaged
  <2> QED BY <1>1, <1>2, <2>1, DamagedWindow
<1> QED BY <1>1, <1>2, <1>4, <1>5, HeaderTells

LEMMA ReceiversIdle ==
  ASSUME NEW c \in Receivers
  PROVE  /\ c.old_sequence_no = 0 /\ c.send_sequence_no = 0
         /\ ~c.valid => \E n \in {-2, -1} : c = [NewConnection EXCEPT !.sequence_no = n]
<1>1. ASSUME NEW n, c = [establish(NewConnection, n) EXCEPT !.write_buff = Bytes(MaxBytes),
                           !.valid_send_handler = TRUE, !.remote_window_size = MSS]
      PROVE  c.old_sequence_no = 0 /\ c.send_sequence_no = 0 /\ c.valid
  BY <1>1 DEF establish, NewConnection
<1>2. ASSUME NEW n, c = [NewConnection EXCEPT !.sequence_no = n]
      PROVE  c.old_sequence_no = 0 /\ c.send_sequence_no = 0
  BY <1>2 DEF NewConnection
<1> QED BY <1>1, <1>2 DEF Receivers

\* The loop makes of a control segment what it makes of it undamaged, or nothing.
LEMMA ControlTurn ==
  ASSUME NEW c \in Receivers, c.valid, NEW seg, IsControl(seg),
         NEW g, Arrives(pack(seg), g),
         NEW r, r = [conn |-> c, fin |-> FALSE, going |-> TRUE],
         NEW u, u = handle_segment(r, g), NEW v, v = handle_segment(r, pack(seg))
  PROVE  /\ \/ u.conn = c /\ u.fin = FALSE
            \/ u.conn = v.conn /\ u.fin = v.fin
         /\ u.conn \in ConnectionType
         /\ u.fin = FALSE \/ u.fin = TRUE
<1> DEFINE d == g.segment
<1>1. /\ c \in ConnectionType /\ c.sequence_no \in Nat /\ c.sequence_no \in Int
      /\ c.old_sequence_no <= c.send_sequence_no
  BY ReceiversEmpty, ReceiversIdle DEF Empty
<1>2. r.conn = c /\ r.fin = FALSE /\ r.going = TRUE
  OBVIOUS
<1>3. /\ seg.sequence_no \in Int /\ check_header_checksum(seg) /\ check_data_checksum(seg)
      /\ seg.ack \/ seg.fin \/ seg.sequence_no = -2
  BY ControlFields DEF check_data_checksum
<1>4. pack(seg).segment = seg /\ pack(seg).length = "right" /\ unpacks(pack(seg))
  BY DEF pack, unpacks
<1>5. CASE \/ ~unpacks(g) \/ g.length \in {"too long", "beyond"}
           \/ ~check_header_checksum(d) \/ ~check_data_checksum(d)
  <2>1. u = [conn |-> r.conn, fin |-> r.fin, going |-> FALSE]
    BY <1>5 DEF handle_segment
  <2>2. u.conn = c /\ u.fin = FALSE
    BY <1>2, <2>1
  <2> QED BY <1>1, <2>2
<1>6. CASE ~(\/ ~unpacks(g) \/ g.length \in {"too long", "beyond"}
             \/ ~check_header_checksum(d) \/ ~check_data_checksum(d))
  <2>1. d.sequence_no = seg.sequence_no /\ d.ack = seg.ack /\ d.fin = seg.fin
    <3>1. d = g.segment /\ check_header_checksum(d)
      BY <1>6
    <3> HIDE DEF d
    <3> QED BY <3>1, ControlFrame
  <2> HIDE DEF d
  <2>2. CASE seg.ack
    <3> DEFINE t == after_send(take_ack(c, seg.sequence_no))
    <3>1. u = [conn |-> t, fin |-> FALSE, going |-> g.length # "long"]
      BY <1>2, <1>6, <2>1, <2>2 DEF handle_segment, d
    <3>2. v = [conn |-> t, fin |-> FALSE, going |-> TRUE]
      BY <1>2, <1>3, <1>4, <2>2 DEF handle_segment
    <3>3. t \in ConnectionType
      <4>1. take_ack(c, seg.sequence_no) \in ConnectionType
        BY <1>1, <1>3, TakeAckFields
      <4> QED BY <4>1, AfterSendFields
    <3> HIDE DEF t
    <3>4. u.conn = t /\ u.fin = FALSE
      BY <3>1
    <3>5. v.conn = t /\ v.fin = FALSE
      BY <3>2
    <3> QED BY <3>3, <3>4, <3>5
  <2>3. CASE ~seg.ack /\ seg.fin
    <3>1. u = [conn |-> c, fin |-> TRUE, going |-> FALSE]
      BY <1>2, <1>6, <2>1, <2>3 DEF handle_segment, d
    <3>2. v = [conn |-> c, fin |-> TRUE, going |-> FALSE]
      BY <1>2, <1>3, <1>4, <2>3 DEF handle_segment
    <3>3. u.conn = c /\ u.fin = TRUE
      BY <3>1
    <3>4. v.conn = c /\ v.fin = TRUE
      BY <3>2
    <3> QED BY <1>1, <3>3, <3>4, Zenon
  <2>4. CASE ~seg.ack /\ ~seg.fin
    <3>1. seg.sequence_no # c.sequence_no
      BY <1>1, <1>3, <2>4
    <3>2. u = [conn |-> c, fin |-> FALSE, going |-> FALSE]
      BY <1>2, <1>6, <2>1, <2>4, <3>1 DEF handle_segment, d
    <3>3. u.conn = c /\ u.fin = FALSE
      BY <3>2
    <3> QED BY <1>1, <3>3
  <2> QED BY <2>2, <2>3, <2>4
<1> QED BY <1>5, <1>6

LEMMA OneFrame ==
  ASSUME NEW c, NEW frames, Len(frames) = 1, NEW r,
         r = [conn |-> c, fin |-> FALSE, going |-> TRUE]
  PROVE  /\ handle_rcv(c, frames).conn = handle_segment(r, frames[1]).conn
         /\ handle_rcv(c, frames).fin = handle_segment(r, frames[1]).fin
<1>1. Loop(c, frames)[0] = r /\ Loop(c, frames)[0 + 1] = handle_segment(Loop(c, frames)[0], frames[0 + 1])
  BY LoopTurns
<1>2. Loop(c, frames)[1] = handle_segment(r, frames[1])
  BY <1>1
<1>3. handle_rcv(c, frames) = [conn |-> Loop(c, frames)[1].conn,
                               fin |-> Loop(c, frames)[1].fin, done |-> TRUE]
  BY DEF handle_rcv, Loop
<1> QED BY <1>2, <1>3

but_the_window(c) == [c EXCEPT !.remote_window_size = 0]

\* What a SYN, and a SYN that is an acknowledgement, make of a connection.
hello(c, w) == [c EXCEPT !.sequence_no = -1, !.remote_window_size = w]
set_up(c, w) == after_send(establish([c EXCEPT !.remote_window_size = w], 0))

\* A connection that is not set up is set up alike whatever window it is told.
LEMMA WindowForgotten ==
  ASSUME NEW c \in ConnectionType, ~c.valid_send_handler, NEW w \in Int
  PROVE  /\ but_the_window(hello(c, w)) = but_the_window([c EXCEPT !.sequence_no = -1])
         /\ hello(c, w) \in ConnectionType
         /\ but_the_window(set_up(c, w)) = but_the_window(establish(c, 0))
         /\ set_up(c, w) \in ConnectionType
         /\ after_send(establish(c, 0)) \in ConnectionType
<1> DEFINE f == [c EXCEPT !.remote_window_size = w]
           e == establish(f, 0)
<1>1. e.valid_send_handler = c.valid_send_handler
  BY DEF establish, ConnectionType
<1>2. but_the_window(e) = but_the_window(establish(c, 0))
  BY DEF establish, but_the_window, ConnectionType
<1>3. f \in ConnectionType
  BY FieldUpdate
<1>4. e \in ConnectionType
  <2> HIDE DEF f
  <2> QED BY <1>3, 0 \in Int, EstablishFields
<1>5. after_send(e) = e
  <2> HIDE DEF e
  <2> QED BY <1>1 DEF after_send, sending
<1>6. set_up(c, w) = e
  BY <1>5 DEF set_up
<1>7. after_send(establish(c, 0)) \in ConnectionType
  <2> DEFINE g == establish(c, 0)
  <2>1. g \in ConnectionType
    BY 0 \in Int, EstablishFields
  <2> HIDE DEF g
  <2>2. after_send(g) \in ConnectionType
    BY <2>1, AfterSendFields
  <2> QED BY <2>2 DEF g
<1>8. but_the_window(hello(c, w)) = but_the_window([c EXCEPT !.sequence_no = -1])
  BY DEF hello, but_the_window, ConnectionType
<1>9. hello(c, w) \in ConnectionType
  <2> DEFINE h == [c EXCEPT !.sequence_no = -1]
  <2>1. h \in ConnectionType
    BY -1 \in Int, FieldUpdate
  <2>2. hello(c, w) = [h EXCEPT !.remote_window_size = w]
    BY DEF hello
  <2> HIDE DEF h
  <2> QED BY <2>1, <2>2, FieldUpdate
<1> HIDE DEF e
<1> QED BY <1>2, <1>4, <1>6, <1>7, <1>8, <1>9

becomes(c) == [conn |-> c, fin |-> FALSE, done |-> TRUE]

established(c, seg) ==
  IF seg.syn /\ seg.sequence_no = -2 THEN hello(c, seg.receive_window)
  ELSE IF seg.syn /\ seg.ack /\ seg.sequence_no = -1 THEN set_up(c, seg.receive_window)
  ELSE IF seg.ack /\ seg.sequence_no = 0 THEN after_send(establish(c, 0))
  ELSE c

\* A control segment that passes the checks sets the connection up, or does nothing.
LEMMA EstablishmentCases ==
  ASSUME NEW c, NEW frames, NEW frame, frame = Head(frames), NEW seg, seg = frame.segment,
         seg.data = <<>>, check_header_checksum(seg), unpacks(frame),
         ~(frame.length = "beyond" /\ Len(seg.data) = MSS)
  PROVE  connection_establishment(c, frames) = becomes(established(c, seg))
<1> DEFINE u == connection_establishment(c, frames)
<1>1. CASE seg.syn /\ seg.sequence_no = -2
  <2>1. u = becomes(hello(c, seg.receive_window))
    BY <1>1 DEF connection_establishment, becomes, hello
  <2>2. established(c, seg) = hello(c, seg.receive_window)
    BY <1>1 DEF established
  <2> QED BY <2>1, <2>2
<1>2. CASE ~(seg.syn /\ seg.sequence_no = -2) /\ seg.syn /\ seg.ack /\ seg.sequence_no = -1
  <2>1. u = becomes(set_up(c, seg.receive_window))
    BY <1>2 DEF connection_establishment, becomes, set_up
  <2>2. established(c, seg) = set_up(c, seg.receive_window)
    BY <1>2 DEF established
  <2> QED BY <2>1, <2>2
<1>3. CASE /\ ~(seg.syn /\ seg.sequence_no = -2)
           /\ ~(seg.syn /\ seg.ack /\ seg.sequence_no = -1)
           /\ seg.ack /\ seg.sequence_no = 0
  <2>1. u = becomes(after_send(establish(c, 0)))
    BY <1>3 DEF connection_establishment, becomes
  <2>2. established(c, seg) = after_send(establish(c, 0))
    BY <1>3 DEF established
  <2> QED BY <2>1, <2>2
<1>4. CASE /\ ~(seg.syn /\ seg.sequence_no = -2)
           /\ ~(seg.syn /\ seg.ack /\ seg.sequence_no = -1)
           /\ ~(seg.ack /\ seg.sequence_no = 0)
  <2>1. u = becomes(c)
    BY <1>4 DEF connection_establishment, becomes
  <2>2. established(c, seg) = c
    BY <1>4 DEF established
  <2> QED BY <2>1, <2>2
<1> QED BY <1>1, <1>2, <1>3, <1>4

LEMMA EstablishedAlike ==
  ASSUME NEW c \in ConnectionType, ~c.valid_send_handler, NEW d, NEW seg,
         d.sequence_no = seg.sequence_no, d.ack = seg.ack, d.syn = seg.syn,
         d.receive_window \in Int, seg.receive_window \in Int
  PROVE  /\ established(c, d) \in ConnectionType
         /\ but_the_window(established(c, d)) = but_the_window(established(c, seg))
<1>1. ASSUME NEW w \in Int
      PROVE  /\ but_the_window(hello(c, w)) = but_the_window([c EXCEPT !.sequence_no = -1])
             /\ hello(c, w) \in ConnectionType
             /\ but_the_window(set_up(c, w)) = but_the_window(establish(c, 0))
             /\ set_up(c, w) \in ConnectionType
             /\ after_send(establish(c, 0)) \in ConnectionType
  BY WindowForgotten
<1> QED BY <1>1 DEF established

\* What is read as u does nothing to c, or what v does to it, but for the window.
DoesAlike(c, u, v) ==
  /\ u.fin = FALSE /\ u.conn \in ConnectionType
  /\ \/ u.conn = c
     \/ v.fin = FALSE /\ but_the_window(u.conn) = but_the_window(v.conn)

LEMMA ControlEstablishment ==
  ASSUME NEW c \in Receivers, ~c.valid, NEW seg, IsControl(seg),
         NEW whole, Head(whole) = pack(seg),
         NEW frames, NEW g, g = Head(frames), Arrives(pack(seg), g)
  PROVE  DoesAlike(c, connection_establishment(c, frames), connection_establishment(c, whole))
<1> DEFINE u == connection_establishment(c, frames)
           v == connection_establishment(c, whole)
<1>1. c \in ConnectionType /\ ~c.valid_send_handler
  <2>1. PICK n \in {-2, -1} : c = [NewConnection EXCEPT !.sequence_no = n]
    BY ReceiversIdle
  <2>2. c \in ConnectionType
    BY ReceiversEmpty DEF Empty
  <2>3. c.valid_send_handler = FALSE
    BY <2>1 DEF NewConnection
  <2> QED BY <2>2, <2>3
<1>2. CASE \/ ~unpacks(g)
           \/ g.length = "beyond" /\ Len(g.segment.data) = MSS
           \/ ~check_header_checksum(g.segment)
  <2>1. u = becomes(c)
    BY <1>2 DEF connection_establishment, becomes
  <2>2. u.conn = c /\ u.fin = FALSE
    BY <2>1 DEF becomes
  <2> HIDE DEF u, v
  <2>3. DoesAlike(c, u, v)
    BY <1>1, <2>2 DEF DoesAlike
  <2> QED BY <2>3 DEF u, v
<1>3. CASE ~(\/ ~unpacks(g)
             \/ g.length = "beyond" /\ Len(g.segment.data) = MSS
             \/ ~check_header_checksum(g.segment))
  <2> DEFINE d == g.segment
             f == Head(whole)
  <2>1. /\ d = g.segment /\ check_header_checksum(d) /\ unpacks(g)
        /\ ~(g.length = "beyond" /\ Len(d.data) = MSS)
    BY <1>3
  <2>2. /\ f = Head(whole) /\ seg = f.segment /\ unpacks(f)
        /\ ~(f.length = "beyond" /\ Len(seg.data) = MSS)
        /\ seg.data = <<>> /\ check_header_checksum(seg) /\ seg.receive_window \in Int
    BY ControlFields DEF pack, unpacks
  <2> HIDE DEF d, f
  <2>3. /\ d.sequence_no = seg.sequence_no /\ d.ack = seg.ack
        /\ d.syn = seg.syn /\ d.data = <<>> /\ d.receive_window \in Int
    BY <2>1, ControlFrame
  <2>4. u = becomes(established(c, d))
    BY <2>1, <2>3, EstablishmentCases
  <2>5. v = becomes(established(c, seg))
    BY <2>2, EstablishmentCases
  <2>6. /\ established(c, d) \in ConnectionType
        /\ but_the_window(established(c, d)) = but_the_window(established(c, seg))
    BY <1>1, <2>2, <2>3, EstablishedAlike
  <2> HIDE DEF u, v
  <2>7. DoesAlike(c, u, v)
    <3>1. u.fin = FALSE /\ u.conn = established(c, d)
      BY <2>4 DEF becomes
    <3>2. v.fin = FALSE /\ v.conn = established(c, seg)
      BY <2>5 DEF becomes
    <3> QED BY <2>6, <3>1, <3>2 DEF DoesAlike
  <2> QED BY <2>7 DEF u, v
<1> QED BY <1>2, <1>3

LEMMA ControlOutcome ==
  ASSUME FramingInv, outcome.done, NEW seg, ControlSent(seg)
  PROVE  /\ outcome.conn \in ConnectionType
         /\ outcome.fin = FALSE \/ outcome.fin = TRUE
         /\ \/ outcome.conn = before /\ outcome.fin = FALSE
            \/ /\ outcome.fin = multiplex(before, sent).fin
               /\ but_the_window(outcome.conn) = but_the_window(multiplex(before, sent).conn)
<1> DEFINE u == multiplex(before, wire)
           v == multiplex(before, sent)
<1>1. outcome = u
  BY DEF FramingInv, Pending
<1>2. /\ IsControl(seg) /\ Len(sent) = 1 /\ sent[1] = pack(seg)
      /\ Len(wire) = 1 /\ Arrives(pack(seg), wire[1])
      /\ before \in Receivers
  BY ControlSentFields, ControlArrives DEF ControlSent, FramingInv
<1>3. CASE before.valid
  <2> DEFINE r == [conn |-> before, fin |-> FALSE, going |-> TRUE]
             a == handle_segment(r, wire[1])
             b == handle_segment(r, pack(seg))
  <2>1. /\ \/ a.conn = before /\ a.fin = FALSE
           \/ a.conn = b.conn /\ a.fin = b.fin
        /\ a.conn \in ConnectionType
        /\ a.fin = FALSE \/ a.fin = TRUE
    BY <1>2, <1>3, ControlTurn
  <2>2. u = handle_rcv(before, wire) /\ v = handle_rcv(before, sent)
    BY <1>3 DEF multiplex
  <2>3. u.conn = a.conn /\ u.fin = a.fin
    <3>1. r = [conn |-> before, fin |-> FALSE, going |-> TRUE]
      OBVIOUS
    <3> HIDE DEF u, v, r
    <3> QED BY <1>2, <2>2, <3>1, OneFrame
  <2>4. v.conn = b.conn /\ v.fin = b.fin
    <3>1. r = [conn |-> before, fin |-> FALSE, going |-> TRUE]
      OBVIOUS
    <3> HIDE DEF u, v, r
    <3> QED BY <1>2, <2>2, <3>1, OneFrame
  <2> HIDE DEF a, b, u, v
  <2> QED BY <1>1, <2>1, <2>3, <2>4 DEF v
<1>4. CASE ~before.valid
  <2>1. /\ u = connection_establishment(before, wire)
        /\ v = connection_establishment(before, sent)
    BY <1>4 DEF multiplex
  <2>2. Head(sent) = pack(seg) /\ Head(wire) = wire[1]
    BY <1>2
  <2> HIDE DEF u, v
  <2>3. /\ u.fin = FALSE /\ u.conn \in ConnectionType
        /\ \/ u.conn = before
           \/ v.fin = FALSE /\ but_the_window(u.conn) = but_the_window(v.conn)
    <3> DEFINE g == Head(wire)
    <3>1. g = Head(wire) /\ Arrives(pack(seg), g)
      BY <1>2, <2>2
    <3> HIDE DEF g
    <3>2. DoesAlike(before, connection_establishment(before, wire),
                    connection_establishment(before, sent))
      BY <1>2, <1>4, <2>2, <3>1, ControlEstablishment
    <3> QED BY <2>1, <3>2 DEF DoesAlike
  <2> QED BY <1>1, <2>3 DEF v
<1> QED BY <1>3, <1>4

LEMMA ControlHolds == FramingInv => ControlIsAllOrNothing
<1> SUFFICES ASSUME FramingInv, outcome.done, ~IsData
             PROVE  \/ <<but_the_window(outcome.conn), outcome.fin>>
                         = <<but_the_window(multiplex(before, sent).conn), multiplex(before, sent).fin>>
                    \/ <<but_the_window(outcome.conn), outcome.fin>> = <<but_the_window(before), FALSE>>
  BY DEF ControlIsAllOrNothing, but_the_window
<1>1. sent \in Datagrams
  BY DEF FramingInv
<1>2. \A start, size : ~DataSent(start, size)
  BY DataSentFields
<1> PICK seg : ControlSent(seg)
  BY <1>1, <1>2, DatagramKinds
<1> QED BY ControlOutcome

-----------------------------------------------------------------------------
(* Types *)

WellTyped(c) ==
  /\ [c EXCEPT !.rcv_window = <<>>] \in ConnectionType
  /\ c.rcv_window \in Seq(Nat \cup {Damaged})

LEMMA UndamagedTyped ==
  ASSUME NEW c \in ConnectionType
  PROVE  WellTyped(c)
<1>1. [c EXCEPT !.rcv_window = <<>>] \in ConnectionType
  <2>1. <<>> \in Seq(Nat)
    OBVIOUS
  <2> QED BY <2>1, FieldUpdate
<1>2. c.rcv_window \in Seq(Nat)
  BY DEF ConnectionType
<1>3. c.rcv_window \in Seq(Nat \cup {Damaged})
  BY <1>2
<1> QED BY <1>1, <1>3 DEF WellTyped

\* The bytes taken are numbers, or Damaged; the rest of the connection is typed.
LEMMA TakenTyped ==
  ASSUME NEW c, Empty(c), c.sequence_no \in Nat,
         NEW start, NEW v, Contained(start, c.sequence_no, v)
  PROVE  WellTyped(take_data(c, v))
<1>1. c \in ConnectionType /\ c.rcv_window = <<>>
  BY DEF Empty
<1>2. v \in Seq(Int) /\ \A k \in 1..Len(v) : v[k] = c.sequence_no + k \/ v[k] = Damaged
  BY DEF Contained
<1> DEFINE n == c.sequence_no + Len(v)
           c1 == [c EXCEPT !.sequence_no = n]
           c2 == [c1 EXCEPT !.timeout_count = 0]
<1>3. take_data(c, v).rcv_window = v
  BY <1>2, TakenFields
<1>4. v \in Seq(Nat \cup {Damaged})
  <2>1. \A k \in 1..Len(v) : v[k] \in Nat \cup {Damaged}
    BY <1>2
  <2>2. v = [k \in 1..Len(v) |-> v[k]] /\ Len(v) \in Nat
    BY <1>2
  <2> QED BY <2>1, <2>2
<1>5. [take_data(c, v) EXCEPT !.rcv_window = <<>>] = c2
  BY <1>1 DEF take_data, ConnectionType
<1>6. c2 \in ConnectionType
  <2>1. n \in Int
    BY <1>2
  <2> HIDE DEF n
  <2>2. c1 \in ConnectionType
    BY <1>1, <2>1, FieldUpdate
  <2> HIDE DEF c1
  <2> QED BY <2>2, ZeroUpdate
<1> HIDE DEF c2
<1> QED BY <1>3, <1>4, <1>5, <1>6 DEF WellTyped

LEMMA OutcomeTyped ==
  ASSUME FramingInv
  PROVE  WellTyped(outcome.conn) /\ (outcome.fin = FALSE \/ outcome.fin = TRUE)
<1>1. before \in Receivers /\ sent \in Datagrams
  BY DEF FramingInv
<1>2. CASE outcome = Pending
  <2>1. outcome.conn = NewConnection /\ outcome.fin = FALSE
    BY <1>2 DEF Pending
  <2> QED BY <2>1, NewConnectionType, UndamagedTyped
<1>3. CASE outcome # Pending
  <2>1. outcome.done
    BY <1>3, ReadIsDone DEF FramingInv
  <2>2. CASE \E start, size : DataSent(start, size)
    <3> PICK start, size : DataSent(start, size)
      BY <2>2
    <3>1. outcome.fin = FALSE
      BY <2>1, DataOutcome
    <3>2. CASE outcome.conn = before
      <4>1. before \in ConnectionType
        BY <1>1, ReceiversEmpty DEF Empty
      <4> QED BY <3>1, <3>2, <4>1, UndamagedTyped
    <3>3. CASE outcome.conn # before
      <4> DEFINE c == Ready
      <4>1. PICK v : Contained(start, c.sequence_no, v) /\ outcome.conn = take_data(c, v)
        BY <2>1, <3>3, DataOutcome
      <4>2. Empty(c) /\ c.sequence_no \in Nat
        BY <1>1, ReadyFields
      <4> HIDE DEF c
      <4>3. WellTyped(take_data(c, v))
        BY <4>1, <4>2, TakenTyped
      <4> QED BY <3>1, <4>1, <4>3
    <3> QED BY <3>2, <3>3
  <2>3. CASE \E seg : ControlSent(seg)
    <3>1. outcome.conn \in ConnectionType /\ (outcome.fin = FALSE \/ outcome.fin = TRUE)
      BY <2>1, <2>3, ControlOutcome
    <3> QED BY <3>1, UndamagedTyped
  <2> QED BY <1>1, <2>2, <2>3, DatagramKinds
<1> QED BY <1>2, <1>3

LEMMA TypeHolds == FramingInv => TypeOK
<1> SUFFICES ASSUME FramingInv
             PROVE  TypeOK
  OBVIOUS
<1>1. same_memory \in BOOLEAN
  BY DEF FramingInv
<1>2. WellTyped(outcome.conn) /\ (outcome.fin = FALSE \/ outcome.fin = TRUE)
  BY OutcomeTyped
<1>3. outcome.fin \in BOOLEAN
  BY <1>2, Zenon
<1> QED BY <1>1, <1>2, <1>3 DEF TypeOK, WellTyped

-----------------------------------------------------------------------------
(* Results *)

\* Whatever arrives, an acknowledgement of any number or damaged data included,
\* the connection that reads it is one of ConnectionType: write_index, the
\* congestion window and the timeout count do not go below zero.  Only the bytes
\* of rcv_window may be others than were sent.
THEOREM FramingTypes == Spec => []TypeOK
BY FramingInvariant, TypeHolds, PTL

\* Whatever its number of segments, an undamaged data datagram that has the number
\* expected is taken in one piece, whole or without a short last segment, which is
\* what Rtp's HandleData takes from accepted_lengths; any other changes nothing.
THEOREM LoopTakesWhatRtpTakes == Spec => []LoopTakesARun
BY FramingInvariant, RunHolds, PTL

\* A SYN, FIN or acknowledgement with one field damaged does what it was sent to
\* do, but for the window it carries, or check_header_checksum throws it away.
THEOREM DamagedControl == Spec => []ControlIsAllOrNothing
BY FramingInvariant, ControlHolds, PTL

\* Whatever its number of segments, a damaged data datagram moves the receiver's
\* number by the bytes it takes, and they are the bytes of those numbers but
\* behind the Span bytes that check_data_checksum covers in each segment.
THEOREM DamagedData == Spec => []DamageIsContained
BY FramingInvariant, ContainedHolds, PTL

=============================================================================
