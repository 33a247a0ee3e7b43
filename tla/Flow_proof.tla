----------------------------- MODULE Flow_proof -----------------------------
(***************************************************************************)
(* What a step does to the fields that steer a connection from afar, its   *)
(* numbers and its windows, and from that: an established connection knows *)
(* its peer's window, and no datagram exceeds it.                          *)
(***************************************************************************)
EXTENDS Service_proof

LEMMA DivideThenTimes ==
  ASSUME NEW a \in Int, NEW b \in Nat \ {0}, NEW n \in Nat, n < a \div b
  PROVE  (n + 1) * b <= a
BY SMT

LEMMA DivideAtLeastOne ==
  ASSUME NEW a \in Nat, NEW b \in Nat \ {0}, a >= b
  PROVE  0 < a \div b
BY SMT

LEMMA TimesMonotone ==
  ASSUME NEW a \in Nat, NEW b \in Nat, NEW c \in Nat, a <= b
  PROVE  a * c <= b * c
BY SMT

-----------------------------------------------------------------------------
(* The windows of a connection, through the methods of Connection *)

LEMMA CongestionFields ==
  ASSUME NEW c \in ConnectionType
  PROVE  /\ \A n \in Int :
              /\ establish(c, n).congestion_window = c.congestion_window
              /\ establish(c, n).remote_window_size = c.remote_window_size
         /\ \A data \in Seq(Nat) :
              take_data(c, data).congestion_window = c.congestion_window
         /\ call_rcv_handler(c).congestion_window = c.congestion_window
         /\ set_rcv_handler(c).congestion_window = c.congestion_window
         /\ inc_timeout(c).congestion_window = c.congestion_window
         /\ reset(c).congestion_window = 1 /\ reset(c).remote_window_size = 0
         /\ reset(c).sequence_no = -2
BY DEF establish, take_data, call_rcv_handler, set_rcv_handler, inc_timeout, reset,
       NewConnection, ConnectionType

LEMMA HalveFields ==
  ASSUME NEW c \in ConnectionType
  PROVE  /\ halve_congestion(c).congestion_window \in 0..c.congestion_window
BY DEF halve_congestion, ConnectionType

\* The window grows by one segment at most, and by one if the peer's holds a
\* segment and it is at 0.
LEMMA IncCongestionWindow ==
  ASSUME NEW c \in ConnectionType, NEW d, d = inc_congestion(c)
  PROVE  /\ d.congestion_window \in Nat
         /\ \/ d.congestion_window = c.congestion_window
            \/ /\ d.congestion_window = c.congestion_window + 1
               /\ d.congestion_window <= MaxCwnd
               /\ d.congestion_window * MSS <= c.remote_window_size
         /\ c.remote_window_size >= MSS => d.congestion_window >= 1
<1>1. /\ c.congestion_window \in Nat /\ c.remote_window_size \in Int
      /\ MSS \in Nat \ {0} /\ MaxCwnd \in Nat \ {0}
  BY SegmentAssumption, LimitAssumption DEF ConnectionType
<1>2. CASE c.congestion_window < c.remote_window_size \div MSS /\ c.congestion_window < MaxCwnd
  <2>1. d = [c EXCEPT !.congestion_window = c.congestion_window + 1]
    BY <1>2 DEF inc_congestion
  <2>2. d.congestion_window = c.congestion_window + 1
    BY <2>1 DEF ConnectionType
  <2>3. (c.congestion_window + 1) * MSS <= c.remote_window_size
    BY <1>1, <1>2, DivideThenTimes
  <2> QED BY <1>1, <1>2, <2>2, <2>3
<1>3. CASE ~(c.congestion_window < c.remote_window_size \div MSS /\ c.congestion_window < MaxCwnd)
  <2>1. d = c
    BY <1>3 DEF inc_congestion
  <2>2. c.remote_window_size >= MSS => 0 < c.remote_window_size \div MSS
    BY <1>1, DivideAtLeastOne
  <2>3. c.congestion_window = 0 => ~(c.remote_window_size >= MSS)
    BY <1>1, <1>3, <2>2
  <2> QED BY <1>1, <2>1, <2>3
<1> QED BY <1>2, <1>3

LEMMA TakeAckWindow ==
  ASSUME NEW c \in ConnectionType, c.old_sequence_no <= c.send_sequence_no,
         NEW n \in Int, NEW d, d = take_ack(c, n)
  PROVE  /\ d.congestion_window \in Nat
         /\ \/ d.congestion_window = c.congestion_window
            \/ /\ d.congestion_window = c.congestion_window + 1
               /\ d.congestion_window <= MaxCwnd
               /\ d.congestion_window * MSS <= c.remote_window_size
         /\ c.remote_window_size >= MSS => d.congestion_window >= 1
<1> DEFINE a == IF n >= c.send_sequence_no
                THEN [c EXCEPT !.send_sequence_no = n, !.write_index = n - c.old_sequence_no]
                ELSE c
           b == inc_congestion(a)
<1>1. /\ a \in ConnectionType
      /\ a.congestion_window = c.congestion_window
      /\ a.remote_window_size = c.remote_window_size
  <2>1. c.send_sequence_no \in Int /\ c.old_sequence_no \in Int
    BY DEF ConnectionType
  <2>2. CASE n >= c.send_sequence_no
    <3> DEFINE c1 == [c EXCEPT !.send_sequence_no = n]
               c2 == [c1 EXCEPT !.write_index = n - c.old_sequence_no]
    <3>0. n - c.old_sequence_no \in Nat
      BY <2>1, <2>2
    <3>1. c1 \in ConnectionType
      BY FieldUpdate
    <3>2. c1.congestion_window = c.congestion_window
          /\ c1.remote_window_size = c.remote_window_size
      BY DEF ConnectionType
    <3>3. a = c2
      BY <2>2 DEF ConnectionType
    <3> HIDE DEF c1
    <3>4. c2 \in ConnectionType
      BY <3>0, <3>1, FieldUpdate
    <3>5. c2.congestion_window = c1.congestion_window
          /\ c2.remote_window_size = c1.remote_window_size
      BY <3>1 DEF ConnectionType
    <3> QED BY <3>2, <3>3, <3>4, <3>5
  <2>3. CASE ~(n >= c.send_sequence_no)
    BY <2>3
  <2> QED BY <2>2, <2>3
<1>2. d = [b EXCEPT !.timeout_count = 0]
  BY DEF take_ack
<1> HIDE DEF a
<1>3. b \in ConnectionType
  BY <1>1, IncCongestionFields
<1>4. /\ b.congestion_window \in Nat
      /\ \/ b.congestion_window = a.congestion_window
         \/ /\ b.congestion_window = a.congestion_window + 1
            /\ b.congestion_window <= MaxCwnd
            /\ b.congestion_window * MSS <= a.remote_window_size
      /\ a.remote_window_size >= MSS => b.congestion_window >= 1
  BY <1>1, IncCongestionWindow
<1> HIDE DEF b
<1>5. d.congestion_window = b.congestion_window
  BY <1>2, <1>3 DEF ConnectionType
<1> QED BY <1>1, <1>4, <1>5

-----------------------------------------------------------------------------
(* The records after a step of endpoint e *)

\* The fields of f's record that steer the flow stay as they are.
SameFlow(f) ==
  /\ conn'[f].valid = conn[f].valid
  /\ conn'[f].sequence_no = conn[f].sequence_no
  /\ conn'[f].send_sequence_no = conn[f].send_sequence_no
  /\ conn'[f].valid_send_handler = conn[f].valid_send_handler
  /\ conn'[f].congestion_window = conn[f].congestion_window
  /\ conn'[f].remote_window_size = conn[f].remote_window_size

LEMMA SameRecord ==
  ASSUME TypeInv, NEW e \in Endpoint, NEW d, conn' = [conn EXCEPT ![e] = d],
         d.valid = conn[e].valid, d.sequence_no = conn[e].sequence_no,
         d.send_sequence_no = conn[e].send_sequence_no,
         d.valid_send_handler = conn[e].valid_send_handler,
         d.congestion_window = conn[e].congestion_window,
         d.remote_window_size = conn[e].remote_window_size
  PROVE  \A f \in Endpoint : SameFlow(f)
<1>1. conn \in [Endpoint -> ConnectionType]
  BY DEF TypeInv, TypeOK
<1> QED BY <1>1 DEF SameFlow

LEMMA SameConnFlow ==
  ASSUME TypeInv, conn' = conn
  PROVE  \A f \in Endpoint : SameFlow(f)
BY DEF SameFlow

LEMMA CreateFlow ==
  ASSUME TypeInv, FreshInv, CreateConnection
  PROVE  conn' = conn
BY DEF CreateConnection, FreshInv, TypeInv, TypeOK

LEMMA AsyncRcvFlow ==
  ASSUME TypeInv, NEW e \in Endpoint, AsyncRcv(e)
  PROVE  \A f \in Endpoint : SameFlow(f)
<1> DEFINE c == set_rcv_handler(conn[e])
           d == IF c.rcv_window # <<>> THEN call_rcv_handler(c) ELSE c
<1>1. conn[e] \in ConnectionType
  BY DEF TypeInv, TypeOK
<1>2. /\ c \in ConnectionType
      /\ c.valid = conn[e].valid /\ c.send_sequence_no = conn[e].send_sequence_no
      /\ c.sequence_no = conn[e].sequence_no
      /\ c.valid_send_handler = conn[e].valid_send_handler
      /\ c.remote_window_size = conn[e].remote_window_size
  BY <1>1, SetRcvHandlerFields
<1>3. c.congestion_window = conn[e].congestion_window
  BY <1>1, CongestionFields
<1>4. conn' = [conn EXCEPT ![e] = d]
  BY DEF AsyncRcv
<1> HIDE DEF c
<1>5. /\ d.valid = c.valid /\ d.send_sequence_no = c.send_sequence_no
      /\ d.sequence_no = c.sequence_no
      /\ d.valid_send_handler = c.valid_send_handler
      /\ d.remote_window_size = c.remote_window_size
  BY <1>2, ReceiveHandlerFields
<1>6. d.congestion_window = c.congestion_window
  BY <1>2, CongestionFields
<1> HIDE DEF d
<1> QED BY <1>2, <1>3, <1>4, <1>5, <1>6, SameRecord

LEMMA FinOrSynFlow ==
  ASSUME TypeInv, NEW e \in Endpoint, NEW m \in net, ReceiveFin(e, m) \/ ReceiveLateSyn(e, m)
  PROVE  \A f \in Endpoint : SameFlow(f)
<1> DEFINE d == call_rcv_handler(conn[e])
<1>1. conn[e] \in ConnectionType
  BY DEF TypeInv, TypeOK
<1>2. /\ d.valid = conn[e].valid /\ d.send_sequence_no = conn[e].send_sequence_no
      /\ d.sequence_no = conn[e].sequence_no
      /\ d.valid_send_handler = conn[e].valid_send_handler
      /\ d.remote_window_size = conn[e].remote_window_size
  BY <1>1, ReceiveHandlerFields
<1>3. d.congestion_window = conn[e].congestion_window
  BY <1>1, CongestionFields
<1>4. conn' = [conn EXCEPT ![e] = d]
  BY DEF ReceiveFin, ReceiveLateSyn
<1> HIDE DEF d
<1> QED BY <1>2, <1>3, <1>4, SameRecord

LEMMA AckTimeoutFlow ==
  ASSUME TypeInv, NEW e \in Endpoint, NEW t \in timers[e], AckTimeout(e, t)
  PROVE  \A f \in Endpoint : SameFlow(f)
<1> DEFINE d == inc_timeout(conn[e])
<1>1. conn[e] \in ConnectionType
  BY DEF TypeInv, TypeOK
<1>2. /\ d.valid = conn[e].valid /\ d.send_sequence_no = conn[e].send_sequence_no
      /\ d.sequence_no = conn[e].sequence_no
      /\ d.valid_send_handler = conn[e].valid_send_handler
      /\ d.remote_window_size = conn[e].remote_window_size
  BY <1>1, TimeoutFields
<1>3. d.congestion_window = conn[e].congestion_window
  BY <1>1, CongestionFields
<1>4. conn' = [conn EXCEPT ![e] = d]
  BY DEF AckTimeout
<1> HIDE DEF d
<1> QED BY <1>2, <1>3, <1>4, SameRecord

\* A datagram with data changes the receiving half only: k bytes are taken,
\* acknowledged and guarded.
Takes(e, c, taken, k) ==
  /\ k \in Nat
  /\ conn' = [conn EXCEPT ![e] = conn'[e]]
  /\ conn'[e].valid = c.valid
  /\ conn'[e].sequence_no = c.sequence_no + k
  /\ conn'[e].send_sequence_no = c.send_sequence_no
  /\ conn'[e].valid_send_handler = c.valid_send_handler
  /\ conn'[e].congestion_window = c.congestion_window
  /\ conn'[e].remote_window_size = c.remote_window_size
  /\ accepted' = [accepted EXCEPT ![e] = taken + k]
  /\ k = 0 => timers' = timers /\ net' \subseteq net
  /\ k > 0 =>
       /\ timers' = [timers EXCEPT ![e] = @ \cup {Arm("ack", c.sequence_no + k)}]
       /\ net' \subseteq net \cup {Ack(e, c.sequence_no + k)}

LEMMA HandleDataTakes ==
  ASSUME TypeInv, NEW e \in Endpoint, NEW m \in net, NEW c \in ConnectionType,
         NEW taken \in Nat, NEW received, HandleData(e, m, c, taken, received)
  PROVE  \E k : Takes(e, c, taken, k)
<1>1. /\ m.data \in Seq(Nat) /\ Len(m.data) \in Nat
      /\ conn \in [Endpoint -> ConnectionType]
      /\ c.sequence_no \in Int
  <2>1. m.data \in Seq(Nat) /\ conn \in [Endpoint -> ConnectionType]
    BY DEF TypeInv, TypeOK, Datagram
  <2>2. c.sequence_no \in Int
    BY DEF ConnectionType
  <2> QED BY <2>1, <2>2, LenProperties
<1>2. CASE m.seq # c.sequence_no
  <2> DEFINE d == call_rcv_handler(c)
  <2>1. /\ conn' = [conn EXCEPT ![e] = d] /\ accepted' = [accepted EXCEPT ![e] = taken]
        /\ net' \in Delivered(m) /\ timers' = timers
    BY <1>2 DEF HandleData
  <2>2. /\ d.valid = c.valid /\ d.send_sequence_no = c.send_sequence_no
        /\ d.sequence_no = c.sequence_no /\ d.valid_send_handler = c.valid_send_handler
        /\ d.remote_window_size = c.remote_window_size
    BY ReceiveHandlerFields
  <2>3. d.congestion_window = c.congestion_window
    BY CongestionFields
  <2> HIDE DEF d
  <2>4. conn'[e] = d /\ net' \subseteq net
    BY <1>1, <2>1, DeliveredRest
  <2>5. Takes(e, c, taken, 0)
    BY <1>1, <2>1, <2>2, <2>3, <2>4 DEF Takes
  <2> QED BY <2>5
<1>3. CASE m.seq = c.sequence_no
  <2>1. PICK k \in accepted_lengths(Len(m.data)) :
          LET d == take_data(c, SubSeq(m.data, 1, k)) IN
          /\ conn' = [conn EXCEPT ![e] = call_rcv_handler(IF k > 0 THEN d ELSE c)]
          /\ accepted' = [accepted EXCEPT ![e] = taken + k]
          /\ \E rest \in Delivered(m) :
               net' = IF k > 0 THEN rest \cup {Ack(e, d.sequence_no)} ELSE rest
          /\ timers' = IF k > 0
                       THEN [timers EXCEPT ![e] = @ \cup {Arm("ack", d.sequence_no)}]
                       ELSE timers
    BY <1>3 DEF HandleData
  <2> DEFINE s == SubSeq(m.data, 1, k)
             b == take_data(c, s)
             a == IF k > 0 THEN b ELSE c
             d == call_rcv_handler(a)
  <2>2. /\ conn' = [conn EXCEPT ![e] = d]
        /\ accepted' = [accepted EXCEPT ![e] = taken + k]
        /\ \E rest \in Delivered(m) :
             net' = IF k > 0 THEN rest \cup {Ack(e, b.sequence_no)} ELSE rest
        /\ timers' = IF k > 0
                     THEN [timers EXCEPT ![e] = @ \cup {Arm("ack", b.sequence_no)}]
                     ELSE timers
    BY <2>1
  <2>3. k \in 0..Len(m.data)
    BY <1>1, AcceptedLengths
  <2>4. s \in Seq(Nat) /\ Len(s) = k
    <3>1. \A i \in 1..k : m.data[i] \in Nat
      BY <1>1, <2>3
    <3> QED BY <2>3, <3>1, SubSeqProperties
  <2> HIDE DEF s
  <2>5. /\ b \in ConnectionType /\ b.valid = c.valid /\ b.send_sequence_no = c.send_sequence_no
        /\ b.sequence_no = c.sequence_no + k /\ b.valid_send_handler = c.valid_send_handler
        /\ b.remote_window_size = c.remote_window_size
    BY <2>4, TakeDataFields
  <2>6. b.congestion_window = c.congestion_window
    BY <2>4, CongestionFields
  <2> HIDE DEF b
  <2>7. /\ a \in ConnectionType /\ a.valid = c.valid /\ a.send_sequence_no = c.send_sequence_no
        /\ a.sequence_no = c.sequence_no + k /\ a.valid_send_handler = c.valid_send_handler
        /\ a.remote_window_size = c.remote_window_size
        /\ a.congestion_window = c.congestion_window
    BY <1>1, <2>3, <2>5, <2>6
  <2> HIDE DEF a
  <2>8. /\ d.valid = a.valid /\ d.send_sequence_no = a.send_sequence_no
        /\ d.sequence_no = a.sequence_no /\ d.valid_send_handler = a.valid_send_handler
        /\ d.remote_window_size = a.remote_window_size
    BY <2>7, ReceiveHandlerFields
  <2>9. d.congestion_window = a.congestion_window
    BY <2>7, CongestionFields
  <2> HIDE DEF d
  <2>10. conn'[e] = d /\ conn' = [conn EXCEPT ![e] = conn'[e]] /\ k \in Nat
    BY <1>1, <2>2, <2>3
  <2>11. k = 0 => timers' = timers /\ net' \subseteq net
    BY <2>2, DeliveredRest
  <2>12. k > 0 => /\ timers' = [timers EXCEPT ![e] = @ \cup {Arm("ack", c.sequence_no + k)}]
                 /\ net' \subseteq net \cup {Ack(e, c.sequence_no + k)}
    BY <2>2, <2>5, DeliveredRest
  <2>13. Takes(e, c, taken, k)
    BY <2>2, <2>7, <2>8, <2>9, <2>10, <2>11, <2>12 DEF Takes
  <2> QED BY <2>13
<1> QED BY <1>2, <1>3

\* Connection::send runs on record c of endpoint e, which also puts x on the
\* wire and arms y.
Sends(e, c, x, y) ==
  /\ c \in ConnectionType
  /\ conn' = [conn EXCEPT ![e] = conn'[e]]
  /\ conn'[e].valid = c.valid
  /\ conn'[e].sequence_no = c.sequence_no
  /\ conn'[e].send_sequence_no = c.send_sequence_no
  /\ conn'[e].congestion_window = c.congestion_window
  /\ conn'[e].remote_window_size = c.remote_window_size
  /\ conn'[e].valid_send_handler <=>
       /\ c.valid_send_handler
       /\ c.valid => c.send_sequence_no < Len(c.write_buff) + c.old_sequence_no
  /\ net' \subseteq net \cup x \cup sent_by(e, c)
  /\ timers' = [timers EXCEPT ![e] = @ \cup y \cup armed_by(c)]

LEMMA AfterSendSends ==
  ASSUME TypeInv, NEW e \in Endpoint, NEW c \in ConnectionType, NEW x, NEW y, NEW d,
         d = after_send(c) \/ d = call_rcv_handler(after_send(c)),
         conn' = [conn EXCEPT ![e] = d],
         net' \subseteq net \cup x \cup sent_by(e, c),
         timers' = [timers EXCEPT ![e] = @ \cup y \cup armed_by(c)]
  PROVE  Sends(e, c, x, y)
<1> DEFINE b == after_send(c)
<1>1. conn \in [Endpoint -> ConnectionType]
  BY DEF TypeInv, TypeOK
<1>2. /\ b \in ConnectionType /\ b.valid = c.valid /\ b.sequence_no = c.sequence_no
      /\ b.send_sequence_no = c.send_sequence_no
      /\ b.congestion_window = c.congestion_window
      /\ b.remote_window_size = c.remote_window_size
      /\ b.valid_send_handler <=>
           /\ c.valid_send_handler
           /\ c.valid => c.send_sequence_no < Len(c.write_buff) + c.old_sequence_no
  BY AfterSendFields
<1>3. d = b \/ d = call_rcv_handler(b)
  OBVIOUS
<1> HIDE DEF b
<1>4. /\ d.valid = b.valid /\ d.sequence_no = b.sequence_no
      /\ d.send_sequence_no = b.send_sequence_no
      /\ d.congestion_window = b.congestion_window
      /\ d.remote_window_size = b.remote_window_size
      /\ d.valid_send_handler = b.valid_send_handler
  <2>1. CASE d = b
    BY <2>1
  <2>2. CASE d = call_rcv_handler(b)
    BY <1>2, <2>2, ReceiveHandlerFields, CongestionFields
  <2> QED BY <1>3, <2>1, <2>2
<1>5. conn'[e] = d
  BY <1>1
<1> QED BY <1>2, <1>4, <1>5 DEF Sends

LEMMA AsyncSendSends ==
  ASSUME TypeInv, NEW e \in Endpoint, AsyncSend(e)
  PROVE  \E buff \in Seq(Nat) : Sends(e, set_send_handler(conn[e], buff), {}, {})
<1>1. PICK n \in MessageSizes :
        LET c == set_send_handler(conn[e], Run(written[e], n)) IN
        /\ conn' = [conn EXCEPT ![e] = after_send(c)]
        /\ net' = net \cup sent_by(e, c)
        /\ timers' = [timers EXCEPT ![e] = @ \cup armed_by(c)]
  BY DEF AsyncSend
<1> DEFINE buff == Run(written[e], n)
           c == set_send_handler(conn[e], buff)
           d == after_send(c)
<1>2. n \in Nat /\ written[e] \in Nat /\ conn[e] \in ConnectionType
  BY BoundAssumption DEF TypeInv, TypeOK
<1>3. buff \in Seq(Nat)
  BY <1>2, RunIsSeq
<1>4. /\ conn' = [conn EXCEPT ![e] = d]
      /\ net' \subseteq net \cup {} \cup sent_by(e, c)
      /\ timers' = [timers EXCEPT ![e] = @ \cup {} \cup armed_by(c)]
  BY <1>1
<1> HIDE DEF buff
<1>5. c \in ConnectionType
  BY <1>2, <1>3, SetSendHandlerFields
<1> DEFINE a == c
<1>6. a \in ConnectionType /\ conn' = [conn EXCEPT ![e] = after_send(a)]
      /\ net' \subseteq net \cup {} \cup sent_by(e, a)
      /\ timers' = [timers EXCEPT ![e] = @ \cup {} \cup armed_by(a)]
  BY <1>4, <1>5
<1> HIDE DEF a
<1>7. Sends(e, a, {}, {})
  BY <1>6, AfterSendSends
<1> QED BY <1>3, <1>7 DEF a

LEMMA SynAckSends ==
  ASSUME TypeInv, NEW e \in Endpoint, NEW m \in net, ReceiveSynAck(e, m)
  PROVE  Sends(e, establish([conn[e] EXCEPT !.remote_window_size = m.window], m.seq + 1),
               {Ack(e, 0)}, {Arm("finalack", 0)})
<1> DEFINE b == [conn[e] EXCEPT !.remote_window_size = m.window]
           c == establish(b, m.seq + 1)
<1>1. conn[e] \in ConnectionType /\ m.seq \in Int /\ m.window \in Int
  BY DEF TypeInv, TypeOK, Datagram
<1>2. b \in ConnectionType
  BY <1>1, FieldUpdate
<1>3. c \in ConnectionType
  <2> HIDE DEF b
  <2> QED BY <1>1, <1>2, EstablishFields
<1>4. /\ conn' = [conn EXCEPT ![e] = after_send(c)]
      /\ net' \subseteq net \cup {Ack(e, 0)} \cup sent_by(e, c)
      /\ timers' = [timers EXCEPT ![e] = @ \cup {Arm("finalack", 0)} \cup armed_by(c)]
  BY DeliveredRest DEF ReceiveSynAck
<1> HIDE DEF c
<1>5. Sends(e, c, {Ack(e, 0)}, {Arm("finalack", 0)})
  BY <1>3, <1>4, AfterSendSends
<1> QED BY <1>5 DEF c

LEMMA FinalAckSends ==
  ASSUME TypeInv, NEW e \in Endpoint, NEW m \in net, ReceiveFinalAck(e, m)
  PROVE  Sends(e, establish(conn[e], m.seq), {}, {})
<1> DEFINE c == establish(conn[e], m.seq)
<1>1. conn[e] \in ConnectionType /\ m.seq \in Int
  BY DEF TypeInv, TypeOK, Datagram
<1>2. c \in ConnectionType
  BY <1>1, EstablishFields
<1>3. /\ conn' = [conn EXCEPT ![e] = after_send(c)]
      /\ net' \subseteq net \cup {} \cup sent_by(e, c)
      /\ timers' = [timers EXCEPT ![e] = @ \cup {} \cup armed_by(c)]
  BY DeliveredRest DEF ReceiveFinalAck
<1> HIDE DEF c
<1>4. Sends(e, c, {}, {})
  BY <1>2, <1>3, AfterSendSends
<1> QED BY <1>4 DEF c

LEMMA AckSends ==
  ASSUME TypeInv, NEW e \in Endpoint, NEW m \in net, ReceiveAck(e, m)
  PROVE  Sends(e, take_ack(conn[e], m.seq), {}, {})
<1> DEFINE c == take_ack(conn[e], m.seq)
<1>1. conn[e] \in ConnectionType /\ m.seq \in Int
      /\ conn[e].old_sequence_no <= conn[e].send_sequence_no
  BY DEF TypeInv, TypeOK, Datagram, SendStartsBeforeNext
<1>2. c \in ConnectionType
  BY <1>1, TakeAckFields
<1>3. /\ conn' = [conn EXCEPT ![e] = call_rcv_handler(after_send(c))]
      /\ net' \subseteq net \cup {} \cup sent_by(e, c)
      /\ timers' = [timers EXCEPT ![e] = @ \cup {} \cup armed_by(c)]
  BY DeliveredRest DEF ReceiveAck
<1> HIDE DEF c
<1>4. Sends(e, c, {}, {})
  BY <1>2, <1>3, AfterSendSends
<1> QED BY <1>4 DEF c

\* A timeout of a segment that is still waited for may halve the window.
Halves(e) ==
  /\ conn' = [conn EXCEPT ![e] = conn'[e]]
  /\ conn[e].valid /\ conn'[e].valid
  /\ conn'[e].sequence_no = conn[e].sequence_no
  /\ conn'[e].send_sequence_no = conn[e].send_sequence_no
  /\ conn'[e].valid_send_handler = conn[e].valid_send_handler
  /\ conn'[e].congestion_window \in 0..conn[e].congestion_window
  /\ conn'[e].remote_window_size = conn[e].remote_window_size
  /\ timers' = timers

LEMMA SendTimeoutHalves ==
  ASSUME TypeInv, NEW e \in Endpoint, NEW t \in timers[e], SendTimeout(e, t)
  PROVE  Halves(e)
<1> DEFINE c == halve_congestion(conn[e])
           d == inc_timeout(c)
<1>1. conn \in [Endpoint -> ConnectionType] /\ conn[e] \in ConnectionType
  BY DEF TypeInv, TypeOK
<1>2. /\ c \in ConnectionType /\ c.valid = conn[e].valid
      /\ c.sequence_no = conn[e].sequence_no
      /\ c.send_sequence_no = conn[e].send_sequence_no
      /\ c.valid_send_handler = conn[e].valid_send_handler
      /\ c.remote_window_size = conn[e].remote_window_size
  BY <1>1, TimeoutFields
<1>3. c.congestion_window \in 0..conn[e].congestion_window
  BY <1>1, HalveFields
<1>4. conn' = [conn EXCEPT ![e] = d] /\ timers' = timers /\ conn[e].valid
  BY DEF SendTimeout, segment_waits
<1> HIDE DEF c
<1>5. /\ d.valid = c.valid /\ d.sequence_no = c.sequence_no
      /\ d.send_sequence_no = c.send_sequence_no
      /\ d.valid_send_handler = c.valid_send_handler
      /\ d.remote_window_size = c.remote_window_size
  BY <1>2, TimeoutFields
<1>6. d.congestion_window = c.congestion_window
  BY <1>2, CongestionFields
<1> HIDE DEF d
<1>7. conn'[e] = d
  BY <1>1, <1>4
<1> QED BY <1>2, <1>3, <1>4, <1>5, <1>6, <1>7 DEF Halves

\* A FIN's completion leaves a connection that is not valid.
LEMMA HandleFinFlow ==
  ASSUME TypeInv, NEW e \in Endpoint, HandleFin(e)
  PROVE  /\ conn' = [conn EXCEPT ![e] = conn'[e]]
         /\ ~conn'[e].valid /\ conn'[e].sequence_no = -2
         /\ conn'[e].congestion_window = 1 /\ conn'[e].remote_window_size = 0
<1>1. conn \in [Endpoint -> ConnectionType] /\ conn[e] \in ConnectionType
  BY DEF TypeInv, TypeOK
<1>2. conn' = [conn EXCEPT ![e] = reset(conn[e])]
  BY DEF HandleFin
<1>3. conn'[e] = reset(conn[e])
  BY <1>1, <1>2
<1> QED BY <1>1, <1>2, <1>3, ResetFields, CongestionFields

LEMMA SynFlow ==
  ASSUME TypeInv, NEW e \in Endpoint, NEW m \in net, ReceiveSyn(e, m)
  PROVE  /\ conn' = [conn EXCEPT ![e] = conn'[e]]
         /\ ~conn[e].valid /\ ~conn'[e].valid /\ conn'[e].sequence_no = -1
         /\ conn'[e].congestion_window = conn[e].congestion_window
         /\ conn'[e].remote_window_size = m.window
<1>1. conn \in [Endpoint -> ConnectionType] /\ conn[e] \in ConnectionType
  BY DEF TypeInv, TypeOK
<1> DEFINE d == [conn[e] EXCEPT !.sequence_no = m.seq + 1, !.remote_window_size = m.window]
<1>2. conn' = [conn EXCEPT ![e] = d] /\ m.seq = -2 /\ ~conn[e].valid
  BY DEF ReceiveSyn
<1>3. d.valid = conn[e].valid /\ d.sequence_no = -1 /\ d.remote_window_size = m.window
      /\ d.congestion_window = conn[e].congestion_window
  BY <1>1, <1>2 DEF ConnectionType
<1> HIDE DEF d
<1>4. conn'[e] = d
  BY <1>1, <1>2
<1> QED BY <1>2, <1>3, <1>4

-----------------------------------------------------------------------------
(* The invariant behind WindowKnownWhenValid and DatagramFitsWindow          *)

Known(e) == conn[e].remote_window_size # Unset

\* n segments are a single one, or fit the window of e's peer.
CongestionFits(e, n) ==
  n <= MaxCwnd /\ (n <= 1 \/ n * MSS <= Window[Peer(e)])

DataFits(d) ==
  /\ Len(d.data) <= (IF Window[d.dst] < MSS THEN MSS ELSE Window[d.dst])
  /\ Len(d.data) <= MaxCwnd * MSS

\* A connection that has seen a SYN or is established knows its peer's window,
\* and it has not sent anything before.
RecordFlow(e) ==
  /\ conn[e].valid \/ conn[e].sequence_no = -1 => Known(e)
  /\ conn[e].remote_window_size \in {Unset, 0, Window[Peer(e)]}
  /\ ~conn[e].valid => conn[e].congestion_window = 1
  /\ CongestionFits(e, conn[e].congestion_window)

\* A SYN-ACK was armed for a SYN, and the other kinds for what only a peer that
\* knows e's window sends.
TimerFlow(e, t) ==
  /\ t.kind = "synack" => Known(e)
  /\ t.kind \in {"finalack", "ack"} => Known(Peer(e))

DatagramFlow(d) ==
  /\ d.kind \in {"syn", "synack"} => d.window = Window[Peer(d.dst)]
  /\ d.kind \in {"synack", "data"} => Known(Peer(d.dst))
  /\ d.kind = "ack" => Known(d.dst)
  /\ d.kind = "data" => DataFits(d)

FlowInv ==
  /\ \A e \in Endpoint : RecordFlow(e) /\ \A t \in timers[e] : TimerFlow(e, t)
  /\ \A d \in net : DatagramFlow(d)

LEMMA FewerFit ==
  ASSUME NEW e \in Endpoint, NEW n \in Nat, NEW k \in 0..n, CongestionFits(e, n)
  PROVE  CongestionFits(e, k)
<1>1. Window[Peer(e)] \in Nat /\ MSS \in Nat /\ MaxCwnd \in Nat
  BY SegmentAssumption, LimitAssumption, BoundAssumption, PeerOfEndpoint
<1>2. k * MSS <= n * MSS
  BY <1>1, TimesMonotone
<1>3. k * MSS \in Int /\ n * MSS \in Int
  BY <1>1
<1> DEFINE a == k * MSS
           b == n * MSS
<1>4. n <= MaxCwnd /\ (n <= 1 \/ b <= Window[Peer(e)])
  BY DEF CongestionFits
<1>5. a \in Int /\ b \in Int /\ a <= b
  BY <1>2, <1>3
<1> HIDE DEF a, b
<1>6. k <= MaxCwnd /\ (k <= 1 \/ a <= Window[Peer(e)])
  BY <1>1, <1>4, <1>5
<1> QED BY <1>6 DEF a, CongestionFits

LEMMA PackageFits ==
  ASSUME NEW e \in Endpoint, NEW c \in ConnectionType, NEW n \in Int,
         CongestionFits(e, c.congestion_window)
  PROVE  DataFits(Data(e, n, package_message(c)))
<1> DEFINE k == c.congestion_window * MSS
           last == c.write_index + k
           len == Len(c.write_buff)
           m == package_message(c)
<1>1. /\ c.congestion_window \in Nat /\ c.write_index \in Nat /\ c.write_buff \in Seq(Nat)
      /\ MSS \in Nat \ {0} /\ MaxCwnd \in Nat \ {0} /\ Window[Peer(e)] \in Nat
  BY SegmentAssumption, LimitAssumption, BoundAssumption, PeerOfEndpoint DEF ConnectionType
<1>2. k \in Nat /\ len \in Nat
  BY <1>1, LenProperties
<1>3. Len(m) <= k
  <2> DEFINE top == IF last < len THEN last ELSE len
  <2>1. m = SubSeq(c.write_buff, c.write_index + 1, top)
    BY DEF package_message
  <2> HIDE DEF k
  <2>2. top \in Nat /\ top <= c.write_index + k /\ c.write_index + 1 \in Nat
    BY <1>1, <1>2
  <2> HIDE DEF top, m
  <2>3. Len(m) = IF c.write_index + 1 <= top THEN top - (c.write_index + 1) + 1 ELSE 0
    BY <1>1, <2>1, <2>2
  <2> QED BY <1>1, <1>2, <2>2, <2>3
<1>4. k <= MaxCwnd * MSS
  BY <1>1, TimesMonotone DEF CongestionFits
<1>5. k <= IF Window[Peer(e)] < MSS THEN MSS ELSE Window[Peer(e)]
  <2>1. CASE c.congestion_window <= 1
    <3>1. k <= 1 * MSS
      BY <1>1, <2>1, TimesMonotone
    <3>2. k <= MSS
      BY <1>1, <1>2, <3>1
    <3> HIDE DEF k
    <3> QED BY <1>1, <1>2, <3>2
  <2>2. CASE k <= Window[Peer(e)]
    <3> HIDE DEF k
    <3> QED BY <1>1, <1>2, <2>2
  <2> QED BY <2>1, <2>2 DEF CongestionFits
<1>6. Len(m) \in Nat /\ MaxCwnd * MSS \in Nat
  BY <1>1, PackageSlice, LenProperties
<1>7. Data(e, n, m).data = m /\ Data(e, n, m).dst = Peer(e)
  BY DEF Data
<1> DEFINE cap == MaxCwnd * MSS
           d == Data(e, n, m)
<1>8. Len(m) <= k /\ k <= cap /\ cap \in Nat /\ d.data = m /\ d.dst = Peer(e)
  BY <1>3, <1>4, <1>6, <1>7
<1> HIDE DEF k, m, d
<1>9. Len(m) <= (IF Window[Peer(e)] < MSS THEN MSS ELSE Window[Peer(e)]) /\ Len(m) <= cap
  <2> HIDE DEF cap
  <2> QED BY <1>1, <1>2, <1>5, <1>6, <1>8
<1>10. DataFits(d)
  BY <1>8, <1>9 DEF DataFits
<1> QED BY <1>10 DEF d, m

\* What is left to show of a step that changes at most the record of e.
LEMMA FlowFrame ==
  ASSUME TypeInv, TypeInv', FlowInv, NEW e \in Endpoint,
         conn' = [conn EXCEPT ![e] = conn'[e]],
         RecordFlow(e)',
         Known(e) => Known(e)',
         \A f \in Endpoint : \A t \in timers'[f] :
           t \in timers[f] \/ TimerFlow(f, t) \/ TimerFlow(f, t)',
         \A d \in net' : d \in net \/ DatagramFlow(d) \/ DatagramFlow(d)'
  PROVE  FlowInv'
<1>1. conn \in [Endpoint -> ConnectionType] /\ net' \subseteq Datagram
  BY DEF TypeInv, TypeOK
<1>2. \A f \in Endpoint : f # e => conn'[f] = conn[f]
  BY <1>1
<1>3. \A f \in Endpoint : Known(f) => Known(f)'
  BY <1>2 DEF Known
<1>4. \A f \in Endpoint : RecordFlow(f)'
  <2> TAKE f \in Endpoint
  <2>1. CASE f = e
    BY <2>1
  <2>2. CASE f # e
    BY <1>2, <2>2 DEF FlowInv, RecordFlow, Known
  <2> QED BY <2>1, <2>2
<1>5. \A f \in Endpoint : \A t \in timers'[f] : TimerFlow(f, t)'
  <2> TAKE f \in Endpoint
  <2> TAKE t \in timers'[f]
  <2>1. CASE t \in timers[f] \/ TimerFlow(f, t)
    <3>1. TimerFlow(f, t) /\ Peer(f) \in Endpoint
      BY <2>1, PeerOfEndpoint DEF FlowInv
    <3> QED BY <1>3, <3>1 DEF TimerFlow
  <2> QED BY <2>1
<1>6. \A d \in net' : DatagramFlow(d)'
  <2> TAKE d \in net'
  <2>1. CASE d \in net \/ DatagramFlow(d)
    <3>1. DatagramFlow(d) /\ d.dst \in Endpoint /\ Peer(d.dst) \in Endpoint
      BY <1>1, <2>1, PeerOfEndpoint DEF FlowInv, Datagram
    <3> QED BY <1>3, <3>1 DEF DatagramFlow
  <2> QED BY <2>1
<1> QED BY <1>4, <1>5, <1>6 DEF FlowInv

\* A step that leaves the numbers and windows of all records alone.
LEMMA FlowStays ==
  ASSUME TypeInv, TypeInv', FlowInv, \A f \in Endpoint : SameFlow(f),
         \A f \in Endpoint : \A t \in timers'[f] : t \in timers[f] \/ TimerFlow(f, t),
         \A d \in net' : d \in net \/ DatagramFlow(d)
  PROVE  FlowInv'
<1>1. net' \subseteq Datagram
  BY DEF TypeInv, TypeOK
<1>2. \A f \in Endpoint : Known(f)' <=> Known(f)
  BY DEF SameFlow, Known
<1>3. \A f \in Endpoint : RecordFlow(f)'
  BY <1>2 DEF FlowInv, RecordFlow, SameFlow
<1>4. \A f \in Endpoint : \A t \in timers'[f] : TimerFlow(f, t)'
  BY <1>2, PeerOfEndpoint DEF FlowInv, TimerFlow
<1>5. \A d \in net' : DatagramFlow(d) /\ d.dst \in Endpoint
  BY <1>1 DEF FlowInv, Datagram
<1> QED BY <1>2, <1>3, <1>4, <1>5, PeerOfEndpoint DEF FlowInv, DatagramFlow

\* The datagrams and timers of the handshake keep the invariant.
LEMMA ControlFlow ==
  ASSUME NEW e \in Endpoint
  PROVE  /\ DatagramFlow(Syn(e)) /\ DatagramFlow(Fin(e))
         /\ Known(e) => DatagramFlow(SynAck(e))
         /\ \A n : Known(Peer(e)) => DatagramFlow(Ack(e, n))
         /\ \A n : TimerFlow(e, Arm("syn", n)) /\ TimerFlow(e, Arm("send", n))
         /\ \A n : Known(e) => TimerFlow(e, Arm("synack", n))
         /\ \A n : Known(Peer(e)) =>
              TimerFlow(e, Arm("finalack", n)) /\ TimerFlow(e, Arm("ack", n))
<1>1. Peer(Peer(e)) = e /\ Peer(e) \in Endpoint
  BY PeerOfEndpoint
<1> QED BY <1>1 DEF Syn, SynAck, Ack, Fin, Control, Arm, DatagramFlow, TimerFlow

LEMMA SentFlow ==
  ASSUME NEW e \in Endpoint, NEW c \in ConnectionType, NEW n \in Int, Known(e),
         CongestionFits(e, c.congestion_window)
  PROVE  DatagramFlow(Data(e, n, package_message(c)))
<1>1. DataFits(Data(e, n, package_message(c)))
  BY PackageFits
<1>2. Peer(Peer(e)) = e
  BY PeerOfEndpoint
<1>3. /\ Data(e, n, package_message(c)).kind = "data"
      /\ Data(e, n, package_message(c)).dst = Peer(e)
  BY DEF Data
<1> QED BY <1>1, <1>2, <1>3 DEF DatagramFlow

LEMMA NetworkFlow ==
  ASSUME TypeInv, TypeInv', FlowInv, NEW m \in net,
         Lose(m) \/ (m.dst \in Endpoint /\ IgnoreWhileInvalid(m.dst, m))
  PROVE  FlowInv'
<1>1. conn' = conn /\ timers' = timers /\ net' \subseteq net
  BY DeliveredRest DEF Lose, IgnoreWhileInvalid
<1> QED BY <1>1, SameConnFlow, FlowStays

LEMMA CreateKeepsFlow ==
  ASSUME TypeInv, TypeInv', FreshInv, FlowInv, CreateConnection
  PROVE  FlowInv'
<1>1. conn' = conn /\ Client \in Endpoint
  BY CreateFlow DEF Endpoint
<1>2. /\ net' = net \cup {Syn(Client)}
      /\ timers' = [timers EXCEPT ![Client] = @ \cup {Arm("syn", -1)}]
      /\ timers \in [Endpoint -> SUBSET Timer]
  BY DEF CreateConnection, TypeInv, TypeOK
<1>3. \A f \in Endpoint : \A t \in timers'[f] : t \in timers[f] \/ TimerFlow(f, t)
  BY <1>1, <1>2, ControlFlow
<1>4. \A d \in net' : d \in net \/ DatagramFlow(d)
  BY <1>1, <1>2, ControlFlow
<1> QED BY <1>1, <1>3, <1>4, SameConnFlow, FlowStays

LEMMA CloseFlow ==
  ASSUME TypeInv, TypeInv', FlowInv, NEW e \in Endpoint, CloseConnection(e) \/ CloseSocket(e)
  PROVE  FlowInv'
<1>1. conn' = conn /\ timers' = timers /\ net' \subseteq net \cup {Fin(e)}
  BY DEF CloseConnection, CloseSocket
<1> QED BY <1>1, SameConnFlow, ControlFlow, FlowStays

LEMMA AsyncRcvKeepsFlow ==
  ASSUME TypeInv, TypeInv', FlowInv, NEW e \in Endpoint, AsyncRcv(e)
  PROVE  FlowInv'
<1>1. timers' = timers /\ net' = net
  BY DEF AsyncRcv
<1> QED BY <1>1, AsyncRcvFlow, FlowStays

LEMMA FinOrSynKeepsFlow ==
  ASSUME TypeInv, TypeInv', FlowInv, NEW e \in Endpoint, NEW m \in net,
         ReceiveFin(e, m) \/ ReceiveLateSyn(e, m)
  PROVE  FlowInv'
<1>1. timers' = timers /\ net' \subseteq net \cup {Fin(e)}
  BY DeliveredRest DEF ReceiveFin, ReceiveLateSyn
<1> QED BY <1>1, FinOrSynFlow, ControlFlow, FlowStays

LEMMA ConnectionTimeoutKeepsFlow ==
  ASSUME TypeInv, TypeInv', FlowInv, NEW e \in Endpoint, NEW t \in timers[e],
         ConnectionTimeout(e, t)
  PROVE  FlowInv'
<1>1. conn' = conn /\ timers \in [Endpoint -> SUBSET Timer]
  BY DEF ConnectionTimeout, TypeInv, TypeOK
<1>2. DatagramFlow(HandshakeSegment(e, t))
  <2>1. TimerFlow(e, t) /\ t.kind \in {"syn", "synack", "finalack"}
    BY DEF FlowInv, ConnectionTimeout
  <2>2. CASE t.kind = "syn"
    BY <2>2, ControlFlow DEF HandshakeSegment
  <2>3. CASE t.kind = "synack"
    BY <2>1, <2>3, ControlFlow DEF HandshakeSegment, TimerFlow
  <2>4. CASE t.kind = "finalack"
    BY <2>1, <2>4, ControlFlow DEF HandshakeSegment, TimerFlow
  <2> QED BY <2>1, <2>2, <2>3, <2>4
<1>3. /\ net' \subseteq net \cup {HandshakeSegment(e, t)}
      /\ timers' = timers \/ timers' = [timers EXCEPT ![e] = @ \ {t}]
  BY DEF ConnectionTimeout
<1>4. \A f \in Endpoint : \A u \in timers'[f] : u \in timers[f]
  BY <1>1, <1>3
<1> QED BY <1>1, <1>2, <1>3, <1>4, SameConnFlow, FlowStays

LEMMA TimerDroppedKeepsFlow ==
  ASSUME TypeInv, TypeInv', FlowInv, NEW e \in Endpoint, NEW t \in timers[e], TimerDropped(e, t)
  PROVE  FlowInv'
<1>1. /\ conn' = conn /\ timers \in [Endpoint -> SUBSET Timer] /\ net' = net
      /\ timers' = [timers EXCEPT ![e] = @ \ {t}]
  BY DEF TimerDropped, TypeInv, TypeOK
<1>2. \A f \in Endpoint : \A u \in timers'[f] : u \in timers[f]
  BY <1>1
<1> QED BY <1>1, <1>2, SameConnFlow, FlowStays

LEMMA AckTimeoutKeepsFlow ==
  ASSUME TypeInv, TypeInv', FlowInv, NEW e \in Endpoint, NEW t \in timers[e], AckTimeout(e, t)
  PROVE  FlowInv'
<1> DEFINE n == conn[e].sequence_no
<1>1. Known(Peer(e))
  BY DEF FlowInv, TimerFlow, AckTimeout
<1>2. /\ net' \subseteq net \cup {Ack(e, n)} \cup {Fin(e)}
      /\ timers' = [timers EXCEPT ![e] = (@ \ {t}) \cup {Arm("ack", n)}]
      /\ timers \in [Endpoint -> SUBSET Timer]
  BY DEF AckTimeout, fin_at_limit, TypeInv, TypeOK
<1>3. DatagramFlow(Ack(e, n)) /\ DatagramFlow(Fin(e)) /\ TimerFlow(e, Arm("ack", n))
  BY <1>1, ControlFlow
<1> HIDE DEF n
<1>4. \A f \in Endpoint : \A u \in timers'[f] : u \in timers[f] \/ TimerFlow(f, u)
  BY <1>2, <1>3
<1>5. \A d \in net' : d \in net \/ DatagramFlow(d)
  BY <1>2, <1>3
<1> QED BY <1>4, <1>5, AckTimeoutFlow, FlowStays

LEMMA SendTimeoutKeepsFlow ==
  ASSUME TypeInv, TypeInv', FlowInv, NEW e \in Endpoint, NEW t \in timers[e], SendTimeout(e, t)
  PROVE  FlowInv'
<1> DEFINE c == halve_congestion(conn[e])
<1>1. Halves(e)
  BY SendTimeoutHalves
<1>2. conn[e] \in ConnectionType /\ RecordFlow(e) /\ Known(e)
  BY <1>1 DEF Halves, TypeInv, TypeOK, FlowInv, RecordFlow
<1>3. /\ c \in ConnectionType /\ c.congestion_window \in 0..conn[e].congestion_window
      /\ package_seq(c) \in Int
  <2>1. c \in ConnectionType
    BY <1>2, TimeoutFields
  <2> QED BY SMTT(30), <1>2, <2>1, HalveFields DEF package_seq, ConnectionType
<1>4. net' \subseteq net \cup {Fin(e)} \cup {Data(e, package_seq(c), package_message(c))}
  BY DEF SendTimeout, fin_at_limit
<1>5. CongestionFits(e, c.congestion_window) /\ CongestionFits(e, conn'[e].congestion_window)
  <2>1. conn[e].congestion_window \in Nat /\ CongestionFits(e, conn[e].congestion_window)
    BY <1>2 DEF RecordFlow, ConnectionType
  <2> HIDE DEF c
  <2> QED BY <1>1, <1>3, <2>1, FewerFit DEF Halves
<1> HIDE DEF c
<1>6. DatagramFlow(Data(e, package_seq(c), package_message(c)))
  BY <1>2, <1>3, <1>5, SentFlow
<1>7. RecordFlow(e)' /\ Known(e)'
  BY <1>1, <1>2, <1>5 DEF Halves, RecordFlow, Known
<1>8. \A d \in net' : d \in net \/ DatagramFlow(d)
  BY <1>4, <1>6, ControlFlow
<1>9. timers' = timers /\ conn' = [conn EXCEPT ![e] = conn'[e]]
  BY <1>1 DEF Halves
<1> QED BY <1>7, <1>8, <1>9, FlowFrame

LEMMA HandleFinKeepsFlow ==
  ASSUME TypeInv, TypeInv', FlowInv, NEW e \in Endpoint, HandleFin(e)
  PROVE  FlowInv'
<1>1. /\ conn' = [conn EXCEPT ![e] = conn'[e]]
      /\ ~conn'[e].valid /\ conn'[e].sequence_no = -2
      /\ conn'[e].congestion_window = 1 /\ conn'[e].remote_window_size = 0
      /\ timers' = timers /\ net' = net
  BY HandleFinFlow DEF HandleFin
<1>2. MaxCwnd \in Nat \ {0}
  BY LimitAssumption
<1>3. RecordFlow(e)' /\ Known(e)'
  BY <1>1, <1>2 DEF RecordFlow, CongestionFits, Known, Unset
<1> QED BY <1>1, <1>3, FlowFrame

LEMMA SynKeepsFlow ==
  ASSUME TypeInv, TypeInv', FlowInv, NEW e \in Endpoint, NEW m \in net, ReceiveSyn(e, m)
  PROVE  FlowInv'
<1>1. /\ conn' = [conn EXCEPT ![e] = conn'[e]]
      /\ ~conn[e].valid /\ ~conn'[e].valid /\ conn'[e].sequence_no = -1
      /\ conn'[e].congestion_window = conn[e].congestion_window
      /\ conn'[e].remote_window_size = m.window
  BY SynFlow
<1>2. m.window = Window[Peer(e)] /\ Window[Peer(e)] # Unset
  <2>1. m.window = Window[Peer(m.dst)] /\ m.dst = e
    BY DEF ReceiveSyn, Arrival, FlowInv, DatagramFlow
  <2>2. Window[Peer(e)] \in Nat
    BY BoundAssumption, PeerOfEndpoint
  <2> QED BY <2>1, <2>2 DEF Unset
<1>3. RecordFlow(e)' /\ Known(e)'
  BY <1>1, <1>2 DEF RecordFlow, Known, FlowInv
<1>4. /\ net' \subseteq net \cup {SynAck(e)}
      /\ timers' = [timers EXCEPT ![e] = @ \cup {Arm("synack", 0)}]
      /\ timers \in [Endpoint -> SUBSET Timer]
  BY DeliveredRest DEF ReceiveSyn, TypeInv, TypeOK
<1>5. ASSUME NEW d \in net' PROVE d \in net \/ DatagramFlow(d)'
  <2>1. d = SynAck(e) => d.kind = "synack" /\ d.dst = Peer(e) /\ d.window = Window[e]
    BY DEF SynAck, Control
  <2> QED BY <1>3, <1>4, <2>1, PeerOfEndpoint DEF DatagramFlow
<1>6. ASSUME NEW f \in Endpoint, NEW t \in timers'[f] PROVE t \in timers[f] \/ TimerFlow(f, t)'
  <2>1. t = Arm("synack", 0) => t.kind = "synack"
    BY DEF Arm
  <2> QED BY <1>3, <1>4, <2>1 DEF TimerFlow
<1> QED BY <1>1, <1>3, <1>5, <1>6, FlowFrame

\* A step in which send() runs, on a record whose windows fit.
LEMMA SendsKeepsFlow ==
  ASSUME TypeInv, TypeInv', FlowInv, NEW e \in Endpoint, NEW c, NEW x, NEW y, Sends(e, c, x, y),
         c.valid \/ c.sequence_no = -1 => c.remote_window_size # Unset,
         ~c.valid => c.congestion_window = 1,
         c.remote_window_size \in {Unset, 0, Window[Peer(e)]},
         CongestionFits(e, c.congestion_window),
         Known(e) => c.remote_window_size # Unset,
         \A t \in y : TimerFlow(e, t),
         \A d \in x : DatagramFlow(d)
  PROVE  FlowInv'
<1>1. /\ c \in ConnectionType /\ timers \in [Endpoint -> SUBSET Timer]
      /\ conn' = [conn EXCEPT ![e] = conn'[e]]
  BY DEF Sends, TypeInv, TypeOK
<1>2. RecordFlow(e)'
  BY DEF Sends, RecordFlow, Known
<1>3. Known(e) => Known(e)'
  BY DEF Sends, Known
<1>4. ASSUME NEW d \in sent_by(e, c)
      PROVE  DatagramFlow(d)'
  <2>1. c.valid /\ d = Data(e, package_seq(c), package_message(c))
    BY DEF sent_by, sending
  <2>2. package_seq(c) \in Int
    BY <1>1 DEF package_seq, ConnectionType
  <2>3. DataFits(d)
    BY <1>1, <2>1, <2>2, PackageFits
  <2>4. d.kind = "data" /\ d.dst = Peer(e)
    BY <2>1 DEF Data
  <2>5. Known(e)'
    BY <2>1 DEF Sends, Known
  <2> QED BY <2>3, <2>4, <2>5, PeerOfEndpoint DEF DatagramFlow
<1>5. \A t \in armed_by(c) : TimerFlow(e, t)
  BY ControlFlow DEF armed_by
<1>6. /\ net' \subseteq net \cup x \cup sent_by(e, c)
      /\ timers' = [timers EXCEPT ![e] = @ \cup y \cup armed_by(c)]
  BY DEF Sends
<1>7. \A f \in Endpoint : \A t \in timers'[f] : t \in timers[f] \/ TimerFlow(f, t)
  BY <1>1, <1>5, <1>6
<1>8. \A d \in net' : d \in net \/ DatagramFlow(d) \/ DatagramFlow(d)'
  BY <1>4, <1>6
<1> QED BY <1>1, <1>2, <1>3, <1>7, <1>8, FlowFrame

LEMMA AsyncSendKeepsFlow ==
  ASSUME TypeInv, TypeInv', FlowInv, NEW e \in Endpoint, AsyncSend(e)
  PROVE  FlowInv'
<1>1. PICK buff \in Seq(Nat) : Sends(e, set_send_handler(conn[e], buff), {}, {})
  BY AsyncSendSends
<1> DEFINE c == set_send_handler(conn[e], buff)
<1>2. conn[e] \in ConnectionType /\ RecordFlow(e)
  BY DEF TypeInv, TypeOK, FlowInv
<1>3. /\ c.valid = conn[e].valid /\ c.sequence_no = conn[e].sequence_no
      /\ c.congestion_window = conn[e].congestion_window
      /\ c.remote_window_size = conn[e].remote_window_size
  BY <1>2, SetSendHandlerFields
<1> HIDE DEF c
<1>4. Sends(e, c, {}, {})
  BY <1>1 DEF c
<1>5. /\ c.valid \/ c.sequence_no = -1 => c.remote_window_size # Unset
      /\ ~c.valid => c.congestion_window = 1
      /\ c.remote_window_size \in {Unset, 0, Window[Peer(e)]}
      /\ CongestionFits(e, c.congestion_window)
      /\ Known(e) => c.remote_window_size # Unset
  BY <1>2, <1>3 DEF RecordFlow, Known
<1> QED BY <1>4, <1>5, SendsKeepsFlow

LEMMA SynAckKeepsFlow ==
  ASSUME TypeInv, TypeInv', FlowInv, NEW e \in Endpoint, NEW m \in net, ReceiveSynAck(e, m)
  PROVE  FlowInv'
<1> DEFINE b == [conn[e] EXCEPT !.remote_window_size = m.window]
           c == establish(b, m.seq + 1)
<1>1. /\ conn[e] \in ConnectionType /\ RecordFlow(e) /\ DatagramFlow(m)
      /\ ~conn[e].valid /\ m.kind = "synack" /\ m.dst = e /\ m.seq \in Int /\ m.window \in Nat
  BY DEF TypeInv, TypeOK, FlowInv, ReceiveSynAck, Arrival, Datagram
<1>2. m.window = Window[Peer(e)] /\ m.window # Unset /\ Known(Peer(e))
  BY <1>1 DEF DatagramFlow, Unset
<1>3. /\ b \in ConnectionType /\ b.remote_window_size = m.window
      /\ b.congestion_window = conn[e].congestion_window
  <2>1. conn[e] \in ConnectionType /\ m.window \in Int
    BY <1>1
  <2>2. b \in ConnectionType
    BY <2>1, FieldUpdate
  <2> QED BY <2>1, <2>2 DEF ConnectionType
<1>4. /\ c.valid /\ c.remote_window_size = m.window
      /\ c.congestion_window = conn[e].congestion_window
  <2> HIDE DEF b
  <2>1. m.seq + 1 \in Int
    BY <1>1
  <2>2. c.valid
    BY <1>3, <2>1, EstablishFields
  <2>3. /\ c.congestion_window = b.congestion_window
        /\ c.remote_window_size = b.remote_window_size
    BY <1>3, <2>1, CongestionFields
  <2> QED BY <1>3, <2>2, <2>3
<1>5. Sends(e, c, {Ack(e, 0)}, {Arm("finalack", 0)})
  BY SynAckSends
<1> HIDE DEF c
<1>6. CongestionFits(e, c.congestion_window)
  BY <1>1, <1>4 DEF RecordFlow
<1>7. DatagramFlow(Ack(e, 0)) /\ TimerFlow(e, Arm("finalack", 0))
  BY <1>2, ControlFlow
<1> QED BY <1>2, <1>4, <1>5, <1>6, <1>7, SendsKeepsFlow

LEMMA FinalAckKeepsFlow ==
  ASSUME TypeInv, TypeInv', FlowInv, NEW e \in Endpoint, NEW m \in net, ReceiveFinalAck(e, m)
  PROVE  FlowInv'
<1> DEFINE c == establish(conn[e], m.seq)
<1>1. /\ conn[e] \in ConnectionType /\ RecordFlow(e) /\ DatagramFlow(m)
      /\ ~conn[e].valid /\ m.kind = "ack" /\ m.dst = e /\ m.seq \in Int
  BY DEF TypeInv, TypeOK, FlowInv, ReceiveFinalAck, Arrival, Datagram
<1>2. Known(e)
  BY <1>1 DEF DatagramFlow
<1>3. /\ c.valid /\ c.remote_window_size = conn[e].remote_window_size
      /\ c.congestion_window = conn[e].congestion_window
  BY <1>1, EstablishFields, CongestionFields
<1>4. Sends(e, c, {}, {})
  BY FinalAckSends
<1> HIDE DEF c
<1>5. /\ CongestionFits(e, c.congestion_window) /\ c.remote_window_size # Unset
      /\ c.remote_window_size \in {Unset, 0, Window[Peer(e)]}
  BY <1>1, <1>2, <1>3 DEF RecordFlow, Known
<1> QED BY <1>3, <1>4, <1>5, SendsKeepsFlow

LEMMA AckKeepsFlow ==
  ASSUME TypeInv, TypeInv', FlowInv, NEW e \in Endpoint, NEW m \in net, ReceiveAck(e, m)
  PROVE  FlowInv'
<1> DEFINE c == take_ack(conn[e], m.seq)
<1>1. /\ conn[e] \in ConnectionType /\ RecordFlow(e) /\ conn[e].valid /\ m.seq \in Int
      /\ conn[e].old_sequence_no <= conn[e].send_sequence_no
  BY DEF TypeInv, TypeOK, SendStartsBeforeNext, FlowInv, ReceiveAck, Arrival, Datagram
<1>2. /\ c.valid /\ c.remote_window_size = conn[e].remote_window_size
      /\ c.congestion_window \in Nat
      /\ \/ c.congestion_window = conn[e].congestion_window
         \/ /\ c.congestion_window <= MaxCwnd
            /\ c.congestion_window * MSS <= conn[e].remote_window_size
            /\ c.congestion_window = conn[e].congestion_window + 1
  <2>0. /\ conn[e] \in ConnectionType /\ m.seq \in Int
        /\ conn[e].old_sequence_no <= conn[e].send_sequence_no
    BY <1>1
  <2>1. PICK d : d = c /\ d = take_ack(conn[e], m.seq)
    OBVIOUS
  <2> HIDE DEF c
  <2>2. d.valid = conn[e].valid /\ d.remote_window_size = conn[e].remote_window_size
    BY <2>0, <2>1, TakeAckFields
  <2>3. /\ d.congestion_window \in Nat
        /\ \/ d.congestion_window = conn[e].congestion_window
           \/ /\ d.congestion_window = conn[e].congestion_window + 1
              /\ d.congestion_window <= MaxCwnd
              /\ d.congestion_window * MSS <= conn[e].remote_window_size
    BY <2>0, <2>1, TakeAckWindow
  <2> QED BY <1>1, <2>1, <2>2, <2>3
<1>3. Sends(e, c, {}, {})
  BY AckSends
<1> HIDE DEF c
<1>4. CongestionFits(e, c.congestion_window)
  <2>1. CASE c.congestion_window = conn[e].congestion_window
    BY <1>1, <2>1 DEF RecordFlow
  <2>2. CASE /\ c.congestion_window <= MaxCwnd
             /\ c.congestion_window * MSS <= conn[e].remote_window_size
             /\ c.congestion_window = conn[e].congestion_window + 1
    <3>1. /\ conn[e].congestion_window \in Nat /\ Window[Peer(e)] \in Nat
          /\ MSS \in Nat \ {0} /\ conn[e].remote_window_size \in {-1, 0, Window[Peer(e)]}
      BY <1>1, SegmentAssumption, BoundAssumption, PeerOfEndpoint
         DEF RecordFlow, ConnectionType, Unset
    <3> DEFINE k == c.congestion_window * MSS
    <3>2. 1 * MSS <= k
      BY <1>2, <2>2, <3>1, TimesMonotone
    <3>3. k \in Nat /\ k >= 1
      BY <1>2, <3>1, <3>2
    <3>4. k <= conn[e].remote_window_size
      BY <2>2
    <3> HIDE DEF k
    <3>5. k <= Window[Peer(e)]
      BY <3>1, <3>3, <3>4
    <3> QED BY <2>2, <3>5 DEF k, CongestionFits
  <2> QED BY <1>2, <2>1, <2>2
<1>5. /\ c.remote_window_size # Unset
      /\ c.remote_window_size \in {Unset, 0, Window[Peer(e)]}
  BY <1>1, <1>2 DEF RecordFlow, Known
<1> QED BY <1>2, <1>3, <1>4, <1>5, SendsKeepsFlow

\* A step in which data is taken into a record of e that is valid.
LEMMA TakesKeepsFlow ==
  ASSUME TypeInv, TypeInv', FlowInv, NEW e \in Endpoint, NEW c, NEW taken, NEW k,
         Takes(e, c, taken, k), c.valid,
         c.remote_window_size = conn[e].remote_window_size,
         c.congestion_window = conn[e].congestion_window,
         Known(e), Known(Peer(e))
  PROVE  FlowInv'
<1>1. RecordFlow(e)' /\ Known(e)'
  <2>1. RecordFlow(e)
    BY DEF FlowInv
  <2> QED BY <2>1 DEF Takes, RecordFlow, Known
<1>2. timers \in [Endpoint -> SUBSET Timer] /\ k \in Nat
  BY DEF Takes, TypeInv, TypeOK
<1>3. DatagramFlow(Ack(e, c.sequence_no + k)) /\ TimerFlow(e, Arm("ack", c.sequence_no + k))
  BY ControlFlow
<1>4. \A f \in Endpoint : \A t \in timers'[f] : t \in timers[f] \/ TimerFlow(f, t)
  BY <1>2, <1>3 DEF Takes
<1>5. \A d \in net' : d \in net \/ DatagramFlow(d)
  BY <1>2, <1>3 DEF Takes
<1>6. conn' = [conn EXCEPT ![e] = conn'[e]]
  BY DEF Takes
<1> QED BY <1>1, <1>4, <1>5, <1>6, FlowFrame

LEMMA DataKeepsFlow ==
  ASSUME TypeInv, TypeInv', FlowInv, NEW e \in Endpoint, NEW m \in net,
         ReceiveData(e, m) \/ ReceiveFirstData(e, m)
  PROVE  FlowInv'
<1>1. /\ conn[e] \in ConnectionType /\ RecordFlow(e) /\ DatagramFlow(m)
      /\ m.kind = "data" /\ m.dst = e /\ m.seq \in Int /\ accepted[e] \in Nat
  BY DEF TypeInv, TypeOK, FlowInv, ReceiveData, ReceiveFirstData, Arrival, Datagram
<1>2. Known(Peer(e))
  BY <1>1 DEF DatagramFlow
<1>3. CASE ReceiveData(e, m)
  <2>1. conn[e].valid /\ HandleData(e, m, conn[e], accepted[e], delivered[e])
    BY <1>3 DEF ReceiveData, Arrival
  <2>2. PICK k : Takes(e, conn[e], accepted[e], k)
    BY <1>1, <2>1, HandleDataTakes
  <2>3. Known(e)
    BY <1>1, <2>1 DEF RecordFlow
  <2> QED BY <1>2, <2>1, <2>2, <2>3, TakesKeepsFlow
<1>4. CASE ReceiveFirstData(e, m)
  <2> DEFINE c == establish(conn[e], m.seq)
  <2>1. conn[e].sequence_no = -1 /\ HandleData(e, m, c, 0, <<>>)
    BY <1>4 DEF ReceiveFirstData
  <2>2. /\ c \in ConnectionType /\ c.valid
        /\ c.remote_window_size = conn[e].remote_window_size
        /\ c.congestion_window = conn[e].congestion_window
    BY <1>1, EstablishFields, CongestionFields
  <2> HIDE DEF c
  <2>3. PICK k : Takes(e, c, 0, k)
    BY <2>1, <2>2, HandleDataTakes
  <2>4. Known(e)
    BY <1>1, <2>1 DEF RecordFlow
  <2> QED BY <1>2, <2>2, <2>3, <2>4, TakesKeepsFlow
<1> QED BY <1>3, <1>4

-----------------------------------------------------------------------------
LEMMA FlowInit == Init => FlowInv
<1> SUFFICES ASSUME Init PROVE FlowInv
  OBVIOUS
<1>1. \A e \in Endpoint : conn[e] = NewConnection /\ timers[e] = {}
  BY DEF Init
<1>2. net = {} /\ MaxCwnd \in Nat \ {0}
  BY LimitAssumption DEF Init
<1>3. \A e \in Endpoint : RecordFlow(e)
  BY <1>1, <1>2 DEF RecordFlow, CongestionFits, Known, NewConnection, Unset
<1> QED BY <1>1, <1>2, <1>3 DEF FlowInv

LEMMA FlowStep == TypeInv /\ TypeInv' /\ FreshInv /\ FlowInv /\ [Next]_vars => FlowInv'
<1> SUFFICES ASSUME TypeInv, TypeInv', FreshInv, FlowInv, [Next]_vars
             PROVE  FlowInv'
  OBVIOUS
<1>1. CASE CreateConnection
  BY <1>1, CreateKeepsFlow
<1>2. ASSUME NEW e \in Endpoint, Application(e)
      PROVE  FlowInv'
  BY <1>2, AsyncSendKeepsFlow, AsyncRcvKeepsFlow, CloseFlow DEF Application
<1>3. ASSUME NEW e \in Endpoint, HandleFin(e)
      PROVE  FlowInv'
  BY <1>3, HandleFinKeepsFlow
<1>4. ASSUME NEW e \in Endpoint, NEW t \in timers[e], Fires(e, t)
      PROVE  FlowInv'
  BY <1>4, ConnectionTimeoutKeepsFlow, SendTimeoutKeepsFlow, AckTimeoutKeepsFlow,
     TimerDroppedKeepsFlow DEF Fires
<1>5. ASSUME NEW m \in net, Receive(m.dst, m)
      PROVE  FlowInv'
  <2>1. m.dst \in Endpoint
    BY DEF TypeInv, TypeOK, Datagram
  <2> QED BY <1>5, <2>1, SynKeepsFlow, SynAckKeepsFlow, FinalAckKeepsFlow, DataKeepsFlow,
             NetworkFlow, AckKeepsFlow, FinOrSynKeepsFlow DEF Receive
<1>6. ASSUME NEW m \in net, Lose(m)
      PROVE  FlowInv'
  BY <1>6, NetworkFlow
<1>7. CASE UNCHANGED vars
  <2>1. conn' = conn /\ timers' = timers /\ net' = net
    BY <1>7 DEF vars
  <2> QED BY <2>1, SameConnFlow, FlowStays
<1> QED BY <1>1, <1>2, <1>3, <1>4, <1>5, <1>6, <1>7 DEF Next

LEMMA FlowHolds == Spec => []FlowInv
<1>1. IInv /\ IInv' /\ FlowInv /\ [Next]_vars => FlowInv'
  BY FlowStep DEF IInv, TypeInv
<1> QED BY <1>1, FlowInit, StreamInvariant, PTL DEF Spec

\* inc_congestion never reads a remote window that no segment has set: a
\* connection becomes valid only after both ends have seen a SYN or SYN-ACK.
THEOREM WindowKnown == Spec => []WindowKnownWhenValid
<1>1. FlowInv => WindowKnownWhenValid
  BY DEF FlowInv, RecordFlow, Known, WindowKnownWhenValid
<1> QED BY <1>1, FlowHolds, PTL

\* No datagram in flight carries more than its destination advertised, or than
\* fits the receive buffer, but for a single segment.
THEOREM FlowControl == Spec => []DatagramFitsWindow
<1>1. FlowInv => DatagramFitsWindow
  BY DEF FlowInv, DatagramFlow, DataFits, DatagramFitsWindow
<1> QED BY <1>1, FlowHolds, PTL

=============================================================================
