--------------------------- MODULE Delivery_proof ---------------------------
(***************************************************************************)
(* The stream invariant of RtpInvariant is inductive, and with it Rtp      *)
(* delivers a prefix of what was written and completes no send early, for  *)
(* every value of the constants.                                           *)
(***************************************************************************)
EXTENDS Rtp_proof

-----------------------------------------------------------------------------
(* The sending half *)

\* The datagram that send() builds from a connection sending up to w.
SliceOf(d, e, w) ==
  /\ d.kind = "data" /\ d.dst = Peer(e)
  /\ d.data = Run(d.seq, Len(d.data))
  /\ 0 <= d.seq /\ d.seq + Len(d.data) <= w

LEMMA PackageIsSlice ==
  ASSUME NEW e \in Endpoint, NEW w \in Nat, NEW c \in ConnectionType,
         c.valid_send_handler, SendsUpTo(c, w), c.send_sequence_no \in Nat,
         package_message(c) # <<>>
  PROVE  /\ SliceOf(Data(e, package_seq(c), package_message(c)), e, w)
         /\ c.send_sequence_no < w
<1> DEFINE m == package_message(c)
           o == c.old_sequence_no
           i == c.write_index
           d == Data(e, o + i, m)
<1>1. /\ m \in Seq(Nat) /\ m # <<>>
      /\ ~(i >= Len(c.write_buff))
      /\ i + Len(m) <= Len(c.write_buff)
      /\ \A j \in 1..Len(m) : m[j] = c.write_buff[i + j]
  BY PackageSlice
<1>2. /\ o \in Nat /\ i \in Nat /\ Len(c.write_buff) \in Nat /\ Len(m) \in Nat
      /\ w = o + Len(c.write_buff) /\ c.send_sequence_no = o + i
  BY <1>1 DEF SendsUpTo, ConnectionType
<1>3. c.write_buff = Run(o, Len(c.write_buff))
  BY DEF SendsUpTo
<1>4. ASSUME NEW j \in 1..Len(m)
      PROVE  m[j] = (o + i) + j
  <2>1. i + j \in 1..Len(c.write_buff)
    BY <1>1, <1>2
  <2>2. Run(o, Len(c.write_buff))[i + j] = o + (i + j)
    <3> DEFINE n == Len(c.write_buff)
               x == i + j
    <3>1. n \in Nat /\ o \in Nat /\ x \in 1..n
      BY <1>2, <2>1
    <3> HIDE DEF n, x, o, i
    <3>2. Run(o, n)[x] = o + x
      BY <3>1, RunIsSeq
    <3> QED BY <3>2 DEF n, x
  <2>3. m[j] = o + (i + j)
    BY <1>1, <1>3, <2>2
  <2> QED BY <1>2, <2>3
<1> HIDE DEF m, o, i
<1>5. m = Run(o + i, Len(m))
  <2> DEFINE k == o + i
  <2>1. k \in Nat /\ \A j \in 1..Len(m) : m[j] = k + j
    BY <1>2, <1>4
  <2> HIDE DEF k
  <2>2. m = Run(k, Len(m))
    BY <1>1, <1>2, <2>1, IsRun
  <2> QED BY <2>2 DEF k
<1>6. SliceOf(d, e, w)
  <2>1. d.kind = "data" /\ d.dst = Peer(e) /\ d.seq = o + i /\ d.data = m
    BY DEF Data
  <2>2. 0 <= o + i /\ (o + i) + Len(m) <= w
    BY <1>1, <1>2
  <2> HIDE DEF d
  <2> QED BY <1>5, <2>1, <2>2 DEF SliceOf
<1>7. c.send_sequence_no < w
  BY <1>1, <1>2
<1>8. d = Data(e, package_seq(c), package_message(c))
  BY DEF package_seq, m, o, i
<1> QED BY <1>6, <1>7, <1>8

LEMMA SendStep ==
  ASSUME NEW e \in Endpoint, NEW w \in Nat, NEW c \in ConnectionType,
         c.valid, SendsUpTo(c, w), c.send_sequence_no \in Nat,
         NEW d, d = after_send(c)
  PROVE  /\ SendsUpTo(d, w)
         /\ \A m \in sent_by(e, c) : SliceOf(m, e, w)
         /\ \A t \in armed_by(c) :
              t.kind = "send" /\ t.next = d.send_sequence_no /\ t.next < w
<1>1. /\ d \in ConnectionType
      /\ d.send_sequence_no = c.send_sequence_no
      /\ d.write_buff = c.write_buff /\ d.write_index = c.write_index
      /\ d.valid_send_handler <=>
           /\ c.valid_send_handler
           /\ c.valid => c.send_sequence_no < Len(c.write_buff) + c.old_sequence_no
      /\ d.valid_send_handler => d.old_sequence_no = c.old_sequence_no
  BY AfterSendFields
<1>2. c.old_sequence_no \in Int /\ Len(c.write_buff) \in Nat /\ c.valid_send_handler \in BOOLEAN
      /\ c.send_sequence_no \in Nat
  BY DEF ConnectionType
<1>3. c.valid_send_handler => w = Len(c.write_buff) + c.old_sequence_no
  BY <1>2 DEF SendsUpTo
<1>5. SendsUpTo(d, w)
  <2>1. CASE d.valid_send_handler
    BY <1>1, <2>1 DEF SendsUpTo
  <2>2. CASE ~d.valid_send_handler
    <3>1. c.send_sequence_no = w
      <4>1. CASE c.valid_send_handler
        <5>1. c.send_sequence_no >= w /\ c.send_sequence_no <= w
          BY <1>1, <1>2, <1>3, <2>2, <4>1 DEF SendsUpTo
        <5> QED BY <1>2, <5>1
      <4>2. CASE ~c.valid_send_handler
        BY <4>2 DEF SendsUpTo
      <4> QED BY <4>1, <4>2
    <3> QED BY <1>1, <2>2, <3>1 DEF SendsUpTo
  <2> QED BY <2>1, <2>2
<1>6. ASSUME NEW m \in sent_by(e, c)
      PROVE  SliceOf(m, e, w)
  BY <1>6, PackageIsSlice DEF sent_by, sending
<1>7. ASSUME NEW t \in armed_by(c)
      PROVE  t.kind = "send" /\ t.next = d.send_sequence_no /\ t.next < w
  <2>1. t = Arm("send", c.send_sequence_no) /\ c.valid_send_handler /\ package_message(c) # <<>>
    BY DEF armed_by, sending
  <2>2. c.send_sequence_no < w
    BY <2>1, PackageIsSlice
  <2> QED BY <1>1, <2>1, <2>2 DEF Arm
<1> QED BY <1>5, <1>6, <1>7

-----------------------------------------------------------------------------
(* A step of endpoint e: what is left to show of it *)

\* The datagrams e puts on the wire in this step.
LEMMA Frame ==
  ASSUME TypeInv, TypeInv', StreamInv, NEW e \in Endpoint,
         \A f \in Endpoint : f # e =>
           /\ conn'[f] = conn[f] /\ timers'[f] = timers[f]
           /\ delivered'[f] = delivered[f] /\ accepted'[f] = accepted[f]
           /\ written'[f] = written[f] /\ life'[f] = life[f],
         accepted[e] <= accepted'[e], written[e] <= written'[e],
         ReceiverInv(e)', SenderInv(e)', UnusedInv(e)', TimerInv(e)',
         \A d \in net' : d \in net \/ NetInv(d)'
  PROVE  StreamInv'
<1>1. /\ \A f \in Endpoint : /\ accepted[f] \in Nat /\ accepted'[f] \in Nat
                             /\ written[f] \in Nat /\ written'[f] \in Nat
                             /\ accepted[f] <= accepted'[f] /\ written[f] <= written'[f]
  <2>1. \A f \in Endpoint : /\ accepted[f] \in Nat /\ accepted'[f] \in Nat
                            /\ written[f] \in Nat /\ written'[f] \in Nat
    BY DEF TypeInv, TypeOK
  <2> QED BY <2>1
<1>2. ASSUME NEW f \in Endpoint, f # e
      PROVE  ReceiverInv(f)' /\ SenderInv(f)' /\ UnusedInv(f)' /\ TimerInv(f)'
  <2>1. Peer(f) \in Endpoint
    BY PeerOfEndpoint
  <2>2. ReceiverInv(f) /\ SenderInv(f) /\ UnusedInv(f) /\ TimerInv(f)
    BY DEF StreamInv
  <2>3. ReceiverInv(f)'
    <3>1. accepted[f] <= written'[Peer(f)]
      BY <1>1, <2>1, <2>2 DEF ReceiverInv
    <3> QED BY <1>2, <2>2, <3>1 DEF ReceiverInv
  <2>4. SenderInv(f)'
    <3>1. SUFFICES ASSUME conn[f].valid
                   PROVE  /\ conn[f].send_sequence_no \in 0..accepted'[Peer(f)]
                          /\ SendsUpTo(conn[f], written[f])
      BY <1>2 DEF SenderInv
    <3> QED BY <1>1, <2>1, <2>2, <3>1 DEF SenderInv
  <2>5. UnusedInv(f)'
    BY <1>2, <2>2 DEF UnusedInv
  <2>6. TimerInv(f)'
    BY <1>2, <2>2 DEF TimerInv
  <2> QED BY <2>3, <2>4, <2>5, <2>6
<1>3. ASSUME NEW d \in net'
      PROVE  NetInv(d)'
  <2>1. CASE d \in net
    <3> DEFINE p == Peer(d.dst)
    <3>1. NetInv(d) /\ d \in Datagram
      BY <2>1 DEF StreamInv, TypeInv, TypeOK
    <3>2. p \in Endpoint /\ d.seq \in Int /\ Len(d.data) \in Nat
      BY <3>1, PeerOfEndpoint DEF Datagram
    <3>3. accepted[p] <= accepted'[p] /\ written[p] <= written'[p]
          /\ accepted[p] \in Nat /\ accepted'[p] \in Nat
          /\ written[p] \in Nat /\ written'[p] \in Nat
      BY <1>1, <3>2
    <3>4. d.kind = "data" => d.seq + Len(d.data) <= written'[p]
      BY <3>1, <3>2, <3>3 DEF NetInv
    <3>5. d.kind = "ack" => d.seq \in 0..accepted'[p]
      BY <3>1, <3>2, <3>3 DEF NetInv
    <3> QED BY <3>1, <3>4, <3>5 DEF NetInv
  <2> QED BY <1>3, <2>1
<1> QED BY <1>2, <1>3 DEF StreamInv

LEMMA SliceNetInv ==
  ASSUME NEW e \in Endpoint, NEW d, SliceOf(d, e, written'[e])
  PROVE  NetInv(d)'
BY PeerOfEndpoint DEF SliceOf, NetInv

-----------------------------------------------------------------------------
(* Steps that leave both halves of the stream alone *)

\* Every field the invariant speaks of; before the connection is valid its
\* sequence number counts handshake segments.
SameStream(c, d) ==
  /\ d.valid = c.valid /\ (c.valid => d.sequence_no = c.sequence_no)
  /\ d.rcv_window = c.rcv_window
  /\ d.write_buff = c.write_buff /\ d.valid_send_handler = c.valid_send_handler
  /\ d.old_sequence_no = c.old_sequence_no /\ d.write_index = c.write_index
  /\ d.send_sequence_no = c.send_sequence_no

LEMMA QuietStep ==
  ASSUME TypeInv, TypeInv', StreamInv, UNCHANGED history,
         \A f \in Endpoint : SameStream(conn[f], conn'[f]),
         \A f \in Endpoint : \A t \in timers'[f] : t \in timers[f] \/ t.kind # "send",
         \A d \in net' : d \in net \/ NetInv(d)
  PROVE  StreamInv'
<1>1. written' = written /\ accepted' = accepted /\ delivered' = delivered /\ life' = life
  BY DEF history
<1>2. ASSUME NEW f \in Endpoint
      PROVE  ReceiverInv(f)' /\ SenderInv(f)' /\ UnusedInv(f)' /\ TimerInv(f)'
  <2>1. ReceiverInv(f) /\ SenderInv(f) /\ UnusedInv(f) /\ TimerInv(f)
    BY DEF StreamInv
  <2>2. SameStream(conn[f], conn'[f])
    OBVIOUS
  <2>3. ReceiverInv(f)'
    BY <1>1, <2>1, <2>2 DEF ReceiverInv, SameStream
  <2>4. SenderInv(f)'
    BY <1>1, <2>1, <2>2 DEF SenderInv, SendsUpTo, SameStream
  <2>5. UnusedInv(f)'
    BY <1>1, <2>1, <2>2 DEF UnusedInv, SameStream
  <2>6. TimerInv(f)'
    BY <1>1, <2>1, <2>2 DEF TimerInv, SameStream
  <2> QED BY <2>3, <2>4, <2>5, <2>6
<1>3. ASSUME NEW d \in net' PROVE NetInv(d)'
  <2>1. NetInv(d)
    BY <1>3 DEF StreamInv
  <2> QED BY <1>1, <2>1 DEF NetInv
<1> QED BY <1>2, <1>3 DEF StreamInv

LEMMA ControlNetInv ==
  ASSUME NEW e \in Endpoint
  PROVE  /\ NetInv(Syn(e)) /\ NetInv(SynAck(e)) /\ NetInv(Fin(e))
         /\ \A n : n \in 0..accepted[e] => NetInv(Ack(e, n))
BY PeerOfEndpoint DEF Syn, SynAck, Fin, Ack, Control, NetInv

LEMMA SameConn ==
  ASSUME TypeInv, NEW e \in Endpoint, NEW d, SameStream(conn[e], d),
         conn' = [conn EXCEPT ![e] = d]
  PROVE  \A f \in Endpoint : SameStream(conn[f], conn'[f])
BY DEF TypeInv, TypeOK, SameStream

LEMMA CloseStream ==
  ASSUME TypeInv, TypeInv', StreamInv, NEW e \in Endpoint,
         CloseConnection(e) \/ CloseSocket(e)
  PROVE  StreamInv'
<1>1. conn' = conn /\ timers' = timers /\ UNCHANGED history
  BY DEF CloseConnection, CloseSocket
<1>2. \A d \in net' : d \in net \/ NetInv(d)
  BY ControlNetInv DEF CloseConnection, CloseSocket
<1> QED BY <1>1, <1>2, QuietStep DEF SameStream

LEMMA IgnoreStream ==
  ASSUME TypeInv, TypeInv', StreamInv, NEW e \in Endpoint, NEW m \in net,
         IgnoreWhileInvalid(e, m)
  PROVE  StreamInv'
<1>1. conn' = conn /\ timers' = timers /\ UNCHANGED history
  BY DEF IgnoreWhileInvalid
<1>2. \A d \in net' : d \in net
  BY DEF IgnoreWhileInvalid, Delivered
<1> QED BY <1>1, <1>2, QuietStep DEF SameStream

LEMMA LoseStream ==
  ASSUME TypeInv, TypeInv', StreamInv, NEW m \in net, Lose(m)
  PROVE  StreamInv'
<1>1. conn' = conn /\ timers' = timers /\ UNCHANGED history /\ net' \subseteq net
  BY DEF Lose
<1> QED BY <1>1, QuietStep DEF SameStream

LEMMA TimersShrink ==
  ASSUME TypeInv, NEW e \in Endpoint, NEW S,
         timers' = [timers EXCEPT ![e] = S],
         \A t \in S : t \in timers[e] \/ t.kind # "send"
  PROVE  \A f \in Endpoint : \A t \in timers'[f] : t \in timers[f] \/ t.kind # "send"
BY DEF TypeInv, TypeOK

LEMMA TimerDroppedStream ==
  ASSUME TypeInv, TypeInv', StreamInv, NEW e \in Endpoint, NEW t \in timers[e],
         TimerDropped(e, t)
  PROVE  StreamInv'
<1>1. conn' = conn /\ UNCHANGED history /\ net' = net
      /\ timers' = [timers EXCEPT ![e] = timers[e] \ {t}]
  BY DEF TimerDropped
<1>2. \A f \in Endpoint : \A u \in timers'[f] : u \in timers[f] \/ u.kind # "send"
  BY <1>1, TimersShrink
<1> QED BY <1>1, <1>2, QuietStep DEF SameStream

LEMMA ConnectionTimeoutStream ==
  ASSUME TypeInv, TypeInv', StreamInv, NEW e \in Endpoint, NEW t \in timers[e],
         ConnectionTimeout(e, t)
  PROVE  StreamInv'
<1>1. conn' = conn /\ UNCHANGED history
      /\ t.kind \in {"syn", "synack", "finalack"}
      /\ \/ net' = net \cup {HandshakeSegment(e, t)} /\ timers' = timers
         \/ net' = net /\ timers' = [timers EXCEPT ![e] = timers[e] \ {t}]
  BY DEF ConnectionTimeout
<1>2. NetInv(HandshakeSegment(e, t))
  <2>1. accepted[e] \in Nat
    BY DEF TypeInv, TypeOK
  <2>2. NetInv(Syn(e)) /\ NetInv(SynAck(e)) /\ NetInv(Ack(e, 0))
    BY <2>1, ControlNetInv
  <2>3. HandshakeSegment(e, t) \in {Syn(e), SynAck(e), Ack(e, 0)}
    BY <1>1 DEF HandshakeSegment
  <2> QED BY <2>2, <2>3
<1>3. \A d \in net' : d \in net \/ NetInv(d)
  BY <1>1, <1>2
<1>4. \A f \in Endpoint : \A u \in timers'[f] : u \in timers[f] \/ u.kind # "send"
  BY <1>1, TimersShrink
<1> QED BY <1>1, <1>3, <1>4, QuietStep DEF SameStream

LEMMA AckTimeoutStream ==
  ASSUME TypeInv, TypeInv', StreamInv, NEW e \in Endpoint, NEW t \in timers[e],
         AckTimeout(e, t)
  PROVE  StreamInv'
<1> DEFINE d == inc_timeout(conn[e])
<1>1. conn[e] \in ConnectionType /\ conn[e].valid /\ conn' = [conn EXCEPT ![e] = d]
      /\ UNCHANGED history
  BY DEF AckTimeout, ack_waits, TypeInv, TypeOK
<1>2. SameStream(conn[e], d)
  BY <1>1, TimeoutFields DEF SameStream
<1>3. \A f \in Endpoint : SameStream(conn[f], conn'[f])
  <2> HIDE DEF d
  <2> QED BY <1>1, <1>2, SameConn
<1>4. \A f \in Endpoint : \A u \in timers'[f] : u \in timers[f] \/ u.kind # "send"
  <2> DEFINE S == (timers[e] \ {t}) \cup {Arm("ack", conn[e].sequence_no)}
  <2>1. timers' = [timers EXCEPT ![e] = S]
    BY DEF AckTimeout
  <2>2. \A u \in S : u \in timers[e] \/ u.kind # "send"
    BY DEF Arm
  <2> HIDE DEF S
  <2> QED BY <2>1, <2>2, TimersShrink
<1>5. \A u \in net' : u \in net \/ NetInv(u)
  <2>1. conn[e].sequence_no \in 0..accepted[e]
    <3>1. conn[e].sequence_no = accepted[e] /\ accepted[e] \in Nat
      BY <1>1 DEF StreamInv, ReceiverInv, TypeInv, TypeOK
    <3> QED BY <3>1
  <2>2. NetInv(Ack(e, conn[e].sequence_no)) /\ NetInv(Fin(e))
    BY <2>1, ControlNetInv
  <2>3. net' = net \cup {Ack(e, conn[e].sequence_no)} \cup fin_at_limit(e, conn[e])
    BY DEF AckTimeout
  <2> QED BY <2>2, <2>3 DEF fin_at_limit
<1> QED BY <1>1, <1>3, <1>4, <1>5, QuietStep

LEMMA SendTimeoutStream ==
  ASSUME TypeInv, TypeInv', StreamInv, NEW e \in Endpoint, NEW t \in timers[e],
         SendTimeout(e, t)
  PROVE  StreamInv'
<1> DEFINE c == halve_congestion(conn[e])
           d == inc_timeout(c)
<1>1. conn[e] \in ConnectionType /\ conn[e].valid /\ conn' = [conn EXCEPT ![e] = d]
      /\ UNCHANGED history /\ timers' = timers /\ written[e] \in Nat
      /\ t.kind = "send" /\ conn[e].send_sequence_no <= t.next /\ t.next \in Int
  BY DEF SendTimeout, segment_waits, TypeInv, TypeOK, Timer
<1>2. c \in ConnectionType /\ SameStream(conn[e], c)
  BY <1>1, TimeoutFields DEF SameStream
<1>3. SameStream(conn[e], d)
  <2> HIDE DEF c
  <2>1. SameStream(c, d)
    BY <1>2, TimeoutFields DEF SameStream
  <2> QED BY <1>2, <2>1 DEF SameStream
<1>4. \A f \in Endpoint : SameStream(conn[f], conn'[f])
  <2> HIDE DEF d
  <2> QED BY <1>1, <1>3, SameConn
<1>5. /\ SenderInv(e) /\ TimerInv(e) /\ ReceiverInv(Peer(e))
      /\ accepted[Peer(e)] \in Nat
  BY PeerOfEndpoint DEF StreamInv, TypeInv, TypeOK
<1>6. c.valid_send_handler /\ SendsUpTo(c, written[e]) /\ c.send_sequence_no \in Nat
  <2>1. SendsUpTo(conn[e], written[e]) /\ conn[e].send_sequence_no \in 0..accepted[Peer(e)]
    BY <1>1, <1>5 DEF SenderInv
  <2>2. t.next < written[e] /\ conn[e].send_sequence_no \in Nat
    BY <1>1, <1>5, <2>1 DEF TimerInv
  <2>3. conn[e].send_sequence_no # written[e]
    BY <1>1, <2>2
  <2>4. conn[e].valid_send_handler
    BY <2>1, <2>3 DEF SendsUpTo
  <2> HIDE DEF c
  <2> QED BY <1>2, <2>1, <2>2, <2>4 DEF SameStream, SendsUpTo
<1>7. \A u \in net' : u \in net \/ NetInv(u)
  <2> DEFINE u == Data(e, package_seq(c), package_message(c))
  <2>1. net' = net \cup fin_at_limit(e, c)
               \cup (IF package_message(c) # <<>> THEN {u} ELSE {})
    BY DEF SendTimeout
  <2>2. NetInv(Fin(e))
    BY ControlNetInv
  <2>3. package_message(c) # <<>> => NetInv(u)
    <3> HIDE DEF c, u
    <3>1. SUFFICES ASSUME package_message(c) # <<>> PROVE NetInv(u)
      OBVIOUS
    <3>2. SliceOf(u, e, written[e])
      BY <1>1, <1>2, <1>6, <3>1, PackageIsSlice DEF u
    <3> QED BY <3>2, PeerOfEndpoint DEF SliceOf, NetInv
  <2> HIDE DEF u, c
  <2> QED BY <2>1, <2>2, <2>3 DEF fin_at_limit
<1> QED BY <1>1, <1>4, <1>7, QuietStep

LEMMA ReceiveSynStream ==
  ASSUME TypeInv, TypeInv', StreamInv, NEW e \in Endpoint, NEW m \in net,
         ReceiveSyn(e, m)
  PROVE  StreamInv'
<1> DEFINE c == [conn[e] EXCEPT !.sequence_no = m.seq + 1]
           d == [c EXCEPT !.remote_window_size = m.window]
<1>1. /\ conn[e] \in ConnectionType /\ ~conn[e].valid /\ UNCHANGED history
      /\ conn' = [conn EXCEPT ![e] = d]
      /\ timers' = [timers EXCEPT ![e] = timers[e] \cup {Arm("synack", 0)}]
      /\ \A u \in net' : u \in net \/ u = SynAck(e)
  <2>1. \E rest \in Delivered(m) : net' = rest \cup {SynAck(e)}
    BY DEF ReceiveSyn
  <2>2. \A u \in net' : u \in net \/ u = SynAck(e)
    BY <2>1, DeliveredRest
  <2> QED BY <2>2 DEF ReceiveSyn, TypeInv, TypeOK
<1>2. SameStream(conn[e], d)
  <2>1. SameStream(conn[e], c)
    BY <1>1 DEF ConnectionType, SameStream
  <2>2. SameStream(c, d)
    BY <1>1 DEF ConnectionType, SameStream
  <2> QED BY <2>1, <2>2 DEF SameStream
<1>3. \A f \in Endpoint : SameStream(conn[f], conn'[f])
  <2> HIDE DEF d
  <2> QED BY <1>1, <1>2, SameConn
<1>4. \A f \in Endpoint : \A u \in timers'[f] : u \in timers[f] \/ u.kind # "send"
  <2> DEFINE S == timers[e] \cup {Arm("synack", 0)}
  <2>1. \A u \in S : u \in timers[e] \/ u.kind # "send"
    BY DEF Arm
  <2> HIDE DEF S
  <2> QED BY <1>1, <2>1, TimersShrink DEF S
<1>5. NetInv(SynAck(e))
  BY ControlNetInv
<1> QED BY <1>1, <1>3, <1>4, <1>5, QuietStep

-----------------------------------------------------------------------------
(* The receiving half *)

LEMMA NatConcatAssociative ==
  ASSUME NEW s \in Seq(Nat), NEW t \in Seq(Nat), NEW u \in Seq(Nat)
  PROVE  (s \o t) \o u = s \o (t \o u)
BY ConcatAssociative

\* call_rcv_handler without new data.
LEMMA PassBackReceiver ==
  ASSUME TypeInv, TypeInv', NEW e \in Endpoint, ReceiverInv(e),
         NEW d, d = conn'[e], NEW p \in Seq(Nat),
         d.valid = conn[e].valid, d.sequence_no = conn[e].sequence_no,
         p \o d.rcv_window = conn[e].rcv_window,
         delivered'[e] = delivered[e] \o p,
         accepted'[e] = accepted[e], written[Peer(e)] <= written'[Peer(e)]
  PROVE  ReceiverInv(e)'
<1>1. /\ d \in ConnectionType /\ conn[e] \in ConnectionType
      /\ d.rcv_window \in Seq(Nat) /\ conn[e].rcv_window \in Seq(Nat)
      /\ delivered[e] \in Seq(Nat) /\ accepted[e] \in Nat
      /\ written[Peer(e)] \in Nat /\ written'[Peer(e)] \in Nat
  <2>1. d \in ConnectionType /\ conn[e] \in ConnectionType
    BY DEF TypeInv, TypeOK
  <2>2. d.rcv_window \in Seq(Nat) /\ conn[e].rcv_window \in Seq(Nat)
    BY <2>1 DEF ConnectionType
  <2> QED BY <2>1, <2>2, PeerOfEndpoint DEF TypeInv, TypeOK
<1>2. accepted'[e] <= written'[Peer(e)]
  BY <1>1 DEF ReceiverInv
<1>3. CASE d.valid
  <2>1. delivered[e] \o conn[e].rcv_window = Run(0, accepted[e])
    BY <1>3 DEF ReceiverInv
  <2>2. (delivered[e] \o p) \o d.rcv_window = Run(0, accepted[e])
    <3> DEFINE r == delivered[e]
               y == d.rcv_window
    <3>1. r \in Seq(Nat) /\ y \in Seq(Nat) /\ r \o (p \o y) = Run(0, accepted[e])
      BY <1>1, <2>1
    <3> HIDE DEF r, y
    <3>2. (r \o p) \o y = r \o (p \o y)
      BY <3>1, NatConcatAssociative
    <3> QED BY <3>1, <3>2 DEF r, y
  <2>3. d.sequence_no = accepted'[e]
    BY <1>3 DEF ReceiverInv
  <2> QED BY <1>2, <1>3, <2>2, <2>3 DEF ReceiverInv
<1>4. CASE ~d.valid
  <2>1. /\ conn[e].rcv_window = <<>> /\ Len(delivered[e]) <= accepted[e]
        /\ delivered[e] = Run(0, Len(delivered[e]))
    BY <1>4 DEF ReceiverInv
  <2>2. p = <<>> /\ d.rcv_window = <<>>
    BY <1>1, <2>1, ConcatSimplifications
  <2>3. delivered'[e] = delivered[e]
    BY <1>1, <2>2, ConcatEmptySeq
  <2> QED BY <1>2, <1>4, <2>1, <2>2, <2>3 DEF ReceiverInv
<1> QED BY <1>3, <1>4

\* A step of e that only passes received bytes to the application.
LEMMA PassBackStream ==
  ASSUME TypeInv, TypeInv', StreamInv, NEW e \in Endpoint,
         NEW c \in ConnectionType, NEW d,
         c.valid = conn[e].valid, c.sequence_no = conn[e].sequence_no,
         c.rcv_window = conn[e].rcv_window,
         c.write_buff = conn[e].write_buff, c.write_index = conn[e].write_index,
         c.valid_send_handler = conn[e].valid_send_handler,
         c.old_sequence_no = conn[e].old_sequence_no,
         c.send_sequence_no = conn[e].send_sequence_no,
         d = call_rcv_handler(c), conn' = [conn EXCEPT ![e] = d],
         delivered' = [delivered EXCEPT ![e] = @ \o passed_back(c)],
         timers' = timers, UNCHANGED <<written, accepted, life>>,
         \A u \in net' : u \in net \/ u = Fin(e)
  PROVE  StreamInv'
<1> DEFINE p == passed_back(c)
<1>1. /\ d \in ConnectionType /\ p \in Seq(Nat) /\ p \o d.rcv_window = conn[e].rcv_window
      /\ d.valid = conn[e].valid /\ d.sequence_no = conn[e].sequence_no
      /\ d.write_buff = conn[e].write_buff /\ d.write_index = conn[e].write_index
      /\ d.valid_send_handler = conn[e].valid_send_handler
      /\ d.old_sequence_no = conn[e].old_sequence_no
      /\ d.send_sequence_no = conn[e].send_sequence_no
  BY ReceiveHandlerFields
<1> HIDE DEF p
<1>2. /\ conn'[e] = d /\ delivered'[e] = delivered[e] \o p
      /\ \A f \in Endpoint : f # e => conn'[f] = conn[f] /\ delivered'[f] = delivered[f]
      /\ accepted[e] \in Nat /\ written[e] \in Nat
      /\ Peer(e) \in Endpoint /\ written[Peer(e)] \in Nat
  BY PeerOfEndpoint DEF TypeInv, TypeOK, p
<1>3. ReceiverInv(e) /\ SenderInv(e) /\ UnusedInv(e) /\ TimerInv(e)
  BY DEF StreamInv
<1>4. ReceiverInv(e)'
  <2>1. d = conn'[e] /\ accepted'[e] = accepted[e] /\ written[Peer(e)] <= written'[Peer(e)]
    BY <1>2
  <2> QED BY <1>1, <1>2, <1>3, <2>1, PassBackReceiver
<1>5. SenderInv(e)'
  BY <1>1, <1>2, <1>3 DEF SenderInv, SendsUpTo
<1>6. UnusedInv(e)'
  <2>1. SUFFICES ASSUME life[e] = 0
                 PROVE  /\ ~d.valid /\ accepted[e] = 0 /\ delivered'[e] = <<>>
                        /\ d.send_sequence_no = 0
                        /\ ~d.valid_send_handler => written[e] = 0
                        /\ d.valid_send_handler =>
                              /\ written[e] = Len(d.write_buff)
                              /\ d.write_buff = Run(0, Len(d.write_buff))
    BY <1>2 DEF UnusedInv
  <2>2. delivered[e] = <<>> /\ conn[e].rcv_window = <<>>
    BY <1>3, <2>1 DEF UnusedInv, ReceiverInv
  <2>3. p = <<>>
    <3>1. d.rcv_window \in Seq(Nat)
      BY <1>1 DEF ConnectionType
    <3> QED BY <1>1, <2>2, <3>1, ConcatSimplifications
  <2>4. delivered'[e] = <<>>
    BY <1>2, <2>2, <2>3, EmptySeq, ConcatEmptySeq
  <2> QED BY <1>1, <1>3, <2>1, <2>4 DEF UnusedInv
<1>7. TimerInv(e)'
  BY <1>1, <1>2, <1>3 DEF TimerInv
<1>8. \A u \in net' : u \in net \/ NetInv(u)'
  <2>1. NetInv(Fin(e))'
    BY DEF Fin, Control, NetInv
  <2> QED BY <2>1
<1>9. accepted[e] <= accepted'[e] /\ written[e] <= written'[e]
  BY <1>2
<1> QED BY <1>2, <1>4, <1>5, <1>6, <1>7, <1>8, <1>9, Frame

LEMMA ReceiveFinStream ==
  ASSUME TypeInv, TypeInv', StreamInv, NEW e \in Endpoint, NEW m \in net,
         ReceiveFin(e, m) \/ ReceiveLateSyn(e, m)
  PROVE  StreamInv'
<1> DEFINE c == conn[e]
           d == call_rcv_handler(c)
<1>1. /\ c \in ConnectionType /\ conn' = [conn EXCEPT ![e] = d]
      /\ delivered' = [delivered EXCEPT ![e] = @ \o passed_back(c)]
      /\ timers' = timers /\ UNCHANGED <<written, accepted, life>>
  BY DEF ReceiveFin, ReceiveLateSyn, TypeInv, TypeOK
<1>2. \A u \in net' : u \in net \/ u = Fin(e)
  <2>1. CASE ReceiveFin(e, m)
    <3>1. \E rest \in Delivered(m) : net' = rest \cup {Fin(e)}
      BY <2>1 DEF ReceiveFin
    <3> QED BY <3>1, DeliveredRest
  <2>2. CASE ReceiveLateSyn(e, m)
    BY <2>2 DEF ReceiveLateSyn, Delivered
  <2> QED BY <2>1, <2>2
<1> HIDE DEF d
<1>3. d = call_rcv_handler(c)
  BY DEF d
<1> QED BY <1>1, <1>2, <1>3, PassBackStream

LEMMA AsyncRcvStream ==
  ASSUME TypeInv, TypeInv', StreamInv, NEW e \in Endpoint, AsyncRcv(e)
  PROVE  StreamInv'
<1> DEFINE c == set_rcv_handler(conn[e])
           d == call_rcv_handler(c)
<1>1. /\ conn[e] \in ConnectionType
      /\ conn' = [conn EXCEPT ![e] = IF c.rcv_window # <<>> THEN d ELSE c]
      /\ delivered' = [delivered EXCEPT ![e] = @ \o passed_back(c)]
      /\ timers' = timers /\ net' = net /\ UNCHANGED <<written, accepted, life>>
  BY DEF AsyncRcv, TypeInv, TypeOK
<1>2. /\ c \in ConnectionType
      /\ c.valid = conn[e].valid /\ c.send_sequence_no = conn[e].send_sequence_no
      /\ c.sequence_no = conn[e].sequence_no /\ c.rcv_window = conn[e].rcv_window
      /\ c.write_buff = conn[e].write_buff /\ c.write_index = conn[e].write_index
      /\ c.valid_send_handler = conn[e].valid_send_handler
      /\ c.old_sequence_no = conn[e].old_sequence_no
  BY <1>1, SetRcvHandlerFields
<1> HIDE DEF c
<1>3. CASE c.rcv_window # <<>>
  <2>1. conn' = [conn EXCEPT ![e] = d] /\ d = call_rcv_handler(c)
    BY <1>1, <1>3
  <2> HIDE DEF d
  <2> QED BY <1>1, <1>2, <2>1, PassBackStream
<1>4. CASE c.rcv_window = <<>>
  <2>1. conn' = [conn EXCEPT ![e] = c]
    BY <1>1, <1>4
  <2>2. passed_back(c) = <<>>
    BY <1>4 DEF passed_back
  <2>3. delivered' = delivered
    <3>1. delivered[e] \in Seq(Nat) /\ delivered \in [Endpoint -> Seq(Nat)]
      BY DEF TypeInv, TypeOK
    <3>2. delivered[e] \o <<>> = delivered[e]
      BY <3>1, ConcatEmptySeq
    <3> QED BY <1>1, <2>2, <3>1, <3>2
  <2>4. SameStream(conn[e], c)
    BY <1>2 DEF SameStream
  <2>5. \A f \in Endpoint : SameStream(conn[f], conn'[f])
    BY <2>1, <2>4, SameConn
  <2> QED BY <1>1, <2>3, <2>5, QuietStep DEF history
<1> QED BY <1>3, <1>4

-----------------------------------------------------------------------------
(* Data *)

\* The data branch runs on a connection c that has taken n bytes, of which the
\* application has received, ...
DataHyp(e, m, c, n, received) ==
  /\ e \in Endpoint /\ m \in net /\ m.dst = e /\ m.kind = "data"
  /\ c \in ConnectionType /\ n \in Nat /\ received \in Seq(Nat)
  /\ c.valid /\ c.sequence_no = n /\ received \o c.rcv_window = Run(0, n)
  /\ n <= written[Peer(e)] /\ HandleData(e, m, c, n, received)
  /\ written' = written

\* ... takes the next ones or none, and leaves the sending half alone.
DataGoal(e, c, n) ==
  /\ ReceiverInv(e)'
  /\ \A f \in Endpoint : f # e =>
       /\ conn'[f] = conn[f] /\ timers'[f] = timers[f]
       /\ delivered'[f] = delivered[f] /\ accepted'[f] = accepted[f]
  /\ n <= accepted'[e]
  /\ conn'[e].valid
  /\ conn'[e].write_buff = c.write_buff /\ conn'[e].write_index = c.write_index
  /\ conn'[e].valid_send_handler = c.valid_send_handler
  /\ conn'[e].old_sequence_no = c.old_sequence_no
  /\ conn'[e].send_sequence_no = c.send_sequence_no
  /\ \A t \in timers'[e] : t \in timers[e] \/ t.kind # "send"
  /\ \A u \in net' : u \in net \/ NetInv(u)'

LEMMA HandleDataStep ==
  ASSUME TypeInv, TypeInv', StreamInv, NEW e, NEW m, NEW c, NEW n, NEW received,
         DataHyp(e, m, c, n, received)
  PROVE  DataGoal(e, c, n)
<1> USE DEF DataHyp
<1>1. /\ c.rcv_window \in Seq(Nat) /\ m.data \in Seq(Nat) /\ Len(m.data) \in Nat
      /\ written[Peer(e)] \in Nat
      /\ conn \in [Endpoint -> ConnectionType] /\ timers \in [Endpoint -> SUBSET Timer]
      /\ delivered \in [Endpoint -> Seq(Nat)] /\ accepted \in [Endpoint -> Nat]
  <2>1. c.rcv_window \in Seq(Nat)
    BY DEF ConnectionType
  <2>2. m.data \in Seq(Nat)
    BY DEF TypeInv, TypeOK, Datagram
  <2>3. Len(m.data) \in Nat
    BY <2>2, LenProperties
  <2>4. written \in [Endpoint -> Nat] /\ Peer(e) \in Endpoint
    BY PeerOfEndpoint DEF TypeInv, TypeOK
  <2>5. /\ conn \in [Endpoint -> ConnectionType] /\ timers \in [Endpoint -> SUBSET Timer]
        /\ delivered \in [Endpoint -> Seq(Nat)] /\ accepted \in [Endpoint -> Nat]
    BY DEF TypeInv, TypeOK
  <2>6. written[Peer(e)] \in Nat
    BY <2>4
  <2> QED BY <2>1, <2>2, <2>3, <2>5, <2>6
<1>2. CASE m.seq # c.sequence_no
  <2> DEFINE d == call_rcv_handler(c)
             p == passed_back(c)
  <2>1. /\ conn' = [conn EXCEPT ![e] = d] /\ accepted' = [accepted EXCEPT ![e] = n]
        /\ delivered' = [delivered EXCEPT ![e] = received \o p]
        /\ net' \subseteq net /\ timers' = timers
    BY <1>2, DeliveredRest DEF HandleData, Delivered
  <2>2. /\ d \in ConnectionType /\ d.valid /\ d.sequence_no = n
        /\ p \in Seq(Nat) /\ p \o d.rcv_window = c.rcv_window
        /\ d.write_buff = c.write_buff /\ d.write_index = c.write_index
        /\ d.valid_send_handler = c.valid_send_handler
        /\ d.old_sequence_no = c.old_sequence_no
        /\ d.send_sequence_no = c.send_sequence_no
    BY ReceiveHandlerFields
  <2> HIDE DEF d, p
  <2>3. conn'[e] = d /\ accepted'[e] = n /\ delivered'[e] = received \o p
    BY <1>1, <2>1
  <2>4. (received \o p) \o d.rcv_window = Run(0, n)
    <3> DEFINE y == d.rcv_window
    <3>1. y \in Seq(Nat) /\ received \o (p \o y) = Run(0, n)
      BY <2>2 DEF ConnectionType
    <3> HIDE DEF y
    <3>2. (received \o p) \o y = received \o (p \o y)
      BY <2>2, <3>1, NatConcatAssociative
    <3> QED BY <3>1, <3>2 DEF y
  <2>5. ReceiverInv(e)'
    BY <2>2, <2>3, <2>4 DEF ReceiverInv
  <2> QED BY <1>1, <2>1, <2>2, <2>3, <2>5 DEF DataGoal
<1>3. CASE m.seq = c.sequence_no
  <2>1. PICK k \in accepted_lengths(Len(m.data)) :
          LET d == take_data(c, SubSeq(m.data, 1, k)) IN
          /\ conn' = [conn EXCEPT ![e] = call_rcv_handler(IF k > 0 THEN d ELSE c)]
          /\ accepted' = [accepted EXCEPT ![e] = n + k]
          /\ delivered' = [delivered EXCEPT ![e] = received \o passed_back(d)]
          /\ \E rest \in Delivered(m) :
               net' = IF k > 0 THEN rest \cup {Ack(e, d.sequence_no)} ELSE rest
          /\ timers' = IF k > 0
                       THEN [timers EXCEPT ![e] = @ \cup {Arm("ack", d.sequence_no)}]
                       ELSE timers
    BY <1>3 DEF HandleData
  <2>2. k \in 0..Len(m.data)
    BY <1>1, <2>1, AcceptedLengths
  <2> DEFINE data == SubSeq(m.data, 1, k)
             d == take_data(c, data)
             x == IF k > 0 THEN d ELSE c
             z == call_rcv_handler(x)
             p == passed_back(d)
  <2>3. /\ data \in Seq(Nat) /\ Len(data) = k /\ data = Run(n, k)
        /\ n + k <= written[Peer(e)]
    <3>1. NetInv(m) /\ m.seq = n
      BY <1>3 DEF StreamInv
    <3>2. m.data = Run(n, Len(m.data)) /\ n + Len(m.data) <= written[Peer(e)]
      BY <3>1 DEF NetInv
    <3> DEFINE r == m.data
               len == Len(m.data)
    <3>3. r \in Seq(Nat) /\ len \in Nat /\ r = Run(n, len) /\ k \in 0..len
      BY <1>1, <2>2, <3>2
    <3> HIDE DEF r, len
    <3>4. SubSeq(r, 1, k) = Run(n, k)
      BY <3>3, RunTake
    <3>5. Run(n, k) \in Seq(Nat) /\ Len(Run(n, k)) = k
      BY <3>3, RunIsSeq
    <3>6. n + k <= written[Peer(e)]
      BY <1>1, <3>2, <3>3 DEF len
    <3> QED BY <3>4, <3>5, <3>6 DEF r
  <2> HIDE DEF data
  <2>4. /\ d \in ConnectionType /\ d.valid /\ d.sequence_no = n + k
        /\ d.rcv_window = c.rcv_window \o data
        /\ d.valid_rcv_handler = c.valid_rcv_handler
        /\ d.write_buff = c.write_buff /\ d.write_index = c.write_index
        /\ d.valid_send_handler = c.valid_send_handler
        /\ d.old_sequence_no = c.old_sequence_no
        /\ d.send_sequence_no = c.send_sequence_no
    <3>1. c \in ConnectionType /\ c.valid /\ c.sequence_no = n
      OBVIOUS
    <3>2. d = take_data(c, data)
      OBVIOUS
    <3> HIDE DEF d, p, z, x, DataHyp
    <3>3. /\ d \in ConnectionType /\ d.valid = c.valid
          /\ d.sequence_no = c.sequence_no + Len(data)
          /\ d.rcv_window = c.rcv_window \o data
          /\ d.valid_rcv_handler = c.valid_rcv_handler
          /\ d.write_buff = c.write_buff /\ d.write_index = c.write_index
          /\ d.valid_send_handler = c.valid_send_handler
          /\ d.old_sequence_no = c.old_sequence_no
          /\ d.send_sequence_no = c.send_sequence_no
      BY ZenonT(30), <2>3, <3>1, <3>2, TakeDataFields
    <3> QED BY <2>3, <3>1, <3>3
  <2> HIDE DEF d
  <2>5. /\ x \in ConnectionType /\ x.valid /\ x.sequence_no = n + k
        /\ x.rcv_window = c.rcv_window \o data
        /\ x.valid_rcv_handler = c.valid_rcv_handler
        /\ x.write_buff = c.write_buff /\ x.write_index = c.write_index
        /\ x.valid_send_handler = c.valid_send_handler
        /\ x.old_sequence_no = c.old_sequence_no
        /\ x.send_sequence_no = c.send_sequence_no
    <3>1. CASE k > 0
      BY <2>4, <3>1
    <3>2. CASE ~(k > 0)
      <4>1. k = 0 /\ data = <<>> /\ n + k = n
        BY <2>2, <2>3, <3>2, EmptySeq
      <4>2. c.rcv_window \o data = c.rcv_window
        BY <1>1, <4>1, ConcatEmptySeq
      <4> QED BY <3>2, <4>1, <4>2
    <3> QED BY <3>1, <3>2
  <2>6. p = passed_back(x)
    BY <2>4, <2>5 DEF passed_back
  <2> HIDE DEF x
  <2>7. /\ z \in ConnectionType /\ z.valid /\ z.sequence_no = n + k
        /\ p \in Seq(Nat) /\ p \o z.rcv_window = c.rcv_window \o data
        /\ z.write_buff = c.write_buff /\ z.write_index = c.write_index
        /\ z.valid_send_handler = c.valid_send_handler
        /\ z.old_sequence_no = c.old_sequence_no
        /\ z.send_sequence_no = c.send_sequence_no
    <3>1. z = call_rcv_handler(x)
      OBVIOUS
    <3> HIDE DEF z, p, DataHyp
    <3>2. /\ z \in ConnectionType /\ z.valid = x.valid
          /\ z.sequence_no = x.sequence_no
          /\ z.write_buff = x.write_buff /\ z.write_index = x.write_index
          /\ z.valid_send_handler = x.valid_send_handler
          /\ z.old_sequence_no = x.old_sequence_no
          /\ z.send_sequence_no = x.send_sequence_no
          /\ passed_back(x) \in Seq(Nat)
          /\ passed_back(x) \o z.rcv_window = x.rcv_window
      BY <2>5, <3>1, ReceiveHandlerFields
    <3> QED BY <2>5, <2>6, <3>2
  <2> HIDE DEF z, p
  <2>8. /\ conn' = [conn EXCEPT ![e] = z] /\ accepted' = [accepted EXCEPT ![e] = n + k]
        /\ delivered' = [delivered EXCEPT ![e] = received \o p]
    BY <2>1 DEF z, x, d, data, p
  <2>9. conn'[e] = z /\ accepted'[e] = n + k /\ delivered'[e] = received \o p
    BY <1>1, <2>8
  <2>10. (received \o p) \o z.rcv_window = Run(0, n + k)
    <3> DEFINE y == z.rcv_window
               w == c.rcv_window
               a == received \o w
    <3>1. y \in Seq(Nat) /\ w \in Seq(Nat) /\ p \in Seq(Nat) /\ data \in Seq(Nat) /\ k \in Nat
      BY <1>1, <2>2, <2>3, <2>7 DEF ConnectionType
    <3>2. p \o y = w \o data
      BY <2>7
    <3> HIDE DEF y, w
    <3>3. (received \o p) \o y = received \o (p \o y)
      BY <3>1, NatConcatAssociative
    <3>4. (received \o w) \o data = received \o (w \o data)
      BY <3>1, NatConcatAssociative
    <3>5. a \in Seq(Nat) /\ a = Run(0, n)
      BY <3>1, ConcatProperties DEF w
    <3> HIDE DEF a
    <3>6. a \o data = Run(0, n + k)
      <4>1. data \in Seq(Nat) /\ k \in Nat /\ data = Run(n, k)
        BY <2>3, <3>1
      <4> QED BY ZenonT(30), <3>5, <4>1, RunConcat
    <3> QED BY <3>2, <3>3, <3>4, <3>6 DEF a, y
  <2>11. ReceiverInv(e)'
    BY <2>3, <2>7, <2>9, <2>10 DEF ReceiverInv
  <2>12. \A t \in timers'[e] : t \in timers[e] \/ t.kind # "send"
    BY <1>1, <2>1 DEF Arm
  <2>13. \A f \in Endpoint : f # e => timers'[f] = timers[f]
    BY <1>1, <2>1
  <2>14. \A u \in net' : u \in net \/ NetInv(u)'
    <3>1. \A u \in net' : u \in net \/ u = Ack(e, n + k)
      BY <2>1, <2>4, DeliveredRest DEF d, data
    <3>2. n + k \in 0..accepted'[e]
      BY <2>2, <2>9
    <3>3. NetInv(Ack(e, n + k))'
      BY <3>2, PeerOfEndpoint DEF Ack, Control, NetInv
    <3> QED BY <3>1, <3>3
  <2>15. n <= accepted'[e]
    BY <2>2, <2>9
  <2>16. \A f \in Endpoint : f # e =>
           conn'[f] = conn[f] /\ delivered'[f] = delivered[f] /\ accepted'[f] = accepted[f]
    BY <1>1, <2>8
  <2> QED BY <2>7, <2>9, <2>11, <2>12, <2>13, <2>14, <2>15, <2>16 DEF DataGoal
<1> QED BY <1>2, <1>3

LEMMA ReceiveDataStream ==
  ASSUME TypeInv, TypeInv', StreamInv, NEW e \in Endpoint, NEW m \in net,
         ReceiveData(e, m)
  PROVE  StreamInv'
<1> DEFINE c == conn[e]
           n == accepted[e]
           d == conn'[e]
<1>1. /\ ReceiverInv(e) /\ SenderInv(e) /\ UnusedInv(e) /\ TimerInv(e)
      /\ c \in ConnectionType /\ n \in Nat /\ delivered[e] \in Seq(Nat)
      /\ written[e] \in Nat /\ Peer(e) \in Endpoint
      /\ c.valid /\ m.dst = e /\ m.kind = "data"
      /\ HandleData(e, m, c, n, delivered[e])
      /\ written' = written /\ life' = life
  BY PeerOfEndpoint DEF StreamInv, TypeInv, TypeOK, ReceiveData, Arrival
<1>2. /\ c.sequence_no = n /\ delivered[e] \o c.rcv_window = Run(0, n)
      /\ n <= written[Peer(e)]
  BY <1>1 DEF ReceiverInv
<1>3. /\ ReceiverInv(e)'
      /\ \A f \in Endpoint : f # e =>
           /\ conn'[f] = conn[f] /\ timers'[f] = timers[f]
           /\ delivered'[f] = delivered[f] /\ accepted'[f] = accepted[f]
      /\ n <= accepted'[e]
      /\ d.valid
      /\ d.write_buff = c.write_buff /\ d.write_index = c.write_index
      /\ d.valid_send_handler = c.valid_send_handler
      /\ d.old_sequence_no = c.old_sequence_no
      /\ d.send_sequence_no = c.send_sequence_no
      /\ \A t \in timers'[e] : t \in timers[e] \/ t.kind # "send"
      /\ \A u \in net' : u \in net \/ NetInv(u)'
  <2>1. DataHyp(e, m, c, n, delivered[e])
    BY <1>1, <1>2 DEF DataHyp
  <2>2. DataGoal(e, c, n)
    BY <2>1, HandleDataStep
  <2> QED BY <2>2 DEF DataGoal
<1>4. SenderInv(e)'
  <2>1. accepted'[Peer(e)] = accepted[Peer(e)]
    BY <1>1, <1>3, PeerOfEndpoint
  <2>2. SendsUpTo(d, written[e])
    BY <1>1, <1>3 DEF SenderInv, SendsUpTo
  <2>3. d.send_sequence_no \in 0..accepted[Peer(e)]
    BY <1>1, <1>3 DEF SenderInv
  <2> QED BY <1>1, <2>1, <2>2, <2>3 DEF SenderInv
<1>5. UnusedInv(e)'
  BY <1>1 DEF UnusedInv
<1>6. TimerInv(e)'
  BY <1>1, <1>3 DEF TimerInv
<1>7. /\ accepted[e] <= accepted'[e] /\ written[e] <= written'[e]
      /\ \A f \in Endpoint : written'[f] = written[f] /\ life'[f] = life[f]
  BY <1>1, <1>3
<1> QED BY <1>3, <1>4, <1>5, <1>6, <1>7, Frame

LEMMA EmptyRun == ASSUME NEW n \in Nat PROVE <<>> = Run(n, 0)
<1> DEFINE r == Run(n, 0)
<1>1. r \in Seq(Nat) /\ Len(r) = 0
  BY RunIsSeq
<1> HIDE DEF r
<1>2. r = <<>>
  BY <1>1, EmptySeq
<1> QED BY <1>2 DEF r

\* What FirstLife says of a connection that becomes valid: it is unused.
LEMMA FirstValid ==
  ASSUME TypeInv, StreamInv, FirstLife', NEW e \in Endpoint, BecomeValid(e)
  PROVE  /\ life[e] = 0 /\ life'[e] = 1 /\ accepted[e] = 0 /\ delivered[e] = <<>>
         /\ ~conn[e].valid /\ conn[e].rcv_window = <<>>
         /\ conn[e].send_sequence_no = 0
         /\ written' = written
         /\ \A f \in Endpoint : f # e => life'[f] = life[f]
         /\ \A t \in timers[e] : t.kind # "send"
<1>1. /\ life \in [Endpoint -> 0..2] /\ life' = [life EXCEPT ![e] = life[e] + 1]
      /\ written' = written
  BY DEF TypeInv, TypeOK, BecomeValid
<1>2. life[e] \in 0..2 /\ life'[e] = life[e] + 1 /\ life'[e] <= 1
  BY <1>1 DEF FirstLife
<1>3. life[e] = 0
  BY <1>2
<1>4. ReceiverInv(e) /\ UnusedInv(e) /\ TimerInv(e)
  BY DEF StreamInv
<1>5. ~conn[e].valid /\ accepted[e] = 0 /\ delivered[e] = <<>> /\ conn[e].send_sequence_no = 0
  BY <1>3, <1>4 DEF UnusedInv
<1>6. conn[e].rcv_window = <<>>
  BY <1>4, <1>5 DEF ReceiverInv
<1>7. \A t \in timers[e] : t.kind # "send"
  BY <1>3, <1>4 DEF TimerInv
<1> QED BY <1>1, <1>2, <1>3, <1>5, <1>6, <1>7

\* The sending half of an unused connection once it is established: the buffer
\* of an early async_send, from its first byte.
LEMMA FirstSend ==
  ASSUME TypeInv, StreamInv, FirstLife', NEW e \in Endpoint, BecomeValid(e),
         NEW c, c.write_index = 0, c.send_sequence_no = conn[e].send_sequence_no,
         c.old_sequence_no = conn[e].send_sequence_no,
         c.valid_send_handler = conn[e].valid_send_handler,
         c.write_buff = conn[e].write_buff
  PROVE  SendsUpTo(c, written[e]) /\ c.send_sequence_no = 0
<1>1. UnusedInv(e) /\ life[e] = 0 /\ c.send_sequence_no = 0 /\ c.old_sequence_no = 0
  BY FirstValid DEF StreamInv
<1>2. written[e] \in Nat /\ Len(conn[e].write_buff) \in Nat
  BY DEF TypeInv, TypeOK, ConnectionType
<1>3. CASE c.valid_send_handler
  <2>1. written[e] = Len(c.write_buff) /\ c.write_buff = Run(0, Len(c.write_buff))
    BY <1>1, <1>3 DEF UnusedInv
  <2>2. c.old_sequence_no \in 0..c.send_sequence_no /\ c.send_sequence_no <= written[e]
        /\ c.write_index = c.send_sequence_no - c.old_sequence_no
        /\ written[e] = c.old_sequence_no + Len(c.write_buff)
    BY <1>1, <1>2, <2>1
  <2> QED BY <1>1, <1>3, <2>1, <2>2 DEF SendsUpTo
<1>4. CASE ~c.valid_send_handler
  BY <1>1, <1>4 DEF SendsUpTo, UnusedInv
<1> QED BY <1>1, <1>3, <1>4

LEMMA ReceiveFirstDataStream ==
  ASSUME TypeInv, TypeInv', StreamInv, FirstLife', NEW e \in Endpoint, NEW m \in net,
         ReceiveFirstData(e, m)
  PROVE  StreamInv'
<1> DEFINE c == establish(conn[e], m.seq)
           d == conn'[e]
           nil == <<>>
<1>1. /\ conn[e] \in ConnectionType /\ m.seq = 0 /\ m.dst = e /\ m.kind = "data"
      /\ HandleData(e, m, c, 0, nil) /\ BecomeValid(e)
      /\ written[e] \in Nat /\ Peer(e) \in Endpoint /\ written[Peer(e)] \in Nat
      /\ accepted[Peer(e)] \in Nat
  BY PeerOfEndpoint DEF ReceiveFirstData, Arrival, TypeInv, TypeOK
<1>2. /\ life[e] = 0 /\ life'[e] = 1 /\ accepted[e] = 0
      /\ conn[e].rcv_window = <<>> /\ written' = written
      /\ \A f \in Endpoint : f # e => life'[f] = life[f]
      /\ \A t \in timers[e] : t.kind # "send"
  BY <1>1, FirstValid
<1>3. /\ c \in ConnectionType /\ c.sequence_no = 0 /\ c.valid /\ c.write_index = 0
      /\ c.old_sequence_no = conn[e].send_sequence_no
      /\ c.send_sequence_no = conn[e].send_sequence_no
      /\ c.valid_send_handler = conn[e].valid_send_handler
      /\ c.write_buff = conn[e].write_buff /\ c.rcv_window = <<>>
  <2> DEFINE x == conn[e]
             k == m.seq
  <2>1. x \in ConnectionType /\ k \in Int /\ k = 0 /\ c = establish(x, k) /\ x.rcv_window = <<>>
    BY <1>1, <1>2
  <2> HIDE DEF x, k, c
  <2>2. /\ c \in ConnectionType /\ c.sequence_no = k /\ c.valid /\ c.write_index = 0
        /\ c.old_sequence_no = x.send_sequence_no
        /\ c.send_sequence_no = x.send_sequence_no
        /\ c.valid_send_handler = x.valid_send_handler
        /\ c.write_buff = x.write_buff /\ c.rcv_window = x.rcv_window
    BY <2>1, EstablishFields
  <2> QED BY <2>1, <2>2 DEF x
<1> HIDE DEF c
<1>4. SendsUpTo(c, written[e]) /\ c.send_sequence_no = 0
  BY <1>1, <1>3, FirstSend
<1>5. /\ ReceiverInv(e)'
      /\ \A f \in Endpoint : f # e =>
           /\ conn'[f] = conn[f] /\ timers'[f] = timers[f]
           /\ delivered'[f] = delivered[f] /\ accepted'[f] = accepted[f]
      /\ d.valid
      /\ d.write_buff = c.write_buff /\ d.write_index = c.write_index
      /\ d.valid_send_handler = c.valid_send_handler
      /\ d.old_sequence_no = c.old_sequence_no
      /\ d.send_sequence_no = c.send_sequence_no
      /\ \A t \in timers'[e] : t \in timers[e] \/ t.kind # "send"
      /\ \A u \in net' : u \in net \/ NetInv(u)'
  <2> DEFINE n == 0
  <2>1. nil \in Seq(Nat) /\ n \in Nat /\ nil \o c.rcv_window = Run(0, n)
    <3>1. <<>> \in Seq(Nat) /\ <<>> = Run(0, 0)
      BY EmptyRun, EmptySeq
    <3>2. <<>> \o <<>> = <<>>
      BY <3>1, ConcatEmptySeq
    <3> QED BY <1>3, <3>1, <3>2
  <2>2. n <= written[Peer(e)] /\ HandleData(e, m, c, n, nil) /\ c.sequence_no = n
    BY <1>1, <1>3
  <2> HIDE DEF n, nil
  <2>3. DataHyp(e, m, c, n, nil)
    BY <1>1, <1>2, <1>3, <2>1, <2>2 DEF DataHyp
  <2>4. DataGoal(e, c, n)
    BY <2>3, HandleDataStep
  <2> QED BY <2>4 DEF DataGoal
<1>6. SenderInv(e)'
  <2>1. accepted'[Peer(e)] = accepted[Peer(e)]
    BY <1>1, <1>5, PeerOfEndpoint
  <2>2. SendsUpTo(d, written[e])
    BY <1>4, <1>5 DEF SendsUpTo
  <2>3. d.send_sequence_no \in 0..accepted[Peer(e)]
    BY <1>1, <1>4, <1>5
  <2> QED BY <1>2, <2>1, <2>2, <2>3 DEF SenderInv
<1>7. UnusedInv(e)'
  BY <1>2 DEF UnusedInv
<1>8. TimerInv(e)'
  BY <1>2, <1>5 DEF TimerInv
<1>9. accepted[e] <= accepted'[e] /\ written[e] <= written'[e]
      /\ \A f \in Endpoint : written'[f] = written[f]
  <2>1. accepted'[e] \in Nat
    BY DEF TypeInv, TypeOK
  <2> QED BY <1>1, <1>2, <2>1
<1> QED BY <1>2, <1>5, <1>6, <1>7, <1>8, <1>9, Frame

-----------------------------------------------------------------------------
(* Steps that call send() *)

\* Connection c of endpoint e calls send() and becomes d.  It has not sent
\* beyond w = written'[e], and its old timers guard earlier bytes.
SendHyp(e, c, d) ==
  /\ e \in Endpoint /\ c \in ConnectionType /\ c.valid
  /\ SendsUpTo(c, written'[e]) /\ c.send_sequence_no \in 0..accepted'[Peer(e)]
  /\ d = after_send(c)
  /\ life'[e] > 0
  /\ \A t \in timers[e] : t.kind = "send" =>
       t.next <= c.send_sequence_no /\ t.next < written'[e]
  /\ \A t \in timers'[e] : t \in timers[e] \/ t.kind # "send" \/ t \in armed_by(c)
  /\ \A u \in net' : u \in net \/ NetInv(u)' \/ u \in sent_by(e, c)

\* The sending half of conn'[e] is that of d.
SameSender(d, z) ==
  /\ z.valid = d.valid /\ z.send_sequence_no = d.send_sequence_no
  /\ z.write_buff = d.write_buff /\ z.write_index = d.write_index
  /\ z.valid_send_handler = d.valid_send_handler
  /\ z.old_sequence_no = d.old_sequence_no

LEMMA SendingStep ==
  ASSUME TypeInv', NEW e, NEW c, NEW d, SendHyp(e, c, d), SameSender(d, conn'[e])
  PROVE  /\ SenderInv(e)' /\ UnusedInv(e)' /\ TimerInv(e)'
         /\ \A u \in net' : u \in net \/ NetInv(u)'
<1> DEFINE w == written'[e]
           z == conn'[e]
<1>1. /\ e \in Endpoint /\ w \in Nat /\ c \in ConnectionType /\ accepted'[Peer(e)] \in Nat
      /\ c.valid /\ SendsUpTo(c, w) /\ c.send_sequence_no \in Nat /\ d = after_send(c)
      /\ c.send_sequence_no \in 0..accepted'[Peer(e)]
  BY PeerOfEndpoint DEF SendHyp, TypeInv, TypeOK
<1>2. d.valid = c.valid /\ d.send_sequence_no = c.send_sequence_no
  BY <1>1, AfterSendFields
<1>3. /\ SendsUpTo(d, w)
      /\ \A m \in sent_by(e, c) : SliceOf(m, e, w)
      /\ \A t \in armed_by(c) : t.kind = "send" /\ t.next = d.send_sequence_no /\ t.next < w
  <2> HIDE DEF w
  <2> QED BY <1>1, SendStep
<1>4. SenderInv(e)'
  <2>1. SendsUpTo(z, w)
    BY <1>3 DEF SameSender, SendsUpTo
  <2>2. z.send_sequence_no \in 0..accepted'[Peer(e)]
    BY <1>1, <1>2 DEF SameSender
  <2> QED BY <2>1, <2>2 DEF SenderInv
<1>5. UnusedInv(e)'
  <2>1. life'[e] # 0
    BY DEF SendHyp
  <2> QED BY <2>1 DEF UnusedInv
<1>6. TimerInv(e)'
  <2>1. SUFFICES ASSUME NEW t \in timers'[e], t.kind = "send"
                 PROVE  life'[e] > 0 /\ t.next <= z.send_sequence_no /\ t.next < w
    BY DEF TimerInv
  <2>2. life'[e] > 0 /\ z.send_sequence_no = c.send_sequence_no
    BY <1>2 DEF SendHyp, SameSender
  <2>3. CASE t \in timers[e]
    BY <2>1, <2>2, <2>3 DEF SendHyp
  <2>4. CASE t \in armed_by(c)
    <3>1. t.next = c.send_sequence_no /\ t.next < w
      BY <1>2, <1>3, <2>4
    <3> QED BY <1>1, <2>2, <3>1
  <2> QED BY <2>1, <2>3, <2>4 DEF SendHyp
<1>7. ASSUME NEW u \in net' PROVE u \in net \/ NetInv(u)'
  <2>1. u \in net \/ NetInv(u)' \/ u \in sent_by(e, c)
    BY <1>7 DEF SendHyp
  <2>2. CASE u \in sent_by(e, c)
    <3>1. SliceOf(u, e, written'[e])
      BY <1>3, <2>2
    <3> QED BY <1>1, <3>1, SliceNetInv
  <2> QED BY <2>1, <2>2
<1> QED BY <1>4, <1>5, <1>6, <1>7

\* The handshake segment that makes connection x (conn[e] with the peer's
\* window filled in) valid, and the send() of set_valid.
EstablishHyp(e, x, d) ==
  /\ e \in Endpoint /\ x \in ConnectionType /\ BecomeValid(e)
  /\ x.send_sequence_no = conn[e].send_sequence_no
  /\ x.valid_send_handler = conn[e].valid_send_handler
  /\ x.write_buff = conn[e].write_buff /\ x.rcv_window = conn[e].rcv_window
  /\ d = after_send(establish(x, 0))
  /\ conn' = [conn EXCEPT ![e] = d]
  /\ accepted' = [accepted EXCEPT ![e] = 0]
  /\ delivered' = [delivered EXCEPT ![e] = <<>>]
  /\ \A f \in Endpoint : f # e => timers'[f] = timers[f]
  /\ \A t \in timers'[e] : t \in timers[e] \/ t.kind # "send" \/ t \in armed_by(establish(x, 0))
  /\ \A u \in net' : u \in net \/ NetInv(u)' \/ u \in sent_by(e, establish(x, 0))

LEMMA EstablishStep ==
  ASSUME TypeInv, TypeInv', StreamInv, FirstLife', NEW e, NEW x, NEW d, EstablishHyp(e, x, d)
  PROVE  StreamInv'
<1> DEFINE c == establish(x, 0)
<1>1. /\ e \in Endpoint /\ x \in ConnectionType /\ BecomeValid(e) /\ d = after_send(c)
      /\ x.send_sequence_no = conn[e].send_sequence_no
      /\ x.valid_send_handler = conn[e].valid_send_handler
      /\ x.write_buff = conn[e].write_buff /\ x.rcv_window = conn[e].rcv_window
      /\ \A f \in Endpoint : f # e => timers'[f] = timers[f]
      /\ \A t \in timers'[e] : t \in timers[e] \/ t.kind # "send" \/ t \in armed_by(c)
      /\ \A u \in net' : u \in net \/ NetInv(u)' \/ u \in sent_by(e, c)
  BY DEF EstablishHyp
<1>2. /\ life[e] = 0 /\ life'[e] = 1 /\ accepted[e] = 0 /\ conn[e].rcv_window = <<>>
      /\ written' = written
      /\ \A f \in Endpoint : f # e => life'[f] = life[f]
      /\ \A t \in timers[e] : t.kind # "send"
  BY <1>1, FirstValid
<1>3. /\ c \in ConnectionType /\ c.sequence_no = 0 /\ c.valid /\ c.write_index = 0
      /\ c.old_sequence_no = x.send_sequence_no
      /\ c.send_sequence_no = x.send_sequence_no
      /\ c.valid_send_handler = x.valid_send_handler
      /\ c.write_buff = x.write_buff /\ c.rcv_window = x.rcv_window
  <2> DEFINE n == 0
  <2>1. n \in Int /\ c = establish(x, n)
    OBVIOUS
  <2> HIDE DEF n, c
  <2>2. /\ c \in ConnectionType /\ c.sequence_no = n /\ c.valid /\ c.write_index = 0
        /\ c.old_sequence_no = x.send_sequence_no
        /\ c.send_sequence_no = x.send_sequence_no
        /\ c.valid_send_handler = x.valid_send_handler
        /\ c.write_buff = x.write_buff /\ c.rcv_window = x.rcv_window
    BY <1>1, <2>1, EstablishFields
  <2> QED BY <2>2 DEF n
<1> HIDE DEF c
<1>4. SendsUpTo(c, written[e]) /\ c.send_sequence_no = 0
  BY <1>1, <1>3, FirstSend
<1>5. /\ conn'[e] = d /\ accepted'[e] = 0 /\ delivered'[e] = <<>>
      /\ \A f \in Endpoint : f # e =>
           conn'[f] = conn[f] /\ accepted'[f] = accepted[f] /\ delivered'[f] = delivered[f]
      /\ written[e] \in Nat /\ Peer(e) \in Endpoint /\ written[Peer(e)] \in Nat
      /\ accepted'[Peer(e)] \in Nat
  BY <1>1, PeerOfEndpoint DEF EstablishHyp, TypeInv, TypeOK
<1>6. ReceiverInv(e)'
  <2>1. d.valid /\ d.sequence_no = 0 /\ d.rcv_window = <<>>
    BY <1>1, <1>2, <1>3, AfterSendFields
  <2>2. <<>> \o <<>> = Run(0, 0)
    <3>1. <<>> \in Seq(Nat) /\ <<>> = Run(0, 0)
      BY EmptyRun, EmptySeq
    <3>2. <<>> \o <<>> = <<>>
      BY <3>1, ConcatEmptySeq
    <3> QED BY <3>1, <3>2
  <2>3. 0 <= written'[Peer(e)]
    BY <1>2, <1>5
  <2> QED BY <1>5, <2>1, <2>2, <2>3 DEF ReceiverInv
<1>7. SendHyp(e, c, d)
  <2>1. c.send_sequence_no \in 0..accepted'[Peer(e)] /\ life'[e] > 0
    BY <1>2, <1>4, <1>5
  <2> QED BY <1>1, <1>2, <1>3, <1>4, <2>1 DEF SendHyp
<1>8. SameSender(d, conn'[e])
  BY <1>5 DEF SameSender
<1>9. /\ SenderInv(e)' /\ UnusedInv(e)' /\ TimerInv(e)'
      /\ \A u \in net' : u \in net \/ NetInv(u)'
  BY <1>7, <1>8, SendingStep
<1>10. accepted[e] <= accepted'[e] /\ written[e] <= written'[e]
  BY <1>2, <1>5
<1> QED BY <1>1, <1>2, <1>5, <1>6, <1>9, <1>10, Frame

LEMMA ReceiveSynAckStream ==
  ASSUME TypeInv, TypeInv', StreamInv, FirstLife', NEW e \in Endpoint, NEW m \in net,
         ReceiveSynAck(e, m)
  PROVE  StreamInv'
<1> DEFINE x == [conn[e] EXCEPT !.remote_window_size = m.window]
           c == establish(x, 0)
           d == after_send(c)
<1>1. /\ conn[e] \in ConnectionType /\ m.window \in Int
      /\ timers \in [Endpoint -> SUBSET Timer] /\ accepted[e] \in Nat
  <2>1. m \in Datagram
    BY DEF TypeInv, TypeOK
  <2> QED BY <2>1 DEF TypeInv, TypeOK, Datagram
<1>2. /\ x \in ConnectionType
      /\ x.send_sequence_no = conn[e].send_sequence_no
      /\ x.valid_send_handler = conn[e].valid_send_handler
      /\ x.write_buff = conn[e].write_buff /\ x.rcv_window = conn[e].rcv_window
  BY <1>1 DEF ConnectionType
<1>3. /\ conn' = [conn EXCEPT ![e] = d]
      /\ timers' = [timers EXCEPT ![e] = @ \cup {Arm("finalack", 0)} \cup armed_by(c)]
      /\ \E rest \in Delivered(m) : net' = rest \cup {Ack(e, 0)} \cup sent_by(e, c)
      /\ BecomeValid(e)
      /\ accepted' = [accepted EXCEPT ![e] = 0]
      /\ delivered' = [delivered EXCEPT ![e] = <<>>]
  <2>1. m.seq = -1 /\ m.seq + 1 = 0
    BY DEF ReceiveSynAck
  <2> QED BY <2>1 DEF ReceiveSynAck
<1> HIDE DEF x, c
<1>4. \A f \in Endpoint : f # e => timers'[f] = timers[f]
  BY <1>1, <1>3
<1>5. \A t \in timers'[e] : t \in timers[e] \/ t.kind # "send" \/ t \in armed_by(c)
  <2>1. timers'[e] = timers[e] \cup {Arm("finalack", 0)} \cup armed_by(c)
    BY <1>1, <1>3
  <2>2. Arm("finalack", 0).kind # "send"
    BY DEF Arm
  <2> QED BY <2>1, <2>2
<1>6. \A u \in net' : u \in net \/ NetInv(u)' \/ u \in sent_by(e, c)
  <2>1. \A u \in net' : u \in net \/ u = Ack(e, 0) \/ u \in sent_by(e, c)
    BY <1>3, DeliveredRest
  <2>2. accepted'[e] \in Nat
    BY DEF TypeInv, TypeOK
  <2>3. NetInv(Ack(e, 0))'
    BY <2>2, PeerOfEndpoint DEF Ack, Control, NetInv
  <2> QED BY <2>1, <2>3
<1>7. EstablishHyp(e, x, d)
  BY <1>2, <1>3, <1>4, <1>5, <1>6 DEF EstablishHyp, c
<1> HIDE DEF d
<1> QED BY <1>7, EstablishStep

LEMMA ReceiveFinalAckStream ==
  ASSUME TypeInv, TypeInv', StreamInv, FirstLife', NEW e \in Endpoint, NEW m \in net,
         ReceiveFinalAck(e, m)
  PROVE  StreamInv'
<1> DEFINE x == conn[e]
           c == establish(x, 0)
           d == after_send(c)
<1>1. x \in ConnectionType /\ timers \in [Endpoint -> SUBSET Timer]
  BY DEF TypeInv, TypeOK
<1>2. /\ conn' = [conn EXCEPT ![e] = d]
      /\ timers' = [timers EXCEPT ![e] = @ \cup armed_by(c)]
      /\ \E rest \in Delivered(m) : net' = rest \cup sent_by(e, c)
      /\ BecomeValid(e)
      /\ accepted' = [accepted EXCEPT ![e] = 0]
      /\ delivered' = [delivered EXCEPT ![e] = <<>>]
  <2>1. m.seq = 0
    BY DEF ReceiveFinalAck
  <2> QED BY <2>1 DEF ReceiveFinalAck
<1> HIDE DEF c
<1>3. \A f \in Endpoint : f # e => timers'[f] = timers[f]
  BY <1>1, <1>2
<1>4. \A t \in timers'[e] : t \in timers[e] \/ t.kind # "send" \/ t \in armed_by(c)
  BY <1>1, <1>2
<1>5. \A u \in net' : u \in net \/ NetInv(u)' \/ u \in sent_by(e, c)
  BY <1>2, DeliveredRest
<1>6. EstablishHyp(e, x, d)
  BY <1>1, <1>2, <1>3, <1>4, <1>5 DEF EstablishHyp, c
<1> HIDE DEF d, x
<1> QED BY <1>6, EstablishStep

\* An acknowledgement of bytes the peer took keeps the sending half in step.
LEMMA TakeAckSends ==
  ASSUME NEW c \in ConnectionType, NEW w \in Nat, NEW a \in 0..w, NEW n \in Int, n <= a,
         SendsUpTo(c, w), c.send_sequence_no \in 0..a,
         c.old_sequence_no <= c.send_sequence_no,
         NEW d,
         d.write_buff = c.write_buff, d.valid_send_handler = c.valid_send_handler,
         d.old_sequence_no = c.old_sequence_no,
         n >= c.send_sequence_no =>
           d.send_sequence_no = n /\ d.write_index = n - c.old_sequence_no,
         ~(n >= c.send_sequence_no) =>
           d.send_sequence_no = c.send_sequence_no /\ d.write_index = c.write_index
  PROVE  /\ SendsUpTo(d, w) /\ d.send_sequence_no \in 0..a
         /\ c.send_sequence_no <= d.send_sequence_no
<1>1. c.old_sequence_no \in Int /\ Len(c.write_buff) \in Nat /\ c.send_sequence_no \in Nat
  BY DEF ConnectionType
<1>2. CASE n >= c.send_sequence_no
  <2>1. d.send_sequence_no = n /\ d.write_index = n - c.old_sequence_no /\ n \in 0..a
    BY <1>1, <1>2
  <2>2. CASE c.valid_send_handler
    <3>1. /\ c.old_sequence_no \in Nat /\ w = c.old_sequence_no + Len(c.write_buff)
          /\ c.write_buff = Run(c.old_sequence_no, Len(c.write_buff))
      BY <2>2 DEF SendsUpTo
    <3>2. d.old_sequence_no \in 0..d.send_sequence_no /\ d.send_sequence_no <= w
      BY <1>1, <1>2, <2>1, <3>1
    <3>3. SendsUpTo(d, w)
      BY <2>1, <2>2, <3>1, <3>2 DEF SendsUpTo
    <3> QED BY <1>1, <1>2, <2>1, <3>3
  <2>3. CASE ~c.valid_send_handler
    <3>1. c.send_sequence_no = w
      BY <2>3 DEF SendsUpTo
    <3>2. n = w
      BY <1>2, <2>1, <3>1
    <3>3. SendsUpTo(d, w)
      BY <2>1, <2>3, <3>2 DEF SendsUpTo
    <3> QED BY <2>1, <3>1, <3>2, <3>3
  <2> QED BY <2>2, <2>3
<1>3. CASE ~(n >= c.send_sequence_no)
  <2>1. d.send_sequence_no = c.send_sequence_no /\ d.write_index = c.write_index
    BY <1>3
  <2>2. SendsUpTo(d, w)
    BY <2>1 DEF SendsUpTo
  <2> QED BY <1>1, <2>1, <2>2
<1> QED BY <1>2, <1>3

LEMMA ReceiveAckStream ==
  ASSUME TypeInv, TypeInv', StreamInv, NEW e \in Endpoint, NEW m \in net,
         ReceiveAck(e, m)
  PROVE  StreamInv'
<1> DEFINE c == take_ack(conn[e], m.seq)
           d == after_send(c)
           z == call_rcv_handler(d)
           p == passed_back(c)
           a == accepted[Peer(e)]
           w == written[e]
<1>1. /\ conn[e] \in ConnectionType /\ conn[e].valid /\ m \in Datagram /\ m.seq \in Int
      /\ conn[e].old_sequence_no <= conn[e].send_sequence_no
      /\ m.dst = e /\ m.kind \in {"ack", "synack"}
      /\ conn' = [conn EXCEPT ![e] = z]
      /\ delivered' = [delivered EXCEPT ![e] = @ \o p]
      /\ timers' = [timers EXCEPT ![e] = @ \cup armed_by(c)]
      /\ UNCHANGED <<written, accepted, life>>
  <2>1. m \in Datagram
    BY DEF TypeInv, TypeOK
  <2>2. m.seq \in Int
    BY <2>1 DEF Datagram
  <2> QED BY <2>1, <2>2 DEF ReceiveAck, Arrival, TypeInv, TypeOK, SendStartsBeforeNext
<1>2. \E rest \in Delivered(m) : net' = rest \cup sent_by(e, c)
  BY DEF ReceiveAck
<1>3. /\ ReceiverInv(e) /\ SenderInv(e) /\ UnusedInv(e) /\ TimerInv(e) /\ NetInv(m)
      /\ ReceiverInv(Peer(e))
      /\ a \in Nat /\ w \in Nat /\ a <= w /\ Peer(e) \in Endpoint
      /\ accepted[e] \in Nat /\ written[Peer(e)] \in Nat
      /\ timers \in [Endpoint -> SUBSET Timer] /\ delivered \in [Endpoint -> Seq(Nat)]
      /\ conn \in [Endpoint -> ConnectionType]
  <2>1. Peer(e) \in Endpoint /\ Peer(Peer(e)) = e
    BY PeerOfEndpoint
  <2>2. ReceiverInv(e) /\ SenderInv(e) /\ UnusedInv(e) /\ TimerInv(e) /\ NetInv(m)
        /\ ReceiverInv(Peer(e))
    BY <2>1 DEF StreamInv
  <2>3. a <= w
    BY <2>1, <2>2 DEF ReceiverInv
  <2> QED BY <2>1, <2>2, <2>3 DEF TypeInv, TypeOK
<1>4. m.seq <= a
  <2>1. CASE m.kind = "ack"
    BY <1>1, <1>3, <2>1 DEF NetInv
  <2>2. CASE m.kind = "synack"
    <3>1. m.seq = -1
      BY <1>3, <2>2 DEF NetInv
    <3> QED BY <1>3, <3>1
  <2> QED BY <1>1, <2>1, <2>2
<1>5. SendsUpTo(conn[e], w) /\ conn[e].send_sequence_no \in 0..a
  BY <1>1, <1>3 DEF SenderInv
<1>6. /\ c \in ConnectionType /\ c.valid /\ c.sequence_no = conn[e].sequence_no
      /\ c.rcv_window = conn[e].rcv_window
      /\ SendsUpTo(c, w) /\ c.send_sequence_no \in 0..a
      /\ conn[e].send_sequence_no <= c.send_sequence_no
  <2> DEFINE x == conn[e]
             n == m.seq
  <2>1. /\ x \in ConnectionType /\ x.old_sequence_no <= x.send_sequence_no /\ n \in Int
        /\ c = take_ack(x, n) /\ n <= a /\ x.valid /\ a \in 0..w /\ w \in Nat
        /\ SendsUpTo(x, w) /\ x.send_sequence_no \in 0..a
    BY <1>1, <1>3, <1>4, <1>5
  <2> HIDE DEF x, n, c, a, w
  <2>2. /\ c \in ConnectionType /\ c.valid /\ c.sequence_no = x.sequence_no
        /\ c.rcv_window = x.rcv_window
        /\ c.write_buff = x.write_buff /\ c.valid_send_handler = x.valid_send_handler
        /\ c.old_sequence_no = x.old_sequence_no
        /\ n >= x.send_sequence_no =>
             c.send_sequence_no = n /\ c.write_index = n - x.old_sequence_no
        /\ ~(n >= x.send_sequence_no) =>
             c.send_sequence_no = x.send_sequence_no /\ c.write_index = x.write_index
    <3>1. /\ x \in ConnectionType /\ x.old_sequence_no <= x.send_sequence_no /\ n \in Int
          /\ c = take_ack(x, n)
      BY <2>1
    <3>2. c.valid = x.valid
      BY <3>1, TakeAckFields
    <3>3. /\ c \in ConnectionType /\ c.sequence_no = x.sequence_no /\ c.rcv_window = x.rcv_window
          /\ c.write_buff = x.write_buff /\ c.valid_send_handler = x.valid_send_handler
          /\ c.old_sequence_no = x.old_sequence_no
      BY <3>1, TakeAckFields
    <3>4. n >= x.send_sequence_no =>
            c.send_sequence_no = n /\ c.write_index = n - x.old_sequence_no
      BY <3>1, TakeAckFields
    <3>5. ~(n >= x.send_sequence_no) =>
            c.send_sequence_no = x.send_sequence_no /\ c.write_index = x.write_index
      BY <3>1, TakeAckFields
    <3> QED BY <2>1, <3>2, <3>3, <3>4, <3>5
  <2>3. /\ SendsUpTo(c, w) /\ c.send_sequence_no \in 0..a
        /\ x.send_sequence_no <= c.send_sequence_no
    BY <2>1, <2>2, TakeAckSends
  <2> QED BY <2>2, <2>3 DEF x
<1> HIDE DEF c
<1>7. /\ d \in ConnectionType /\ d.valid /\ d.sequence_no = conn[e].sequence_no
      /\ d.rcv_window = conn[e].rcv_window /\ d.valid_rcv_handler = c.valid_rcv_handler
  BY <1>6, AfterSendFields
<1>8. p = passed_back(d)
  BY <1>6, <1>7 DEF passed_back
<1> HIDE DEF d
<1>9. /\ z \in ConnectionType /\ z.valid = conn[e].valid /\ z.sequence_no = conn[e].sequence_no
      /\ p \in Seq(Nat) /\ p \o z.rcv_window = conn[e].rcv_window
      /\ SameSender(d, z)
  <2>1. /\ z \in ConnectionType /\ z.valid = d.valid /\ z.sequence_no = d.sequence_no
        /\ passed_back(d) \in Seq(Nat) /\ passed_back(d) \o z.rcv_window = d.rcv_window
        /\ z.send_sequence_no = d.send_sequence_no
        /\ z.write_buff = d.write_buff /\ z.write_index = d.write_index
        /\ z.valid_send_handler = d.valid_send_handler
        /\ z.old_sequence_no = d.old_sequence_no
    BY <1>7, ReceiveHandlerFields
  <2> QED BY <1>1, <1>7, <1>8, <2>1 DEF SameSender
<1> HIDE DEF z, p
<1>10. /\ conn'[e] = z /\ delivered'[e] = delivered[e] \o p
       /\ \A f \in Endpoint : f # e =>
            conn'[f] = conn[f] /\ delivered'[f] = delivered[f] /\ timers'[f] = timers[f]
  BY <1>1, <1>3 DEF z, p
<1>11. ReceiverInv(e)'
  <2>1. z = conn'[e] /\ accepted'[e] = accepted[e] /\ written[Peer(e)] <= written'[Peer(e)]
    BY <1>1, <1>3, <1>10
  <2> QED BY <1>3, <1>9, <1>10, <2>1, PassBackReceiver
<1>12. SendHyp(e, c, d)
  <2>1. life'[e] > 0
    <3>1. life[e] # 0 /\ life[e] \in 0..2
      BY <1>1, <1>3 DEF UnusedInv, TypeInv, TypeOK
    <3> QED BY <1>1, <3>1
  <2>2. \A t \in timers[e] : t.kind = "send" =>
          t.next <= c.send_sequence_no /\ t.next < written'[e]
    <3>1. SUFFICES ASSUME NEW t \in timers[e], t.kind = "send"
                   PROVE  t.next <= c.send_sequence_no /\ t.next < written'[e]
      OBVIOUS
    <3>2. t.next <= conn[e].send_sequence_no /\ t.next < written[e]
      BY <1>1, <1>3, <3>1 DEF TimerInv
    <3>3. t.next \in Int /\ conn[e].send_sequence_no \in Int /\ c.send_sequence_no \in Int
      BY <1>1, <1>3, <1>6 DEF Timer, ConnectionType
    <3> QED BY <1>1, <1>6, <3>2, <3>3
  <2>3. \A t \in timers'[e] : t \in timers[e] \/ t.kind # "send" \/ t \in armed_by(c)
    BY <1>1, <1>3
  <2>4. \A u \in net' : u \in net \/ NetInv(u)' \/ u \in sent_by(e, c)
    BY <1>2, DeliveredRest
  <2> QED BY <1>1, <1>6, <2>1, <2>2, <2>3, <2>4 DEF SendHyp, d
<1>13. SameSender(d, conn'[e])
  BY <1>9, <1>10
<1>14. /\ SenderInv(e)' /\ UnusedInv(e)' /\ TimerInv(e)'
       /\ \A u \in net' : u \in net \/ NetInv(u)'
  BY <1>12, <1>13, SendingStep
<1>15. accepted[e] <= accepted'[e] /\ written[e] <= written'[e]
  BY <1>1, <1>3
<1> QED BY <1>1, <1>10, <1>11, <1>14, <1>15, Frame

LEMMA AsyncSendStream ==
  ASSUME TypeInv, TypeInv', StreamInv, NEW e \in Endpoint, AsyncSend(e)
  PROVE  StreamInv'
<1> DEFINE x == conn[e]
           v == written[e]
           bytes(n) == Run(v, n)
<1>1. PICK n \in MessageSizes :
        LET c == set_send_handler(x, bytes(n)) IN
        /\ ~x.valid_send_handler
        /\ written' = [written EXCEPT ![e] = @ + n]
        /\ conn' = [conn EXCEPT ![e] = after_send(c)]
        /\ net' = net \cup sent_by(e, c)
        /\ timers' = [timers EXCEPT ![e] = @ \cup armed_by(c)]
        /\ UNCHANGED <<connections, open, finishing, accepted, delivered, life>>
  BY DEF AsyncSend
<1> DEFINE buff == bytes(n)
           c == set_send_handler(x, buff)
           d == after_send(c)
<1>2. /\ x \in ConnectionType /\ n \in Nat /\ v \in Nat /\ life[e] \in 0..2
      /\ conn \in [Endpoint -> ConnectionType] /\ timers \in [Endpoint -> SUBSET Timer]
      /\ written \in [Endpoint -> Nat] /\ accepted[e] \in Nat
      /\ Peer(e) \in Endpoint /\ accepted[Peer(e)] \in Nat
      /\ ReceiverInv(e) /\ SenderInv(e) /\ UnusedInv(e) /\ TimerInv(e)
  BY BoundAssumption, PeerOfEndpoint DEF TypeInv, TypeOK, StreamInv
<1>3. buff \in Seq(Nat) /\ Len(buff) = n
  BY <1>2, RunIsSeq
<1>4. buff = Run(v, n)
  OBVIOUS
<1> HIDE DEF buff
<1>5. /\ c \in ConnectionType /\ c.write_buff = buff /\ c.valid_send_handler
      /\ c.valid = x.valid /\ c.send_sequence_no = x.send_sequence_no
      /\ c.sequence_no = x.sequence_no /\ c.rcv_window = x.rcv_window
      /\ x.valid => c.write_index = 0 /\ c.old_sequence_no = x.send_sequence_no
  BY <1>2, <1>3, SetSendHandlerFields
<1>6. /\ conn' = [conn EXCEPT ![e] = d] /\ written' = [written EXCEPT ![e] = v + n]
      /\ net' = net \cup sent_by(e, c)
      /\ timers' = [timers EXCEPT ![e] = @ \cup armed_by(c)]
      /\ UNCHANGED <<accepted, delivered, life>> /\ ~x.valid_send_handler
  BY <1>1 DEF buff
<1> HIDE DEF c
<1>7. /\ d \in ConnectionType /\ d.valid = c.valid /\ d.sequence_no = c.sequence_no
      /\ d.rcv_window = c.rcv_window /\ d.write_buff = c.write_buff
      /\ d.send_sequence_no = c.send_sequence_no
      /\ ~c.valid => d.valid_send_handler
  BY <1>5, AfterSendFields
<1>8. /\ conn'[e] = d /\ written'[e] = v + n
      /\ \A f \in Endpoint : f # e =>
           conn'[f] = conn[f] /\ timers'[f] = timers[f] /\ written'[f] = written[f]
      /\ accepted'[e] = accepted[e]
      /\ written[e] <= written'[e] /\ written[Peer(e)] <= written'[Peer(e)]
  BY <1>2, <1>6, PeerOfEndpoint
<1>9. ReceiverInv(e)'
  <2>1. accepted'[e] <= written'[Peer(e)]
    BY <1>2, <1>6, <1>8, PeerOfEndpoint DEF ReceiverInv
  <2>2. d.valid = x.valid /\ d.sequence_no = x.sequence_no /\ d.rcv_window = x.rcv_window
    BY <1>5, <1>7
  <2> HIDE DEF d
  <2> QED BY <1>2, <1>6, <1>8, <2>1, <2>2 DEF ReceiverInv
<1>10. /\ SenderInv(e)' /\ UnusedInv(e)' /\ TimerInv(e)'
       /\ \A u \in net' : u \in net \/ NetInv(u)'
  <2>1. CASE x.valid
    <3>1. SendsUpTo(x, v) /\ x.send_sequence_no \in 0..accepted[Peer(e)]
      BY <1>2, <2>1 DEF SenderInv
    <3>2. x.send_sequence_no = v
      BY <1>6, <3>1 DEF SendsUpTo
    <3>3. SendsUpTo(c, v + n)
      <4>1. c.old_sequence_no = v /\ c.write_index = 0 /\ c.send_sequence_no = v
            /\ c.write_buff = Run(v, n) /\ Len(c.write_buff) = n
        BY <1>3, <1>4, <1>5, <2>1, <3>2
      <4>2. v \in 0..v /\ v <= v + n /\ 0 = v - v
        BY <1>2
      <4> QED BY <1>5, <4>1, <4>2 DEF SendsUpTo
    <3>4. life'[e] > 0
      <4>1. life[e] # 0
        BY <1>2, <2>1 DEF UnusedInv
      <4> QED BY <1>2, <1>6, <4>1
    <3>5. \A t \in timers[e] : t.kind = "send" =>
            t.next <= c.send_sequence_no /\ t.next < written'[e]
      <4>1. SUFFICES ASSUME NEW t \in timers[e], t.kind = "send"
                     PROVE  t.next <= c.send_sequence_no /\ t.next < written'[e]
        OBVIOUS
      <4>2. t.next <= x.send_sequence_no /\ t.next < v
        BY <1>2, <2>1, <4>1 DEF TimerInv
      <4>3. t.next \in Int
        BY <1>2, <4>1 DEF Timer
      <4> QED BY <1>2, <1>5, <1>8, <4>2, <4>3
    <3>6. \A t \in timers'[e] : t \in timers[e] \/ t.kind # "send" \/ t \in armed_by(c)
      BY <1>2, <1>6
    <3>7. \A u \in net' : u \in net \/ NetInv(u)' \/ u \in sent_by(e, c)
      BY <1>6
    <3>8. c.send_sequence_no \in 0..accepted'[Peer(e)] /\ SendsUpTo(c, written'[e])
      BY <1>5, <1>6, <1>8, <3>1, <3>3
    <3>9. SendHyp(e, c, d)
      BY <1>5, <2>1, <3>4, <3>5, <3>6, <3>7, <3>8 DEF SendHyp
    <3>10. SameSender(d, conn'[e])
      BY <1>8 DEF SameSender
    <3> HIDE DEF d
    <3> QED BY <3>9, <3>10, SendingStep
  <2>2. CASE ~x.valid
    <3>1. ~c.valid /\ ~d.valid /\ d.valid_send_handler /\ d.write_buff = buff
          /\ d.send_sequence_no = x.send_sequence_no
      BY <1>5, <1>7, <2>2
    <3>2. sent_by(e, c) = {} /\ armed_by(c) = {}
      BY <3>1 DEF sent_by, armed_by, sending
    <3> HIDE DEF d
    <3>3. SenderInv(e)'
      BY <1>8, <3>1 DEF SenderInv
    <3>4. UnusedInv(e)'
      <4>1. SUFFICES ASSUME life[e] = 0
                     PROVE  /\ accepted[e] = 0 /\ delivered[e] = <<>> /\ x.send_sequence_no = 0
                            /\ v + n = Len(buff) /\ buff = Run(0, Len(buff))
        BY <1>6, <1>8, <3>1 DEF UnusedInv
      <4>2. accepted[e] = 0 /\ delivered[e] = <<>> /\ x.send_sequence_no = 0 /\ v = 0
        BY <1>2, <1>6, <4>1 DEF UnusedInv
      <4> QED BY <1>2, <1>3, <1>4, <4>2
    <3>5. TimerInv(e)'
      <4>1. timers'[e] = timers[e]
        BY <1>2, <1>6, <3>2
      <4> QED BY <1>2, <1>6, <1>8, <3>1, <4>1 DEF TimerInv
    <3>6. \A u \in net' : u \in net \/ NetInv(u)'
      BY <1>6, <3>2
    <3> QED BY <3>3, <3>4, <3>5, <3>6
  <2> QED BY <2>1, <2>2
<1>11. accepted[e] <= accepted'[e]
  BY <1>2, <1>8
<1> QED BY <1>6, <1>8, <1>9, <1>10, <1>11, Frame

-----------------------------------------------------------------------------
(* Creation and close *)

LEMMA HandleFinStream ==
  ASSUME TypeInv, TypeInv', StreamInv, NEW e \in Endpoint, HandleFin(e)
  PROVE  StreamInv'
<1> DEFINE d == reset(conn[e])
           r == delivered[e]
           x == conn[e]
<1>1. /\ x \in ConnectionType /\ conn' = [conn EXCEPT ![e] = d]
      /\ conn \in [Endpoint -> ConnectionType] /\ r \in Seq(Nat)
      /\ life \in [Endpoint -> 0..2] /\ life' = [life EXCEPT ![e] = IF @ = 0 THEN 1 ELSE @]
      /\ net' = net /\ timers' = timers /\ UNCHANGED <<written, accepted, delivered>>
      /\ accepted[e] \in Nat /\ written[e] \in Nat
      /\ ReceiverInv(e) /\ TimerInv(e)
  BY DEF HandleFin, TypeInv, TypeOK, StreamInv
<1>2. d \in ConnectionType /\ ~d.valid /\ d.rcv_window = <<>>
  BY <1>1, ResetFields
<1> HIDE DEF d
<1>3. /\ conn'[e] = d /\ \A f \in Endpoint : f # e => conn'[f] = conn[f] /\ life'[f] = life[f]
      /\ life'[e] > 0
  <2>1. life[e] \in 0..2 /\ life'[e] = IF life[e] = 0 THEN 1 ELSE life[e]
    BY <1>1
  <2>2. life'[e] > 0
    BY <2>1
  <2> QED BY <1>1, <2>2
<1>4. Len(r) <= accepted[e] /\ r = Run(0, Len(r))
  <2>1. CASE x.valid
    <3> DEFINE s == x.rcv_window
               n == accepted[e]
    <3>1. r \in Seq(Nat) /\ s \in Seq(Nat) /\ n \in Nat /\ r \o s = Run(0, n)
      BY <1>1, <2>1 DEF ReceiverInv, ConnectionType
    <3> HIDE DEF r, s, n
    <3>2. Len(r) <= n /\ r = Run(0, Len(r))
      BY <3>1, RunPrefix
    <3> QED BY <3>2 DEF n
  <2>2. CASE ~x.valid
    BY <1>1, <2>2 DEF ReceiverInv
  <2> QED BY <2>1, <2>2
<1>5. ReceiverInv(e)'
  BY <1>1, <1>2, <1>3, <1>4 DEF ReceiverInv
<1>6. SenderInv(e)' /\ UnusedInv(e)' /\ TimerInv(e)'
  <2>1. SenderInv(e)'
    BY <1>2, <1>3 DEF SenderInv
  <2>2. UnusedInv(e)'
    <3>1. life'[e] # 0
      BY <1>3
    <3> QED BY <3>1 DEF UnusedInv
  <2>3. TimerInv(e)'
    BY <1>1, <1>2, <1>3 DEF TimerInv
  <2> QED BY <2>1, <2>2, <2>3
<1>7. accepted[e] <= accepted'[e] /\ written[e] <= written'[e]
  BY <1>1
<1> QED BY <1>1, <1>3, <1>5, <1>6, <1>7, Frame

LEMMA CreateConnectionStream ==
  ASSUME TypeInv, TypeInv', FreshInv, StreamInv, CreateConnection
  PROVE  StreamInv'
<1>1. Client \in Endpoint
  BY DEF Endpoint
<1>2. conn' = conn
  BY DEF CreateConnection, FreshInv, TypeInv, TypeOK
<1>3. /\ UNCHANGED history
      /\ timers' = [timers EXCEPT ![Client] = timers[Client] \cup {Arm("syn", -1)}]
      /\ \A u \in net' : u \in net \/ u = Syn(Client)
  BY DEF CreateConnection
<1>4. \A f \in Endpoint : \A t \in timers'[f] : t \in timers[f] \/ t.kind # "send"
  <2> DEFINE S == timers[Client] \cup {Arm("syn", -1)}
  <2>1. \A t \in S : t \in timers[Client] \/ t.kind # "send"
    BY DEF Arm
  <2> HIDE DEF S
  <2> QED BY <1>1, <1>3, <2>1, TimersShrink DEF S
<1>5. NetInv(Syn(Client))
  BY <1>1, ControlNetInv
<1> QED BY <1>2, <1>3, <1>4, <1>5, QuietStep DEF SameStream

\* A connection that was never created or heard of has no history.
LEMMA FreshStep ==
  ASSUME TypeInv, TypeInv', FreshInv, [Next]_vars
  PROVE  FreshInv'
<1> DEFINE Untouched ==
      /\ conn'[Client] = conn[Client] /\ written'[Client] = written[Client]
      /\ life'[Client] = life[Client] /\ finishing'[Client] = finishing[Client]
<1>1. SUFFICES ASSUME ~connections'[Client]
               PROVE  ~connections[Client] /\ Untouched
  BY DEF FreshInv
<1>2. /\ Client \in Endpoint
      /\ connections \in [Endpoint -> BOOLEAN] /\ conn \in [Endpoint -> ConnectionType]
      /\ written \in [Endpoint -> Nat] /\ life \in [Endpoint -> 0..2]
      /\ finishing \in [Endpoint -> Nat]
  BY DEF Endpoint, TypeInv, TypeOK
<1>3. CASE CreateConnection
  BY <1>1, <1>2, <1>3 DEF CreateConnection
<1>4. ASSUME NEW e \in Endpoint, Application(e)
      PROVE  ~connections[Client] /\ Untouched
  <2>1. connections' = connections
    BY <1>4 DEF Application, AsyncSend, AsyncRcv, CloseConnection, CloseSocket
  <2>2. e # Client \/ CloseSocket(e)
    BY <1>1, <1>4, <2>1 DEF Application, AsyncSend, AsyncRcv, CloseConnection, Holds
  <2> QED BY <1>1, <1>2, <1>4, <2>1, <2>2
             DEF Application, AsyncSend, AsyncRcv, CloseConnection, CloseSocket, history
<1>5. ASSUME NEW e \in Endpoint, HandleFin(e)
      PROVE  ~connections[Client] /\ Untouched
  <2>1. connections' = connections /\ ~connections[Client]
    BY <1>1, <1>5 DEF HandleFin
  <2>2. e # Client
    BY <1>2, <1>5, <2>1 DEF HandleFin, FreshInv
  <2> QED BY <1>2, <1>5, <2>1, <2>2 DEF HandleFin
<1>6. ASSUME NEW e \in Endpoint, NEW t \in timers[e], Fires(e, t)
      PROVE  ~connections[Client] /\ Untouched
  <2>1. connections' = connections /\ ~connections[Client]
    BY <1>1, <1>6 DEF Fires, ConnectionTimeout, SendTimeout, AckTimeout, TimerDropped
  <2>2. ~conn[Client].valid
    BY <2>1 DEF FreshInv, NewConnection
  <2>3. CASE ConnectionTimeout(e, t) \/ TimerDropped(e, t)
    BY <2>1, <2>3 DEF ConnectionTimeout, TimerDropped, history
  <2>4. CASE SendTimeout(e, t) \/ AckTimeout(e, t)
    <3>1. e # Client
      BY <2>2, <2>4 DEF SendTimeout, AckTimeout, segment_waits, ack_waits
    <3> QED BY <1>2, <2>1, <2>4, <3>1 DEF SendTimeout, AckTimeout, history
  <2> QED BY <1>6, <2>3, <2>4 DEF Fires
<1>7. ASSUME NEW m \in net, Receive(m.dst, m)
      PROVE  ~connections[Client] /\ Untouched
  <2> DEFINE e == m.dst
  <2>1. e \in Endpoint
    BY DEF TypeInv, TypeOK, Datagram
  <2>2. /\ connections' = [connections EXCEPT ![e] = TRUE]
        /\ \/ UNCHANGED <<conn, finishing, history>>
           \/ /\ \E d : conn' = [conn EXCEPT ![e] = d]
              /\ \E n : finishing' = [finishing EXCEPT ![e] = n]
              /\ \E n : life' = [life EXCEPT ![e] = n]
              /\ written' = written
    <3>1. connections' = [connections EXCEPT ![e] = TRUE]
      BY <1>7 DEF Receive, Arrival, ReceiveSyn, ReceiveSynAck, ReceiveFinalAck, ReceiveFirstData,
                  IgnoreWhileInvalid, ReceiveData, ReceiveAck, ReceiveFin, ReceiveLateSyn
    <3>2. finishing' = finishing => \E n : finishing' = [finishing EXCEPT ![e] = n]
      <4>1. finishing = [finishing EXCEPT ![e] = finishing[e]]
        BY <1>2, <2>1
      <4> QED BY <4>1
    <3>3. life' = life => \E n : life' = [life EXCEPT ![e] = n]
      <4>1. life = [life EXCEPT ![e] = life[e]]
        BY <1>2, <2>1
      <4> QED BY <4>1
    <3> HIDE DEF e
    <3> QED BY <1>7, <3>1, <3>2, <3>3
               DEF e, Receive, ReceiveSyn, ReceiveSynAck, ReceiveFinalAck, ReceiveFirstData,
                   IgnoreWhileInvalid, ReceiveData, HandleData, ReceiveAck, ReceiveFin,
                   ReceiveLateSyn, BecomeValid, history
  <2>3. e # Client
    BY <1>1, <1>2, <2>2
  <2> HIDE DEF e
  <2>4. connections'[Client] = connections[Client]
    BY <1>2, <2>2, <2>3
  <2> QED BY <1>1, <1>2, <2>2, <2>3, <2>4 DEF history
<1>8. ASSUME NEW m \in net, Lose(m)
      PROVE  ~connections[Client] /\ Untouched
  BY <1>1, <1>8 DEF Lose, history
<1>9. CASE UNCHANGED vars
  BY <1>1, <1>9 DEF vars
<1> QED BY <1>3, <1>4, <1>5, <1>6, <1>7, <1>8, <1>9 DEF Next

\* A second life does not end.
LEMMA FirstLifeBack ==
  ASSUME TypeInv, [Next]_vars, FirstLife'
  PROVE  FirstLife
<1>1. life \in [Endpoint -> 0..2]
  BY DEF TypeInv, TypeOK
<1>2. CASE UNCHANGED life
  BY <1>2 DEF FirstLife
<1>3. ASSUME NEW e \in Endpoint, BecomeValid(e)
      PROVE  FirstLife
  <2>1. life' = [life EXCEPT ![e] = life[e] + 1]
    BY <1>3 DEF BecomeValid
  <2>2. \A f \in Endpoint : life[f] \in 0..2 /\ (life'[f] = life[f] \/ life'[f] = life[f] + 1)
    BY <1>1, <2>1
  <2> QED BY <2>2 DEF FirstLife
<1>4. ASSUME NEW e \in Endpoint, HandleFin(e)
      PROVE  FirstLife
  <2>1. \A f \in Endpoint : life'[f] = life[f] \/ life[f] = 0
    BY <1>1, <1>4 DEF HandleFin
  <2> QED BY <2>1 DEF FirstLife
<1>5. [Next]_vars => \/ UNCHANGED life
                     \/ \E e \in Endpoint : BecomeValid(e) \/ HandleFin(e)
  <2>1. CASE CreateConnection \/ UNCHANGED vars
    BY <2>1 DEF CreateConnection, vars, history
  <2>2. ASSUME NEW e \in Endpoint, Application(e)
        PROVE  UNCHANGED life
    BY <2>2 DEF Application, AsyncSend, AsyncRcv, CloseConnection, CloseSocket, history
  <2>3. ASSUME NEW e \in Endpoint, NEW t \in timers[e], Fires(e, t)
        PROVE  UNCHANGED life
    BY <2>3 DEF Fires, ConnectionTimeout, SendTimeout, AckTimeout, TimerDropped, history
  <2>4. ASSUME NEW m \in net, Receive(m.dst, m)
        PROVE  UNCHANGED life \/ \E e \in Endpoint : BecomeValid(e)
    <3>1. m.dst \in Endpoint
      BY DEF TypeInv, TypeOK, Datagram
    <3>2. UNCHANGED life \/ BecomeValid(m.dst)
      BY <2>4 DEF Receive, ReceiveSyn, ReceiveSynAck, ReceiveFinalAck, ReceiveFirstData,
                  IgnoreWhileInvalid, ReceiveData, ReceiveAck, ReceiveFin, ReceiveLateSyn, history
    <3> QED BY <3>1, <3>2
  <2>5. ASSUME NEW m \in net, Lose(m)
        PROVE  UNCHANGED life
    BY <2>5 DEF Lose, history
  <2> QED BY <2>1, <2>2, <2>3, <2>4, <2>5 DEF Next
<1> QED BY <1>2, <1>3, <1>4, <1>5

-----------------------------------------------------------------------------
(* The invariant *)

LEMMA InitInv == Init => IInv
<1> SUFFICES ASSUME Init PROVE IInv
  OBVIOUS
<1>1. TypeInv
  BY InitType
<1>2. FreshInv
  BY DEF Init, FreshInv, Endpoint
<1>3. ASSUME NEW e \in Endpoint
      PROVE  ReceiverInv(e) /\ SenderInv(e) /\ UnusedInv(e) /\ TimerInv(e)
  <2>1. /\ conn[e] = NewConnection /\ written[e] = 0 /\ written[Peer(e)] = 0
        /\ accepted[e] = 0 /\ delivered[e] = <<>> /\ timers[e] = {}
    BY PeerOfEndpoint DEF Init
  <2>2. /\ ~conn[e].valid /\ conn[e].rcv_window = <<>> /\ ~conn[e].valid_send_handler
        /\ conn[e].send_sequence_no = 0
    BY <2>1 DEF NewConnection
  <2>3. Len(delivered[e]) = 0 /\ <<>> = Run(0, 0)
    BY <2>1, EmptySeq, EmptyRun
  <2>4. ReceiverInv(e)
    BY <2>1, <2>2, <2>3 DEF ReceiverInv
  <2>5. SenderInv(e) /\ TimerInv(e)
    BY <2>1, <2>2 DEF SenderInv, TimerInv
  <2>6. UnusedInv(e)
    BY <2>1, <2>2 DEF UnusedInv
  <2> QED BY <2>4, <2>5, <2>6
<1>4. net = {}
  BY DEF Init
<1> QED BY <1>1, <1>2, <1>3, <1>4 DEF IInv, StreamInv, TypeInv

LEMMA StepStream ==
  ASSUME TypeInv, TypeInv', FreshInv, StreamInv, FirstLife', [Next]_vars
  PROVE  StreamInv'
<1>1. CASE CreateConnection
  BY <1>1, CreateConnectionStream
<1>2. ASSUME NEW e \in Endpoint, Application(e)
      PROVE  StreamInv'
  BY <1>2, AsyncSendStream, AsyncRcvStream, CloseStream DEF Application
<1>3. ASSUME NEW e \in Endpoint, HandleFin(e)
      PROVE  StreamInv'
  BY <1>3, HandleFinStream
<1>4. ASSUME NEW e \in Endpoint, NEW t \in timers[e], Fires(e, t)
      PROVE  StreamInv'
  BY <1>4, ConnectionTimeoutStream, SendTimeoutStream, AckTimeoutStream,
     TimerDroppedStream DEF Fires
<1>5. ASSUME NEW m \in net, Receive(m.dst, m)
      PROVE  StreamInv'
  <2>1. m.dst \in Endpoint
    BY DEF TypeInv, TypeOK, Datagram
  <2> QED BY <1>5, <2>1, ReceiveSynStream, ReceiveSynAckStream, ReceiveFinalAckStream,
             ReceiveFirstDataStream, IgnoreStream, ReceiveDataStream, ReceiveAckStream,
             ReceiveFinStream DEF Receive
<1>6. ASSUME NEW m \in net, Lose(m)
      PROVE  StreamInv'
  BY <1>6, LoseStream
<1>7. CASE UNCHANGED vars
  BY <1>7 DEF vars, StreamInv, ReceiverInv, SenderInv, UnusedInv, TimerInv, NetInv
<1> QED BY <1>1, <1>2, <1>3, <1>4, <1>5, <1>6, <1>7 DEF Next

LEMMA StepInv == IInv /\ [Next]_vars => IInv'
<1> SUFFICES ASSUME IInv, [Next]_vars
             PROVE  IInv'
  OBVIOUS
<1>1. TypeInv /\ FreshInv /\ (FirstLife => StreamInv)
  BY DEF IInv, TypeInv
<1>2. TypeInv'
  BY <1>1, StepType
<1>3. FreshInv'
  BY <1>1, <1>2, FreshStep
<1>4. FirstLife' => StreamInv'
  BY <1>1, <1>2, FirstLifeBack, StepStream
<1> QED BY <1>2, <1>3, <1>4 DEF IInv, TypeInv

\* The stream invariant: what each half of each connection, each datagram and
\* each retransmission timer knows of the two byte streams.
THEOREM StreamInvariant == Spec => []IInv
BY InitInv, StepInv, PTL DEF Spec

LEMMA InvDelivers == IInv => DeliveredIsPrefix
<1> SUFFICES ASSUME IInv, FirstLife, NEW e \in Endpoint
             PROVE  /\ delivered[e] = Run(0, Len(delivered[e]))
                    /\ Len(delivered[e]) <= written[Peer(e)]
  BY DEF DeliveredIsPrefix
<1>1. ReceiverInv(e) /\ accepted[e] <= written[Peer(e)]
  BY DEF IInv, StreamInv, ReceiverInv
<1>2. /\ delivered[e] \in Seq(Nat) /\ conn[e].rcv_window \in Seq(Nat)
      /\ accepted[e] \in Nat /\ written[Peer(e)] \in Nat /\ Len(delivered[e]) \in Nat
  BY PeerOfEndpoint DEF IInv, TypeOK, ConnectionType
<1>3. Len(delivered[e]) <= accepted[e] /\ delivered[e] = Run(0, Len(delivered[e]))
  <2>1. CASE conn[e].valid
    <3> DEFINE s == delivered[e]
               t == conn[e].rcv_window
               n == accepted[e]
    <3>1. s \in Seq(Nat) /\ t \in Seq(Nat) /\ n \in Nat /\ s \o t = Run(0, n)
      BY <1>1, <1>2, <2>1 DEF ReceiverInv
    <3> HIDE DEF s, t, n
    <3>2. Len(s) <= n /\ s = Run(0, Len(s))
      BY <3>1, RunPrefix
    <3> QED BY <3>2 DEF s, n
  <2>2. CASE ~conn[e].valid
    BY <1>1, <2>2 DEF ReceiverInv
  <2> QED BY <2>1, <2>2
<1> QED BY <1>1, <1>2, <1>3

\* Applications are given what was written, in order, once, whatever the
\* network does and whenever the timers fire.
THEOREM Delivery == Spec => []DeliveredIsPrefix
BY StreamInvariant, InvDelivers, PTL

LEMMA InvCompletes == IInv => NoFalseCompletion
<1> SUFFICES ASSUME IInv, FirstLife, NEW e \in Endpoint,
                    conn[e].valid, ~conn[e].valid_send_handler
             PROVE  accepted[Peer(e)] = written[e]
  BY DEF NoFalseCompletion
<1>1. SenderInv(e) /\ ReceiverInv(Peer(e)) /\ Peer(Peer(e)) = e
      /\ accepted[Peer(e)] \in Nat /\ written[e] \in Nat
  BY PeerOfEndpoint DEF IInv, StreamInv, TypeOK
<1>2. conn[e].send_sequence_no \in 0..accepted[Peer(e)] /\ conn[e].send_sequence_no = written[e]
  BY <1>1 DEF SenderInv, SendsUpTo
<1>3. accepted[Peer(e)] <= written[e]
  BY <1>1 DEF ReceiverInv
<1> QED BY <1>1, <1>2, <1>3

\* A send handler is told of success only when the peer took every byte.
THEOREM Completion == Spec => []NoFalseCompletion
BY StreamInvariant, InvCompletes, PTL

=============================================================================
