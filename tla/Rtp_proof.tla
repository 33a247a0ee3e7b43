----------------------------- MODULE Rtp_proof -----------------------------
(***************************************************************************)
(* Type correctness of Rtp for every value of its constants, and what the  *)
(* proofs of Delivery_proof need to know of runs of consecutive bytes.     *)
(***************************************************************************)
EXTENDS RtpInvariant, Connection_proof

LEMMA PeerOfEndpoint ==
  \A e \in Endpoint : Peer(e) \in Endpoint /\ Peer(Peer(e)) = e /\ Peer(e) # e
BY EndpointAssumption DEF Endpoint, Peer

-----------------------------------------------------------------------------
(* Type correctness *)

TypeInv == TypeOK /\ SendStartsBeforeNext

\* What every handler does to conn: one endpoint's record is replaced.
LEMMA ConnUpdate ==
  ASSUME TypeInv, NEW e \in Endpoint, NEW d \in ConnectionType,
         d.old_sequence_no <= d.send_sequence_no,
         conn' = [conn EXCEPT ![e] = d]
  PROVE  conn' \in [Endpoint -> ConnectionType] /\ SendStartsBeforeNext'
<1>1. conn \in [Endpoint -> ConnectionType]
  BY DEF TypeInv, TypeOK
<1>2. conn' \in [Endpoint -> ConnectionType]
  BY <1>1
<1>3. \A f \in Endpoint : conn'[f].old_sequence_no <= conn'[f].send_sequence_no
  BY <1>1 DEF TypeInv, SendStartsBeforeNext
<1> QED BY <1>2, <1>3 DEF SendStartsBeforeNext

LEMMA DatagramTypes ==
  ASSUME NEW e \in Endpoint
  PROVE  /\ Syn(e) \in Datagram /\ SynAck(e) \in Datagram /\ Fin(e) \in Datagram
         /\ \A n \in Int : Ack(e, n) \in Datagram
         /\ \A n \in Int, bytes \in Seq(Nat) : Data(e, n, bytes) \in Datagram
<1>1. Peer(e) \in Endpoint /\ Window[e] \in Nat /\ <<>> \in Seq(Nat)
  BY PeerOfEndpoint, BoundAssumption
<1>2. Syn(e) \in Datagram
  BY <1>1 DEF Syn, Control, Datagram
<1>3. SynAck(e) \in Datagram
  BY <1>1 DEF SynAck, Control, Datagram
<1>4. Fin(e) \in Datagram
  BY <1>1 DEF Fin, Control, Datagram
<1>5. \A n \in Int : Ack(e, n) \in Datagram
  BY <1>1 DEF Ack, Control, Datagram
<1>6. \A n \in Int, bytes \in Seq(Nat) : Data(e, n, bytes) \in Datagram
  BY <1>1 DEF Data, Datagram
<1> QED BY <1>2, <1>3, <1>4, <1>5, <1>6

LEMMA SentTypes ==
  ASSUME NEW e \in Endpoint, NEW c \in ConnectionType
  PROVE  /\ sent_by(e, c) \subseteq Datagram
         /\ armed_by(c) \subseteq Timer
<1>1. package_seq(c) \in Int /\ c.send_sequence_no \in Int
  BY DEF package_seq, ConnectionType
<1>2. package_message(c) \in Seq(Nat)
  BY PackageSlice
<1>3. Data(e, package_seq(c), package_message(c)) \in Datagram
  BY <1>1, <1>2, DatagramTypes
<1>4. Arm("send", c.send_sequence_no) \in Timer
  BY <1>1 DEF Arm, Timer
<1> QED BY <1>3, <1>4 DEF sent_by, armed_by

LEMMA RunIsSeq ==
  ASSUME NEW from \in Nat, NEW n \in Nat
  PROVE  /\ Run(from, n) \in Seq(Nat)
         /\ Len(Run(from, n)) = n
         /\ \A i \in 1..n : Run(from, n)[i] = from + i
BY DEF Run

LEMMA DeliveredRest ==
  ASSUME NEW m, NEW rest \in Delivered(m)
  PROVE  rest \subseteq net
BY DEF Delivered

LEMMA InitType == Init => TypeInv
<1> SUFFICES ASSUME Init PROVE TypeInv
  OBVIOUS
<1>1. conn = [e \in Endpoint |-> NewConnection]
  BY DEF Init
<1>2. conn \in [Endpoint -> ConnectionType] /\ SendStartsBeforeNext
  BY <1>1, NewConnectionType DEF SendStartsBeforeNext, NewConnection
<1>3. delivered \in [Endpoint -> Seq(Nat)]
  BY DEF Init
<1> QED BY <1>2, <1>3 DEF Init, TypeInv, TypeOK

LEMMA BecomeValidType ==
  ASSUME TypeInv, NEW e \in Endpoint, BecomeValid(e)
  PROVE  life' \in [Endpoint -> 0..2] /\ UNCHANGED written
<1>1. life \in [Endpoint -> 0..2] /\ MaxLives \in 1..2
  BY BoundAssumption DEF TypeInv, TypeOK
<1>2. life[e] \in 0..2 /\ life[e] < MaxLives /\ life' = [life EXCEPT ![e] = life[e] + 1]
  BY <1>1 DEF BecomeValid
<1>3. life[e] + 1 \in 0..2
  BY <1>1, <1>2
<1> QED BY <1>1, <1>2, <1>3 DEF BecomeValid

LEMMA CreateConnectionType ==
  ASSUME TypeInv, CreateConnection
  PROVE  TypeInv'
<1>1. Client \in Endpoint /\ Syn(Client) \in Datagram /\ Arm("syn", -1) \in Timer
  BY DatagramTypes DEF Endpoint, Arm, Timer
<1>2. NewConnection \in ConnectionType /\ NewConnection.old_sequence_no <= NewConnection.send_sequence_no
  BY NewConnectionType DEF NewConnection
<1>3. conn' = [conn EXCEPT ![Client] = NewConnection]
  BY DEF CreateConnection
<1>4. conn' \in [Endpoint -> ConnectionType] /\ SendStartsBeforeNext'
  BY <1>1, <1>2, <1>3, ConnUpdate
<1> QED BY <1>1, <1>4 DEF CreateConnection, TypeInv, TypeOK, history

LEMMA AsyncSendType ==
  ASSUME TypeInv, NEW e \in Endpoint, AsyncSend(e)
  PROVE  TypeInv'
<1>1. PICK n \in MessageSizes :
        LET c == set_send_handler(conn[e], Run(written[e], n)) IN
        /\ written' = [written EXCEPT ![e] = @ + n]
        /\ conn' = [conn EXCEPT ![e] = after_send(c)]
        /\ net' = net \cup sent_by(e, c)
        /\ timers' = [timers EXCEPT ![e] = @ \cup armed_by(c)]
        /\ UNCHANGED <<connections, open, finishing, accepted, delivered, life>>
  BY DEF AsyncSend
<1> DEFINE c == set_send_handler(conn[e], Run(written[e], n))
           d == after_send(c)
<1>2. n \in Nat /\ written[e] \in Nat /\ conn[e] \in ConnectionType
      /\ conn[e].old_sequence_no <= conn[e].send_sequence_no
      /\ conn[e].send_sequence_no \in Int
  BY BoundAssumption DEF TypeInv, TypeOK, SendStartsBeforeNext, ConnectionType
<1>3. Run(written[e], n) \in Seq(Nat)
  BY <1>2, RunIsSeq
<1>4. c \in ConnectionType /\ c.old_sequence_no <= c.send_sequence_no
  BY <1>2, <1>3, SetSendHandlerFields
<1>5. d \in ConnectionType /\ d.old_sequence_no <= d.send_sequence_no
  <2>1. c.send_sequence_no <= c.send_sequence_no
    BY <1>4 DEF ConnectionType
  <2> HIDE DEF c
  <2> QED BY <1>4, <2>1, AfterSendFields
<1>6. sent_by(e, c) \subseteq Datagram /\ armed_by(c) \subseteq Timer
  BY <1>4, SentTypes
<1>7. /\ conn' = [conn EXCEPT ![e] = d]
      /\ net' = net \cup sent_by(e, c)
      /\ timers' = [timers EXCEPT ![e] = @ \cup armed_by(c)]
  BY <1>1
<1> HIDE DEF c, d
<1>8. conn' \in [Endpoint -> ConnectionType] /\ SendStartsBeforeNext'
  BY <1>5, <1>7, ConnUpdate
<1> QED BY <1>1, <1>2, <1>6, <1>7, <1>8 DEF TypeInv, TypeOK

LEMMA AsyncRcvType ==
  ASSUME TypeInv, NEW e \in Endpoint, AsyncRcv(e)
  PROVE  TypeInv'
<1> DEFINE c == set_rcv_handler(conn[e])
           d == IF c.rcv_window # <<>> THEN call_rcv_handler(c) ELSE c
<1>1. conn[e] \in ConnectionType /\ conn[e].old_sequence_no <= conn[e].send_sequence_no
  BY DEF TypeInv, TypeOK, SendStartsBeforeNext
<1>2. c \in ConnectionType /\ c.old_sequence_no <= c.send_sequence_no
  BY <1>1, SetRcvHandlerFields
<1>3. /\ conn' = [conn EXCEPT ![e] = d]
      /\ delivered' = [delivered EXCEPT ![e] = @ \o passed_back(c)]
      /\ UNCHANGED <<connections, open, timers, finishing, net, written, accepted, life>>
  BY DEF AsyncRcv
<1> HIDE DEF c
<1>4. d \in ConnectionType /\ d.old_sequence_no <= d.send_sequence_no /\ passed_back(c) \in Seq(Nat)
  BY <1>2, ReceiveHandlerFields
<1> HIDE DEF d
<1>5. conn' \in [Endpoint -> ConnectionType] /\ SendStartsBeforeNext'
  BY <1>3, <1>4, ConnUpdate
<1>6. delivered' \in [Endpoint -> Seq(Nat)]
  BY <1>3, <1>4 DEF TypeInv, TypeOK
<1> QED BY <1>3, <1>5, <1>6 DEF TypeInv, TypeOK

LEMMA CloseType ==
  ASSUME TypeInv, NEW e \in Endpoint, CloseConnection(e) \/ CloseSocket(e)
  PROVE  TypeInv'
<1>1. CASE CloseConnection(e)
  <2>1. Fin(e) \in Datagram
    BY DatagramTypes
  <2> QED BY <1>1, <2>1 DEF CloseConnection, TypeInv, TypeOK, SendStartsBeforeNext, history
<1>2. CASE CloseSocket(e)
  BY <1>2 DEF CloseSocket, TypeInv, TypeOK, SendStartsBeforeNext, history
<1> QED BY <1>1, <1>2

LEMMA ReceiveSynType ==
  ASSUME TypeInv, NEW e \in Endpoint, NEW m \in net, ReceiveSyn(e, m)
  PROVE  TypeInv'
<1> DEFINE c1 == [conn[e] EXCEPT !.sequence_no = m.seq + 1]
           d == [c1 EXCEPT !.remote_window_size = m.window]
<1>1. /\ conn[e] \in ConnectionType /\ conn[e].old_sequence_no <= conn[e].send_sequence_no
      /\ m \in Datagram /\ m.seq + 1 \in Int /\ m.window \in Int
  BY DEF TypeInv, TypeOK, SendStartsBeforeNext, Datagram
<1>2. c1 \in ConnectionType
  BY <1>1, FieldUpdate
<1>3. d \in ConnectionType
  <2> HIDE DEF c1
  <2> QED BY <1>1, <1>2, FieldUpdate
<1>4. d.old_sequence_no <= d.send_sequence_no
  BY <1>1 DEF ConnectionType
<1>5. conn' = [conn EXCEPT ![e] = d]
  BY DEF ReceiveSyn
<1> HIDE DEF d
<1>6. conn' \in [Endpoint -> ConnectionType] /\ SendStartsBeforeNext'
  BY <1>3, <1>4, <1>5, ConnUpdate
<1>7. PICK rest \in Delivered(m) : net' = rest \cup {SynAck(e)}
  BY DEF ReceiveSyn
<1>8. net' \subseteq Datagram
  BY <1>7, DatagramTypes, DeliveredRest DEF TypeInv, TypeOK
<1>9. Arm("synack", 0) \in Timer
  BY DEF Arm, Timer
<1> QED BY <1>6, <1>8, <1>9 DEF ReceiveSyn, Arrival, TypeInv, TypeOK, history

LEMMA ReceiveSynAckType ==
  ASSUME TypeInv, NEW e \in Endpoint, NEW m \in net, ReceiveSynAck(e, m)
  PROVE  TypeInv'
<1> DEFINE b == [conn[e] EXCEPT !.remote_window_size = m.window]
           c == establish(b, m.seq + 1)
           d == after_send(c)
<1>1. /\ conn[e] \in ConnectionType /\ m \in Datagram
      /\ m.seq + 1 \in Int /\ m.window \in Int
  BY DEF TypeInv, TypeOK, Datagram
<1>2. b \in ConnectionType
  BY <1>1, FieldUpdate
<1>3. c \in ConnectionType /\ c.old_sequence_no = c.send_sequence_no
  <2> HIDE DEF b
  <2> QED BY <1>1, <1>2, EstablishFields
<1>4. d \in ConnectionType /\ d.old_sequence_no <= d.send_sequence_no
  <2> HIDE DEF c
  <2>1. c.send_sequence_no \in Int
    BY <1>3 DEF ConnectionType
  <2> QED BY <1>3, <2>1, AfterSendFields
<1>5. sent_by(e, c) \subseteq Datagram /\ armed_by(c) \subseteq Timer
      /\ Ack(e, 0) \in Datagram /\ Arm("finalack", 0) \in Timer
  BY <1>3, SentTypes, DatagramTypes DEF Arm, Timer
<1>6. PICK rest \in Delivered(m) : net' = rest \cup {Ack(e, 0)} \cup sent_by(e, c)
  BY DEF ReceiveSynAck
<1>7. /\ conn' = [conn EXCEPT ![e] = d]
      /\ timers' = [timers EXCEPT ![e] = @ \cup {Arm("finalack", 0)} \cup armed_by(c)]
  BY DEF ReceiveSynAck
<1> HIDE DEF c, d
<1>8. conn' \in [Endpoint -> ConnectionType] /\ SendStartsBeforeNext'
  BY <1>4, <1>7, ConnUpdate
<1>9. net' \subseteq Datagram
  BY <1>5, <1>6, DeliveredRest DEF TypeInv, TypeOK
<1>10. timers' \in [Endpoint -> SUBSET Timer]
  BY <1>5, <1>7 DEF TypeInv, TypeOK
<1>11. life' \in [Endpoint -> 0..2] /\ UNCHANGED written
  BY BecomeValidType DEF ReceiveSynAck
<1>12. delivered' \in [Endpoint -> Seq(Nat)] /\ accepted' \in [Endpoint -> Nat]
  BY DEF ReceiveSynAck, TypeInv, TypeOK
<1> QED BY <1>8, <1>9, <1>10, <1>11, <1>12 DEF ReceiveSynAck, Arrival, TypeInv, TypeOK

LEMMA ReceiveFinalAckType ==
  ASSUME TypeInv, NEW e \in Endpoint, NEW m \in net, ReceiveFinalAck(e, m)
  PROVE  TypeInv'
<1> DEFINE c == establish(conn[e], m.seq)
           d == after_send(c)
<1>1. conn[e] \in ConnectionType /\ m.seq \in Int
  BY DEF TypeInv, TypeOK, Datagram
<1>2. c \in ConnectionType /\ c.old_sequence_no = c.send_sequence_no
  BY <1>1, EstablishFields
<1>3. d \in ConnectionType /\ d.old_sequence_no <= d.send_sequence_no
  <2> HIDE DEF c
  <2>1. c.send_sequence_no \in Int
    BY <1>2 DEF ConnectionType
  <2> QED BY <1>2, <2>1, AfterSendFields
<1>4. sent_by(e, c) \subseteq Datagram /\ armed_by(c) \subseteq Timer
  BY <1>2, SentTypes
<1>5. PICK rest \in Delivered(m) : net' = rest \cup sent_by(e, c)
  BY DEF ReceiveFinalAck
<1>6. /\ conn' = [conn EXCEPT ![e] = d]
      /\ timers' = [timers EXCEPT ![e] = @ \cup armed_by(c)]
  BY DEF ReceiveFinalAck
<1> HIDE DEF c, d
<1>7. conn' \in [Endpoint -> ConnectionType] /\ SendStartsBeforeNext'
  BY <1>3, <1>6, ConnUpdate
<1>8. net' \subseteq Datagram
  BY <1>4, <1>5, DeliveredRest DEF TypeInv, TypeOK
<1>9. timers' \in [Endpoint -> SUBSET Timer]
  BY <1>4, <1>6 DEF TypeInv, TypeOK
<1>10. life' \in [Endpoint -> 0..2] /\ UNCHANGED written
  BY BecomeValidType DEF ReceiveFinalAck
<1>11. delivered' \in [Endpoint -> Seq(Nat)] /\ accepted' \in [Endpoint -> Nat]
  BY DEF ReceiveFinalAck, TypeInv, TypeOK
<1> QED BY <1>7, <1>8, <1>9, <1>10, <1>11 DEF ReceiveFinalAck, Arrival, TypeInv, TypeOK

LEMMA IgnoreType ==
  ASSUME TypeInv, NEW e \in Endpoint, NEW m \in net, IgnoreWhileInvalid(e, m)
  PROVE  TypeInv'
BY DeliveredRest DEF IgnoreWhileInvalid, Arrival, TypeInv, TypeOK, SendStartsBeforeNext, history

LEMMA HandleDataType ==
  ASSUME TypeInv, NEW e \in Endpoint, NEW m \in net, NEW c \in ConnectionType,
         c.old_sequence_no <= c.send_sequence_no,
         NEW taken \in Nat, NEW received \in Seq(Nat),
         HandleData(e, m, c, taken, received)
  PROVE  /\ conn' \in [Endpoint -> ConnectionType] /\ SendStartsBeforeNext'
         /\ accepted' \in [Endpoint -> Nat] /\ delivered' \in [Endpoint -> Seq(Nat)]
         /\ net' \subseteq Datagram /\ timers' \in [Endpoint -> SUBSET Timer]
<1>0. /\ m.data \in Seq(Nat) /\ Len(m.data) \in Nat
      /\ net \subseteq Datagram /\ timers \in [Endpoint -> SUBSET Timer]
      /\ accepted \in [Endpoint -> Nat] /\ delivered \in [Endpoint -> Seq(Nat)]
  BY SMTT(30) DEF TypeInv, TypeOK, Datagram
<1>1. CASE m.seq # c.sequence_no
  <2> DEFINE d == call_rcv_handler(c)
  <2>1. /\ conn' = [conn EXCEPT ![e] = d]
        /\ accepted' = [accepted EXCEPT ![e] = taken]
        /\ delivered' = [delivered EXCEPT ![e] = received \o passed_back(c)]
        /\ net' \in Delivered(m)
        /\ UNCHANGED timers
    BY <1>1 DEF HandleData
  <2>2. /\ d \in ConnectionType /\ d.old_sequence_no <= d.send_sequence_no
        /\ passed_back(c) \in Seq(Nat)
    BY ReceiveHandlerFields
  <2> HIDE DEF d
  <2>3. conn' \in [Endpoint -> ConnectionType] /\ SendStartsBeforeNext'
    BY <2>1, <2>2, ConnUpdate
  <2>4. received \o passed_back(c) \in Seq(Nat)
    BY <2>2
  <2> QED BY <1>0, <2>1, <2>3, <2>4, DeliveredRest
<1>2. CASE m.seq = c.sequence_no
  <2>1. PICK k \in accepted_lengths(Len(m.data)) :
          LET d == take_data(c, SubSeq(m.data, 1, k)) IN
          /\ conn' = [conn EXCEPT ![e] = call_rcv_handler(IF k > 0 THEN d ELSE c)]
          /\ accepted' = [accepted EXCEPT ![e] = taken + k]
          /\ delivered' = [delivered EXCEPT ![e] = received \o passed_back(d)]
          /\ \E rest \in Delivered(m) :
               net' = IF k > 0 THEN rest \cup {Ack(e, d.sequence_no)} ELSE rest
          /\ timers' = IF k > 0
                       THEN [timers EXCEPT ![e] = @ \cup {Arm("ack", d.sequence_no)}]
                       ELSE timers
    BY <1>2 DEF HandleData
  <2> DEFINE bytes == SubSeq(m.data, 1, k)
             d == take_data(c, bytes)
             f == IF k > 0 THEN d ELSE c
             g == call_rcv_handler(f)
  <2>2. k \in 0..Len(m.data)
    BY <1>0, AcceptedLengths
  <2>3. bytes \in Seq(Nat)
    BY <1>0, <2>2
  <2>4. d \in ConnectionType /\ d.old_sequence_no <= d.send_sequence_no
    <3> HIDE DEF bytes
    <3> QED BY <2>3, TakeDataFields
  <2> HIDE DEF d
  <2>5. f \in ConnectionType /\ f.old_sequence_no <= f.send_sequence_no
    BY <2>4
  <2>6. /\ g \in ConnectionType /\ g.old_sequence_no <= g.send_sequence_no
    <3> HIDE DEF f
    <3> QED BY <2>5, ReceiveHandlerFields
  <2>7. passed_back(d) \in Seq(Nat)
    BY <2>4, ReceiveHandlerFields
  <2>8. d.sequence_no \in Int
    BY <2>4 DEF ConnectionType
  <2>9. Ack(e, d.sequence_no) \in Datagram /\ Arm("ack", d.sequence_no) \in Timer
    BY <2>8, DatagramTypes DEF Arm, Timer
  <2>10. /\ conn' = [conn EXCEPT ![e] = g]
         /\ accepted' = [accepted EXCEPT ![e] = taken + k]
         /\ delivered' = [delivered EXCEPT ![e] = received \o passed_back(d)]
         /\ timers' = IF k > 0
                      THEN [timers EXCEPT ![e] = @ \cup {Arm("ack", d.sequence_no)}]
                      ELSE timers
    BY <2>1 DEF d
  <2>11. PICK rest \in Delivered(m) :
           net' = IF k > 0 THEN rest \cup {Ack(e, d.sequence_no)} ELSE rest
    BY <2>1 DEF d
  <2> HIDE DEF g
  <2>12. conn' \in [Endpoint -> ConnectionType] /\ SendStartsBeforeNext'
    BY <2>6, <2>10, ConnUpdate
  <2>13. net' \subseteq Datagram
    BY <1>0, <2>9, <2>11, DeliveredRest
  <2>14. timers' \in [Endpoint -> SUBSET Timer]
    BY <1>0, <2>9, <2>10
  <2>15. accepted' \in [Endpoint -> Nat]
    BY <1>0, <2>2, <2>10
  <2>16. delivered' \in [Endpoint -> Seq(Nat)]
    <3>1. received \o passed_back(d) \in Seq(Nat)
      BY <2>7
    <3> QED BY <1>0, <2>10, <3>1
  <2> QED BY <2>12, <2>13, <2>14, <2>15, <2>16
<1> QED BY <1>1, <1>2

LEMMA ReceiveFirstDataType ==
  ASSUME TypeInv, NEW e \in Endpoint, NEW m \in net, ReceiveFirstData(e, m)
  PROVE  TypeInv'
<1> DEFINE c == establish(conn[e], m.seq)
<1>1. conn[e] \in ConnectionType /\ m.seq \in Int
  BY DEF TypeInv, TypeOK, Datagram
<1>2. c \in ConnectionType /\ c.old_sequence_no = c.send_sequence_no
  BY <1>1, EstablishFields
<1>3. c.old_sequence_no <= c.send_sequence_no
  BY <1>2 DEF ConnectionType
<1>4. HandleData(e, m, c, 0, <<>>) /\ <<>> \in Seq(Nat) /\ 0 \in Nat
  BY DEF ReceiveFirstData
<1> HIDE DEF c
<1>5. /\ conn' \in [Endpoint -> ConnectionType] /\ SendStartsBeforeNext'
      /\ accepted' \in [Endpoint -> Nat] /\ delivered' \in [Endpoint -> Seq(Nat)]
      /\ net' \subseteq Datagram /\ timers' \in [Endpoint -> SUBSET Timer]
  BY Zenon, <1>2, <1>3, <1>4, HandleDataType
<1>6. life' \in [Endpoint -> 0..2] /\ UNCHANGED written
  BY BecomeValidType DEF ReceiveFirstData
<1> QED BY <1>5, <1>6 DEF ReceiveFirstData, Arrival, TypeInv, TypeOK

LEMMA ReceiveDataType ==
  ASSUME TypeInv, NEW e \in Endpoint, NEW m \in net, ReceiveData(e, m)
  PROVE  TypeInv'
<1>1. /\ conn[e] \in ConnectionType /\ conn[e].old_sequence_no <= conn[e].send_sequence_no
      /\ accepted[e] \in Nat /\ delivered[e] \in Seq(Nat)
  BY DEF TypeInv, TypeOK, SendStartsBeforeNext
<1>2. HandleData(e, m, conn[e], accepted[e], delivered[e])
  BY DEF ReceiveData
<1>3. /\ conn' \in [Endpoint -> ConnectionType] /\ SendStartsBeforeNext'
      /\ accepted' \in [Endpoint -> Nat] /\ delivered' \in [Endpoint -> Seq(Nat)]
      /\ net' \subseteq Datagram /\ timers' \in [Endpoint -> SUBSET Timer]
  BY <1>1, <1>2, HandleDataType
<1> QED BY <1>3 DEF ReceiveData, Arrival, TypeInv, TypeOK

LEMMA ReceiveAckType ==
  ASSUME TypeInv, NEW e \in Endpoint, NEW m \in net, ReceiveAck(e, m)
  PROVE  TypeInv'
<1> DEFINE c == take_ack(conn[e], m.seq)
           a == after_send(c)
           d == call_rcv_handler(a)
<1>1. /\ conn[e] \in ConnectionType /\ conn[e].old_sequence_no <= conn[e].send_sequence_no
      /\ m.seq \in Int
  BY DEF TypeInv, TypeOK, SendStartsBeforeNext, Datagram
<1>2. c \in ConnectionType /\ c.old_sequence_no <= c.send_sequence_no
  BY <1>1, TakeAckFields
<1> HIDE DEF c
<1>3. a \in ConnectionType /\ a.old_sequence_no <= a.send_sequence_no
  <2>1. c.send_sequence_no <= c.send_sequence_no
    BY <1>2 DEF ConnectionType
  <2> QED BY <1>2, <2>1, AfterSendFields
<1> HIDE DEF a
<1>4. d \in ConnectionType /\ d.old_sequence_no <= d.send_sequence_no
  BY <1>3, ReceiveHandlerFields
<1>5. /\ sent_by(e, c) \subseteq Datagram /\ armed_by(c) \subseteq Timer
      /\ passed_back(c) \in Seq(Nat)
  BY <1>2, SentTypes, ReceiveHandlerFields
<1>6. /\ conn' = [conn EXCEPT ![e] = d]
      /\ delivered' = [delivered EXCEPT ![e] = @ \o passed_back(c)]
      /\ timers' = [timers EXCEPT ![e] = @ \cup armed_by(c)]
  BY DEF ReceiveAck, a, c
<1>7. PICK rest \in Delivered(m) : net' = rest \cup sent_by(e, c)
  BY DEF ReceiveAck, c
<1> HIDE DEF d
<1>8. conn' \in [Endpoint -> ConnectionType] /\ SendStartsBeforeNext'
  BY <1>4, <1>6, ConnUpdate
<1>9. net' \subseteq Datagram /\ timers' \in [Endpoint -> SUBSET Timer]
  BY <1>5, <1>6, <1>7, DeliveredRest DEF TypeInv, TypeOK
<1>10. delivered' \in [Endpoint -> Seq(Nat)]
  BY <1>5, <1>6 DEF TypeInv, TypeOK
<1> QED BY <1>8, <1>9, <1>10 DEF ReceiveAck, Arrival, TypeInv, TypeOK

LEMMA ReceiveFinOrSynType ==
  ASSUME TypeInv, NEW e \in Endpoint, NEW m \in net, ReceiveFin(e, m) \/ ReceiveLateSyn(e, m)
  PROVE  TypeInv'
<1> DEFINE d == call_rcv_handler(conn[e])
<1>1. conn[e] \in ConnectionType /\ conn[e].old_sequence_no <= conn[e].send_sequence_no
  BY DEF TypeInv, TypeOK, SendStartsBeforeNext
<1>2. /\ d \in ConnectionType /\ d.old_sequence_no <= d.send_sequence_no
      /\ passed_back(conn[e]) \in Seq(Nat)
  BY <1>1, ReceiveHandlerFields
<1>3. /\ conn' = [conn EXCEPT ![e] = d]
      /\ delivered' = [delivered EXCEPT ![e] = @ \o passed_back(conn[e])]
      /\ UNCHANGED <<timers, written, accepted, life, open>>
      /\ connections' = [connections EXCEPT ![e] = TRUE]
  BY DEF ReceiveFin, ReceiveLateSyn, Arrival
<1> HIDE DEF d
<1>4. conn' \in [Endpoint -> ConnectionType] /\ SendStartsBeforeNext'
  BY <1>2, <1>3, ConnUpdate
<1>5. delivered' \in [Endpoint -> Seq(Nat)]
  BY <1>2, <1>3 DEF TypeInv, TypeOK
<1>6. net' \subseteq Datagram
  <2>1. Fin(e) \in Datagram /\ net \subseteq Datagram
    BY DatagramTypes DEF TypeInv, TypeOK
  <2>2. CASE ReceiveFin(e, m)
    <3>1. PICK rest \in Delivered(m) : net' = rest \cup {Fin(e)}
      BY <2>2 DEF ReceiveFin
    <3> QED BY <2>1, <3>1, DeliveredRest
  <2>3. CASE ReceiveLateSyn(e, m)
    BY <2>1, <2>3, DeliveredRest DEF ReceiveLateSyn
  <2> QED BY <2>2, <2>3
<1>7. finishing' \in [Endpoint -> Nat]
  <2>1. finishing \in [Endpoint -> Nat] /\ finishing[e] \in Nat
    BY DEF TypeInv, TypeOK
  <2>2. finishing' = finishing \/ finishing' = [finishing EXCEPT ![e] = finishing[e] + 1]
    BY DEF ReceiveFin, ReceiveLateSyn
  <2> QED BY <2>1, <2>2
<1> QED BY <1>3, <1>4, <1>5, <1>6, <1>7 DEF TypeInv, TypeOK

LEMMA HandleFinType ==
  ASSUME TypeInv, NEW e \in Endpoint, HandleFin(e)
  PROVE  TypeInv'
<1> DEFINE d == reset(conn[e])
<1>1. conn[e] \in ConnectionType
  BY DEF TypeInv, TypeOK
<1>2. d \in ConnectionType /\ d.old_sequence_no <= d.send_sequence_no
  <2>1. d \in ConnectionType /\ d.old_sequence_no = 0 /\ d.send_sequence_no = 0
    BY <1>1, ResetFields
  <2> HIDE DEF d
  <2> QED BY <2>1
<1>3. conn' = [conn EXCEPT ![e] = d]
  BY DEF HandleFin
<1> HIDE DEF d
<1>4. conn' \in [Endpoint -> ConnectionType] /\ SendStartsBeforeNext'
  BY <1>2, <1>3, ConnUpdate
<1>5. finishing' \in [Endpoint -> Nat] /\ life' \in [Endpoint -> 0..2]
  BY DEF HandleFin, TypeInv, TypeOK
<1> QED BY <1>4, <1>5 DEF HandleFin, TypeInv, TypeOK

LEMMA ConnectionTimeoutType ==
  ASSUME TypeInv, NEW e \in Endpoint, NEW t \in timers[e], ConnectionTimeout(e, t)
  PROVE  TypeInv'
<1>1. HandshakeSegment(e, t) \in Datagram
  BY DatagramTypes DEF ConnectionTimeout, HandshakeSegment
<1>2. net' \subseteq Datagram /\ timers' \in [Endpoint -> SUBSET Timer]
  BY <1>1 DEF ConnectionTimeout, TypeInv, TypeOK
<1> QED BY <1>2 DEF ConnectionTimeout, TypeInv, TypeOK, SendStartsBeforeNext, history

LEMMA TimeoutFins ==
  ASSUME NEW e \in Endpoint, NEW c
  PROVE  fin_at_limit(e, c) \subseteq Datagram
BY DatagramTypes DEF fin_at_limit

LEMMA SendTimeoutType ==
  ASSUME TypeInv, NEW e \in Endpoint, NEW t \in timers[e], SendTimeout(e, t)
  PROVE  TypeInv'
<1> DEFINE c == halve_congestion(conn[e])
           d == inc_timeout(c)
           sent == IF package_message(c) # <<>>
                   THEN {Data(e, package_seq(c), package_message(c))} ELSE {}
<1>1. conn[e] \in ConnectionType /\ conn[e].old_sequence_no <= conn[e].send_sequence_no
  BY DEF TypeInv, TypeOK, SendStartsBeforeNext
<1>2. c \in ConnectionType /\ c.old_sequence_no <= c.send_sequence_no
  BY <1>1, TimeoutFields
<1> HIDE DEF c
<1>3. d \in ConnectionType /\ d.old_sequence_no <= d.send_sequence_no
  BY <1>2, TimeoutFields
<1>4. package_seq(c) \in Int /\ package_message(c) \in Seq(Nat)
  BY <1>2, PackageSlice DEF package_seq, ConnectionType
<1>5. sent \subseteq Datagram /\ fin_at_limit(e, c) \subseteq Datagram
  BY <1>4, DatagramTypes, TimeoutFins
<1>6. /\ conn' = [conn EXCEPT ![e] = d]
      /\ net' = net \cup fin_at_limit(e, c) \cup sent
      /\ finishing' = [finishing EXCEPT ![e] = IF timed_out(c) THEN @ + 1 ELSE @]
      /\ UNCHANGED <<connections, open, timers, history>>
  BY DEF SendTimeout, c
<1> HIDE DEF d, sent
<1>7. conn' \in [Endpoint -> ConnectionType] /\ SendStartsBeforeNext'
  BY <1>3, <1>6, ConnUpdate
<1>8. net' \subseteq Datagram /\ finishing' \in [Endpoint -> Nat]
  BY <1>5, <1>6 DEF TypeInv, TypeOK
<1> QED BY <1>6, <1>7, <1>8 DEF TypeInv, TypeOK, history

LEMMA AckTimeoutType ==
  ASSUME TypeInv, NEW e \in Endpoint, NEW t \in timers[e], AckTimeout(e, t)
  PROVE  TypeInv'
<1> DEFINE d == inc_timeout(conn[e])
<1>1. /\ conn[e] \in ConnectionType /\ conn[e].old_sequence_no <= conn[e].send_sequence_no
      /\ conn[e].sequence_no \in Int
  BY DEF TypeInv, TypeOK, SendStartsBeforeNext, ConnectionType
<1>2. d \in ConnectionType /\ d.old_sequence_no <= d.send_sequence_no
  BY <1>1, TimeoutFields
<1>3. /\ Ack(e, conn[e].sequence_no) \in Datagram
      /\ Arm("ack", conn[e].sequence_no) \in Timer
      /\ fin_at_limit(e, conn[e]) \subseteq Datagram
  BY <1>1, DatagramTypes, TimeoutFins DEF Arm, Timer
<1>4. /\ conn' = [conn EXCEPT ![e] = d]
      /\ net' = net \cup {Ack(e, conn[e].sequence_no)} \cup fin_at_limit(e, conn[e])
      /\ timers' = [timers EXCEPT ![e] = (@ \ {t}) \cup {Arm("ack", conn[e].sequence_no)}]
      /\ finishing' = [finishing EXCEPT ![e] = IF timed_out(conn[e]) THEN @ + 1 ELSE @]
      /\ UNCHANGED <<connections, open, history>>
  BY DEF AckTimeout
<1> HIDE DEF d
<1>5. conn' \in [Endpoint -> ConnectionType] /\ SendStartsBeforeNext'
  BY <1>2, <1>4, ConnUpdate
<1>6. net' \subseteq Datagram /\ finishing' \in [Endpoint -> Nat]
  BY <1>3, <1>4 DEF TypeInv, TypeOK
<1>7. timers' \in [Endpoint -> SUBSET Timer]
  BY <1>3, <1>4 DEF TypeInv, TypeOK
<1> QED BY <1>4, <1>5, <1>6, <1>7 DEF TypeInv, TypeOK, history

LEMMA TimerDroppedType ==
  ASSUME TypeInv, NEW e \in Endpoint, NEW t \in timers[e], TimerDropped(e, t)
  PROVE  TypeInv'
BY DEF TimerDropped, TypeInv, TypeOK, SendStartsBeforeNext, history

LEMMA LoseType ==
  ASSUME TypeInv, NEW m \in net, Lose(m)
  PROVE  TypeInv'
BY DEF Lose, TypeInv, TypeOK, SendStartsBeforeNext, history

LEMMA StepType == TypeInv /\ [Next]_vars => TypeInv'
<1> SUFFICES ASSUME TypeInv, [Next]_vars
             PROVE  TypeInv'
  OBVIOUS
<1>1. CASE CreateConnection
  BY <1>1, CreateConnectionType
<1>2. ASSUME NEW e \in Endpoint, Application(e)
      PROVE  TypeInv'
  BY <1>2, AsyncSendType, AsyncRcvType, CloseType DEF Application
<1>3. ASSUME NEW e \in Endpoint, HandleFin(e)
      PROVE  TypeInv'
  BY <1>3, HandleFinType
<1>4. ASSUME NEW e \in Endpoint, NEW t \in timers[e], Fires(e, t)
      PROVE  TypeInv'
  BY <1>4, ConnectionTimeoutType, SendTimeoutType, AckTimeoutType, TimerDroppedType DEF Fires
<1>5. ASSUME NEW m \in net, Receive(m.dst, m)
      PROVE  TypeInv'
  <2>1. m.dst \in Endpoint
    BY DEF TypeInv, TypeOK, Datagram
  <2> QED BY <1>5, <2>1, ReceiveSynType, ReceiveSynAckType, ReceiveFinalAckType,
             ReceiveFirstDataType, IgnoreType, ReceiveDataType, ReceiveAckType,
             ReceiveFinOrSynType DEF Receive
<1>6. ASSUME NEW m \in net, Lose(m)
      PROVE  TypeInv'
  BY <1>6, LoseType
<1>7. CASE UNCHANGED vars
  BY <1>7 DEF vars, TypeInv, TypeOK, SendStartsBeforeNext
<1> QED BY <1>1, <1>2, <1>3, <1>4, <1>5, <1>6, <1>7 DEF Next

\* Every variable keeps its type, and no acknowledgement makes write_index, an
\* offset into write_buff, negative.
THEOREM TypeCorrect == Spec => [](TypeOK /\ SendStartsBeforeNext)
<1>1. TypeInv <=> TypeOK /\ SendStartsBeforeNext
  BY DEF TypeInv
<1> QED BY InitType, StepType, <1>1, PTL DEF Spec

\* What handle_rcv subtracts from an acknowledgement to get write_index never
\* exceeds the number that acknowledgement must at least have.
THEOREM SendStarts == Spec => []SendStartsBeforeNext
<1>1. TypeOK /\ SendStartsBeforeNext => SendStartsBeforeNext
  OBVIOUS
<1> QED BY TypeCorrect, <1>1, PTL

-----------------------------------------------------------------------------
(* Runs of consecutive bytes *)

LEMMA IsRun ==
  ASSUME NEW s \in Seq(Nat), NEW from \in Nat, NEW n \in Nat,
         Len(s) = n, \A i \in 1..n : s[i] = from + i
  PROVE  s = Run(from, n)
<1> DEFINE t == Run(from, n)
<1>1. t \in Seq(Nat) /\ Len(t) = n /\ \A i \in 1..n : t[i] = from + i
  BY RunIsSeq
<1> HIDE DEF t
<1>2. \A i \in 1..Len(s) : s[i] = t[i]
  BY <1>1
<1>3. s = t
  BY <1>1, <1>2, SeqEqual
<1> QED BY <1>3 DEF t

LEMMA RunConcat ==
  ASSUME NEW a \in Seq(Nat), NEW b \in Seq(Nat), NEW n \in Nat, NEW k \in Nat,
         a = Run(0, n), b = Run(n, k)
  PROVE  a \o b = Run(0, n + k)
<1>1. Len(a) = n /\ \A i \in 1..n : a[i] = i
  <2>1. Len(Run(0, n)) = n /\ \A i \in 1..n : Run(0, n)[i] = 0 + i
    BY RunIsSeq
  <2> QED BY <2>1
<1>2. Len(b) = k /\ \A i \in 1..k : b[i] = n + i
  BY RunIsSeq
<1>3. a \o b \in Seq(Nat) /\ Len(a \o b) = n + k
  BY <1>1, <1>2, ConcatProperties
<1>4. ASSUME NEW i \in 1..(n + k)
      PROVE  (a \o b)[i] = 0 + i
  <2>1. CASE i <= n
    <3>1. i \in 1..Len(a) + Len(b) /\ i <= Len(a) /\ i \in 1..n
      BY <1>1, <1>2, <2>1
    <3>2. (a \o b)[i] = a[i]
      BY <3>1, ConcatProperties
    <3> QED BY <1>1, <3>1, <3>2
  <2>2. CASE ~(i <= n)
    <3>1. i \in 1..Len(a) + Len(b) /\ ~(i <= Len(a)) /\ i - n \in 1..k
      BY <1>1, <1>2, <2>2
    <3>2. (a \o b)[i] = b[i - n]
      BY <1>1, <3>1, ConcatProperties
    <3> QED BY <1>2, <3>1, <3>2
  <2> QED BY <2>1, <2>2
<1> DEFINE c == a \o b
<1>5. c \in Seq(Nat) /\ Len(c) = n + k /\ \A i \in 1..(n + k) : c[i] = 0 + i
  BY <1>3, <1>4
<1> HIDE DEF c
<1>6. c = Run(0, n + k)
  BY <1>5, IsRun
<1> QED BY <1>6 DEF c

LEMMA RunPrefix ==
  ASSUME NEW s \in Seq(Nat), NEW t \in Seq(Nat), NEW n \in Nat, s \o t = Run(0, n)
  PROVE  Len(s) <= n /\ s = Run(0, Len(s))
<1>1. Len(s) \in Nat /\ Len(t) \in Nat /\ Len(s \o t) = Len(s) + Len(t)
  BY ConcatProperties
<1>2. Len(s \o t) = n /\ \A i \in 1..n : (s \o t)[i] = 0 + i
  BY RunIsSeq
<1>3. Len(s) <= n
  BY <1>1, <1>2
<1>4. ASSUME NEW i \in 1..Len(s)
      PROVE  s[i] = 0 + i
  <2>1. i \in 1..Len(s) + Len(t) /\ i <= Len(s) /\ i \in 1..n
    BY <1>1, <1>3
  <2>2. (s \o t)[i] = s[i]
    BY <2>1, ConcatProperties
  <2> QED BY <1>2, <2>1, <2>2
<1>5. s = Run(0, Len(s))
  BY <1>1, <1>4, IsRun
<1> QED BY <1>3, <1>5

LEMMA RunTake ==
  ASSUME NEW r \in Seq(Nat), NEW from \in Nat, NEW n \in Nat, NEW k \in 0..n,
         r = Run(from, n)
  PROVE  SubSeq(r, 1, k) = Run(from, k)
<1>1. Len(r) = n /\ \A i \in 1..n : r[i] = from + i
  BY RunIsSeq
<1> DEFINE s == SubSeq(r, 1, k)
<1>2. s \in Seq(Nat) /\ Len(s) = k /\ \A i \in 1..k : s[i] = r[i]
  <2>1. \A i \in 1..k : r[i] \in Nat
    BY <1>1
  <2>2. s \in Seq(Nat)
    BY <2>1, SubSeqProperties
  <2>3. Len(s) = k
    BY <2>1, SubSeqProperties
  <2>4. \A i \in 1..k : s[i] = r[i]
    BY <1>1
  <2> QED BY <2>2, <2>3, <2>4
<1>3. \A i \in 1..k : s[i] = from + i
  BY <1>1, <1>2
<1> HIDE DEF s
<1>4. s = Run(from, k)
  BY <1>2, <1>3, IsRun
<1> QED BY <1>4 DEF s

=============================================================================
