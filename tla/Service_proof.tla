--------------------------- MODULE Service_proof ---------------------------
(***************************************************************************)
(* Rtp implements ByteStream when no connection becomes valid twice, for   *)
(* every value of the other constants.  The stream invariant gives what    *)
(* each step needs: what is delivered is all that is taken, and a send     *)
(* that is done has been taken.                                            *)
(***************************************************************************)
EXTENDS Delivery_proof, RtpService

-----------------------------------------------------------------------------
(* One step of Rtp, as the service sees it *)

\* What the service sees of endpoint f stays as it is.
SameView(f) ==
  /\ conn'[f].valid = conn[f].valid
  /\ conn'[f].valid_send_handler = conn[f].valid_send_handler
  /\ life'[f] = life[f] /\ written'[f] = written[f]
  /\ accepted'[f] = accepted[f] /\ delivered'[f] = delivered[f]

LEMMA ServiceNames ==
  /\ Service!Endpoint = Endpoint
  /\ \A e \in Endpoint : Service!Peer(e) = Peer(e)
BY DEF Service!Endpoint, Endpoint, Service!Peer, Peer

LEMMA Quiet ==
  ASSUME TypeInv, TypeInv', \A f \in Endpoint : SameView(f)
  PROVE  UNCHANGED Service!service
<1>1. phase' = phase
  BY DEF phase, SameView
<1>2. pending' = pending
  BY DEF pending, SameView
<1>3. /\ written \in [Endpoint -> Nat] /\ written' \in [Endpoint -> Nat]
      /\ accepted \in [Endpoint -> Nat] /\ accepted' \in [Endpoint -> Nat]
      /\ delivered \in [Endpoint -> Seq(Nat)] /\ delivered' \in [Endpoint -> Seq(Nat)]
  BY DEF TypeInv, TypeOK
<1>4. written' = written /\ accepted' = accepted /\ delivered' = delivered
  BY <1>3 DEF SameView
<1> QED BY <1>1, <1>2, <1>4 DEF Service!service

LEMMA RunIsFirst == ASSUME NEW n \in Nat PROVE Run(0, n) = Service!First(n)
BY DEF Run, Service!First

\* Endpoint e's connection comes up or moves on.
Moves(e) ==
  /\ e \in Endpoint /\ \A f \in Endpoint : f # e => SameView(f)
  /\ conn'[e].valid /\ (conn[e].valid \/ life[e] = 0)
  /\ written' = written /\ accepted[e] <= accepted'[e]
  /\ delivered'[e] = delivered[e] \/ conn'[e].rcv_window = <<>>
  /\ conn'[e].valid_send_handler =>  conn[e].valid_send_handler

LEMMA MovesIsProgress ==
  ASSUME TypeInv, TypeInv', StreamInv', FirstLife', NEW e, Moves(e)
  PROVE  Service!Progress(e)
<1>1. /\ e \in Endpoint /\ Peer(e) \in Endpoint /\ Peer(e) # e /\ Peer(Peer(e)) = e
      /\ conn'[e].valid /\ (conn[e].valid \/ life[e] = 0)
      /\ written' = written /\ accepted[e] <= accepted'[e]
      /\ \A f \in Endpoint : f # e => SameView(f)
  BY PeerOfEndpoint DEF Moves
<1>2. /\ written \in [Endpoint -> Nat]
      /\ accepted \in [Endpoint -> Nat] /\ accepted' \in [Endpoint -> Nat]
      /\ delivered \in [Endpoint -> Seq(Nat)] /\ delivered' \in [Endpoint -> Seq(Nat)]
      /\ conn \in [Endpoint -> ConnectionType] /\ conn' \in [Endpoint -> ConnectionType]
  BY DEF TypeInv, TypeOK
<1>3. ReceiverInv(e)'
  BY <1>1 DEF StreamInv
<1> DEFINE n == accepted'[e]
<1>4. n \in accepted[e]..written[Peer(e)]
  BY <1>1, <1>2, <1>3 DEF ReceiverInv
<1>5. accepted' = [accepted EXCEPT ![e] = n]
  BY <1>1, <1>2 DEF SameView
<1>6. delivered' = delivered \/ delivered' = [delivered EXCEPT ![e] = Service!First(n)]
  <2>1. CASE delivered'[e] = delivered[e]
    <3>1. \A f \in Endpoint : delivered'[f] = delivered[f]
      BY <1>1, <2>1 DEF SameView
    <3> QED BY <1>2, <3>1
  <2>2. CASE conn'[e].rcv_window = <<>>
    <3> DEFINE s == delivered'[e]
    <3>1. s \in Seq(Nat) /\ s \o <<>> = Run(0, n)
      BY <1>1, <1>2, <1>3, <2>2 DEF ReceiverInv
    <3> HIDE DEF s
    <3>2. s = Run(0, n)
      BY <3>1, ConcatEmptySeq
    <3>3. n \in Nat
      BY <1>1, <1>2
    <3>4. delivered'[e] = Service!First(n)
      BY <3>2, <3>3, RunIsFirst DEF s
    <3>5. \A f \in Endpoint : f # e => delivered'[f] = delivered[f]
      BY <1>1 DEF SameView
    <3> QED BY <1>1, <1>2, <3>4, <3>5
  <2> QED BY <2>1, <2>2 DEF Moves
<1>7. phase[e] # "down" /\ phase' = [phase EXCEPT ![e] = "up"]
  <2>1. phase[e] # "down" /\ phase'[e] = "up"
    BY <1>1 DEF phase
  <2>2. \A f \in Endpoint : f # e => phase'[f] = phase[f]
    BY <1>1 DEF phase, SameView
  <2> QED BY <2>1, <2>2 DEF phase
<1>8. \/ pending' = pending
      \/ accepted[Peer(e)] = written[e] /\ pending' = [pending EXCEPT ![e] = FALSE]
  <2>1. \A f \in Endpoint : f # e => pending'[f] = pending[f]
    BY <1>1 DEF pending, SameView
  <2>2. conn[e].valid_send_handler \in BOOLEAN /\ conn'[e].valid_send_handler \in BOOLEAN
    BY <1>1, <1>2 DEF ConnectionType
  <2>3. CASE conn'[e].valid_send_handler = conn[e].valid_send_handler
    <3>1. pending'[e] = pending[e]
      BY <1>1, <2>3 DEF pending
    <3> QED BY <2>1, <3>1 DEF pending
  <2>4. CASE ~conn'[e].valid_send_handler
    <3>2. SenderInv(e)' /\ ReceiverInv(Peer(e))'
      BY <1>1 DEF StreamInv
    <3>3. conn'[e].send_sequence_no \in 0..accepted'[Peer(e)]
          /\ conn'[e].send_sequence_no = written'[e]
      BY <1>1, <2>4, <3>2 DEF SenderInv, SendsUpTo
    <3>4. accepted'[Peer(e)] <= written'[e]
      BY <1>1, <3>2 DEF ReceiverInv
    <3>5. accepted'[Peer(e)] = written[e]
      BY <1>1, <1>2, <3>3, <3>4
    <3>6. accepted[Peer(e)] = written[e]
      BY <1>1, <3>5 DEF SameView
    <3>7. pending'[e] = FALSE
      BY <1>1, <2>2, <2>4 DEF pending
    <3>8. pending' = [pending EXCEPT ![e] = FALSE]
      BY <1>1, <2>1, <3>7 DEF pending
    <3> QED BY <3>6, <3>8
  <2> QED BY <2>2, <2>3, <2>4 DEF Moves
<1> HIDE DEF n
<1>9. Service!Peer(e) = Peer(e)
  BY <1>1, ServiceNames
<1> QED BY <1>1, <1>4, <1>5, <1>6, <1>7, <1>8, <1>9 DEF Service!Progress

-----------------------------------------------------------------------------
(* Steps the service does not see *)

LEMMA QuietHistory ==
  ASSUME TypeInv, TypeInv', UNCHANGED history,
         \A f \in Endpoint : /\ conn'[f].valid = conn[f].valid
                             /\ conn'[f].valid_send_handler = conn[f].valid_send_handler
  PROVE  UNCHANGED Service!service
<1>1. written' = written /\ accepted' = accepted /\ delivered' = delivered /\ life' = life
  BY DEF history
<1>2. \A f \in Endpoint : SameView(f)
  BY <1>1 DEF SameView
<1> QED BY <1>2, Quiet

LEMMA QuietRecord ==
  ASSUME TypeInv, TypeInv', UNCHANGED history, NEW e \in Endpoint, NEW d,
         conn' = [conn EXCEPT ![e] = d],
         d.valid = conn[e].valid, d.valid_send_handler = conn[e].valid_send_handler
  PROVE  UNCHANGED Service!service
<1>1. conn \in [Endpoint -> ConnectionType]
  BY DEF TypeInv, TypeOK
<1>2. \A f \in Endpoint : /\ conn'[f].valid = conn[f].valid
                          /\ conn'[f].valid_send_handler = conn[f].valid_send_handler
  BY <1>1
<1> QED BY <1>2, QuietHistory

LEMMA NetworkIsQuiet ==
  ASSUME TypeInv, TypeInv', NEW m \in net,
         Lose(m) \/ (m.dst \in Endpoint /\ IgnoreWhileInvalid(m.dst, m))
  PROVE  UNCHANGED Service!service
<1>1. conn' = conn /\ UNCHANGED history
  BY DEF Lose, IgnoreWhileInvalid
<1> QED BY <1>1, QuietHistory

LEMMA CloseIsQuiet ==
  ASSUME TypeInv, TypeInv', NEW e \in Endpoint, CloseConnection(e) \/ CloseSocket(e)
  PROVE  UNCHANGED Service!service
<1>1. conn' = conn /\ UNCHANGED history
  BY DEF CloseConnection, CloseSocket
<1> QED BY <1>1, QuietHistory

LEMMA CreateIsQuiet ==
  ASSUME TypeInv, TypeInv', FreshInv, CreateConnection
  PROVE  UNCHANGED Service!service
<1>1. conn' = conn
  BY DEF CreateConnection, FreshInv, TypeInv, TypeOK
<1>2. UNCHANGED history
  BY DEF CreateConnection
<1> QED BY <1>1, <1>2, QuietHistory

LEMMA TimersAreQuiet ==
  ASSUME TypeInv, TypeInv', NEW e \in Endpoint, NEW t \in timers[e], Fires(e, t)
  PROVE  UNCHANGED Service!service
<1>1. conn[e] \in ConnectionType
  BY DEF TypeInv, TypeOK
<1>2. CASE ConnectionTimeout(e, t) \/ TimerDropped(e, t)
  <2>1. conn' = conn /\ UNCHANGED history
    BY <1>2 DEF ConnectionTimeout, TimerDropped
  <2> QED BY <2>1, QuietHistory
<1>3. CASE SendTimeout(e, t)
  <2> DEFINE c == halve_congestion(conn[e])
             d == inc_timeout(c)
  <2>1. /\ c \in ConnectionType /\ c.valid = conn[e].valid
        /\ c.valid_send_handler = conn[e].valid_send_handler
    BY <1>1, TimeoutFields
  <2>2. conn' = [conn EXCEPT ![e] = d] /\ UNCHANGED history
    BY <1>3 DEF SendTimeout
  <2> HIDE DEF c
  <2>3. d.valid = conn[e].valid /\ d.valid_send_handler = conn[e].valid_send_handler
    BY <2>1, TimeoutFields
  <2> HIDE DEF d
  <2> QED BY <2>2, <2>3, QuietRecord
<1>4. CASE AckTimeout(e, t)
  <2> DEFINE d == inc_timeout(conn[e])
  <2>1. d.valid = conn[e].valid /\ d.valid_send_handler = conn[e].valid_send_handler
    BY <1>1, TimeoutFields
  <2>2. conn' = [conn EXCEPT ![e] = d] /\ UNCHANGED history
    BY <1>4 DEF AckTimeout
  <2> HIDE DEF d
  <2> QED BY <2>1, <2>2, QuietRecord
<1> QED BY <1>2, <1>3, <1>4 DEF Fires

LEMMA SynIsQuiet ==
  ASSUME TypeInv, TypeInv', NEW e \in Endpoint, NEW m \in net, ReceiveSyn(e, m)
  PROVE  UNCHANGED Service!service
<1> DEFINE d == [conn[e] EXCEPT !.sequence_no = m.seq + 1, !.remote_window_size = m.window]
<1>1. conn[e] \in ConnectionType
  BY DEF TypeInv, TypeOK
<1>2. d.valid = conn[e].valid /\ d.valid_send_handler = conn[e].valid_send_handler
  BY <1>1 DEF ConnectionType
<1>3. conn' = [conn EXCEPT ![e] = d] /\ UNCHANGED history
  BY DEF ReceiveSyn
<1> HIDE DEF d
<1> QED BY <1>2, <1>3, QuietRecord

-----------------------------------------------------------------------------
(* Steps of the receiving half *)

\* Either the application is given all that waits in rcv_window, or nothing.
LEMMA AllOrNothing ==
  ASSUME NEW c \in ConnectionType, NEW s \in Seq(Nat)
  PROVE  call_rcv_handler(c).rcv_window = <<>> \/ s \o passed_back(c) = s
<1>1. CASE c.valid_rcv_handler
  BY <1>1 DEF call_rcv_handler, ConnectionType
<1>2. CASE ~c.valid_rcv_handler
  <2>1. passed_back(c) = <<>>
    BY <1>2 DEF passed_back
  <2> QED BY <2>1, ConcatEmptySeq
<1> QED BY <1>1, <1>2

\* Endpoint e's record becomes call_rcv_handler(a); what is passed back is that
\* of a connection c with the same window and handler.
PassesBack(e, c, a) ==
  /\ e \in Endpoint /\ c \in ConnectionType /\ a \in ConnectionType
  /\ c.rcv_window = a.rcv_window /\ c.valid_rcv_handler = a.valid_rcv_handler
  /\ conn' = [conn EXCEPT ![e] = call_rcv_handler(a)]
  /\ delivered' = [delivered EXCEPT ![e] = @ \o passed_back(c)]
  /\ UNCHANGED <<written, accepted, life>>
  /\ conn[e].valid /\ a.valid
  /\ a.valid_send_handler => conn[e].valid_send_handler

LEMMA PassingBackMoves ==
  ASSUME TypeInv, TypeInv', NEW e, NEW c, NEW a, PassesBack(e, c, a)
  PROVE  Moves(e)
<1> DEFINE d == call_rcv_handler(a)
<1>1. /\ e \in Endpoint /\ c \in ConnectionType /\ a \in ConnectionType
      /\ conn' = [conn EXCEPT ![e] = d] /\ conn \in [Endpoint -> ConnectionType]
      /\ delivered \in [Endpoint -> Seq(Nat)] /\ accepted \in [Endpoint -> Nat]
      /\ delivered' = [delivered EXCEPT ![e] = delivered[e] \o passed_back(c)]
      /\ written' = written /\ accepted' = accepted /\ life' = life
  BY DEF PassesBack, TypeInv, TypeOK
<1>2. d.valid = a.valid /\ d.valid_send_handler = a.valid_send_handler
  BY <1>1, ReceiveHandlerFields
<1>3. passed_back(c) = passed_back(a)
  BY DEF PassesBack, passed_back
<1>4. d.rcv_window = <<>> \/ delivered[e] \o passed_back(a) = delivered[e]
  BY <1>1, AllOrNothing
<1> HIDE DEF d
<1>5. conn'[e] = d /\ delivered'[e] = delivered[e] \o passed_back(a)
  BY <1>1, <1>3
<1>6. \A f \in Endpoint : f # e => SameView(f)
  BY <1>1 DEF SameView
<1>7. accepted[e] <= accepted'[e]
  BY <1>1
<1> QED BY <1>1, <1>2, <1>4, <1>5, <1>6, <1>7 DEF Moves, PassesBack

LEMMA FinOrSynMoves ==
  ASSUME TypeInv, TypeInv', NEW e \in Endpoint, NEW m \in net,
         ReceiveFin(e, m) \/ ReceiveLateSyn(e, m)
  PROVE  Moves(e)
<1>1. PassesBack(e, conn[e], conn[e])
  BY DEF ReceiveFin, ReceiveLateSyn, PassesBack, TypeInv, TypeOK
<1> QED BY <1>1, PassingBackMoves

LEMMA AckMoves ==
  ASSUME TypeInv, TypeInv', NEW e \in Endpoint, NEW m \in net, ReceiveAck(e, m)
  PROVE  Moves(e)
<1> DEFINE c == take_ack(conn[e], m.seq)
           a == after_send(c)
<1>1. /\ conn[e] \in ConnectionType /\ m.seq \in Int
      /\ conn[e].old_sequence_no <= conn[e].send_sequence_no /\ conn[e].valid
      /\ conn' = [conn EXCEPT ![e] = call_rcv_handler(a)]
      /\ delivered' = [delivered EXCEPT ![e] = @ \o passed_back(c)]
      /\ UNCHANGED <<written, accepted, life>>
  BY DEF ReceiveAck, TypeInv, TypeOK, SendStartsBeforeNext, Datagram
<1>2. /\ c \in ConnectionType /\ c.valid = conn[e].valid
      /\ c.valid_send_handler = conn[e].valid_send_handler
  <2>1. /\ conn[e] \in ConnectionType /\ m.seq \in Int
        /\ conn[e].old_sequence_no <= conn[e].send_sequence_no
    BY <1>1
  <2> QED BY <2>1, TakeAckFields
<1> HIDE DEF c
<1>3. /\ a \in ConnectionType /\ a.valid = c.valid /\ a.rcv_window = c.rcv_window
      /\ a.valid_rcv_handler = c.valid_rcv_handler
      /\ a.valid_send_handler => c.valid_send_handler
  BY <1>2, AfterSendFields
<1> HIDE DEF a
<1>4. PassesBack(e, c, a)
  BY <1>1, <1>2, <1>3 DEF PassesBack
<1> QED BY <1>4, PassingBackMoves

LEMMA AsyncRcvMoves ==
  ASSUME TypeInv, TypeInv', StreamInv, NEW e \in Endpoint, AsyncRcv(e)
  PROVE  Moves(e) \/ UNCHANGED Service!service
<1> DEFINE c == set_rcv_handler(conn[e])
           d == call_rcv_handler(c)
<1>1. /\ conn[e] \in ConnectionType /\ delivered[e] \in Seq(Nat)
      /\ delivered \in [Endpoint -> Seq(Nat)]
      /\ conn' = [conn EXCEPT ![e] = IF c.rcv_window # <<>> THEN d ELSE c]
      /\ delivered' = [delivered EXCEPT ![e] = @ \o passed_back(c)]
      /\ UNCHANGED <<written, accepted, life>> /\ ReceiverInv(e)
  BY DEF AsyncRcv, TypeInv, TypeOK, StreamInv
<1>2. /\ c \in ConnectionType /\ c.valid = conn[e].valid
      /\ c.rcv_window = conn[e].rcv_window
      /\ c.valid_send_handler = conn[e].valid_send_handler
  BY <1>1, SetRcvHandlerFields
<1> HIDE DEF c
<1>3. CASE c.rcv_window # <<>>
  <2>1. conn[e].valid
    BY <1>1, <1>2, <1>3 DEF ReceiverInv
  <2>2. PassesBack(e, c, c)
    BY <1>1, <1>2, <1>3, <2>1 DEF PassesBack
  <2> QED BY <2>2, PassingBackMoves
<1>4. CASE c.rcv_window = <<>>
  <2>1. passed_back(c) = <<>> /\ conn' = [conn EXCEPT ![e] = c]
    BY <1>1, <1>4 DEF passed_back
  <2>2. delivered' = delivered
    <3>1. delivered[e] \o <<>> = delivered[e]
      BY <1>1, ConcatEmptySeq
    <3> QED BY <1>1, <2>1, <3>1
  <2>3. UNCHANGED history
    BY <1>1, <2>2 DEF history
  <2> QED BY <1>2, <2>1, <2>3, QuietRecord
<1> QED BY <1>3, <1>4

-----------------------------------------------------------------------------
(* Steps that bring a connection up, and data *)

\* Connection x of endpoint e, with the number n, is established and becomes d.
ComesUp(e, x, n, d) ==
  /\ e \in Endpoint /\ x \in ConnectionType /\ n \in Int /\ BecomeValid(e)
  /\ d = after_send(establish(x, n)) /\ conn' = [conn EXCEPT ![e] = d]
  /\ x.valid_send_handler = conn[e].valid_send_handler
  /\ accepted' = [accepted EXCEPT ![e] = 0]
  /\ delivered' = [delivered EXCEPT ![e] = <<>>]

LEMMA ComingUpMoves ==
  ASSUME TypeInv, TypeInv', StreamInv, FirstLife', NEW e, NEW x, NEW n, NEW d,
         ComesUp(e, x, n, d)
  PROVE  Moves(e)
<1> DEFINE c == establish(x, n)
<1>1. /\ e \in Endpoint /\ x \in ConnectionType /\ n \in Int /\ BecomeValid(e)
      /\ d = after_send(c) /\ conn' = [conn EXCEPT ![e] = d]
      /\ x.valid_send_handler = conn[e].valid_send_handler
      /\ conn \in [Endpoint -> ConnectionType]
      /\ accepted \in [Endpoint -> Nat] /\ delivered \in [Endpoint -> Seq(Nat)]
      /\ accepted' = [accepted EXCEPT ![e] = 0]
      /\ delivered' = [delivered EXCEPT ![e] = <<>>]
  BY DEF ComesUp, TypeInv, TypeOK
<1>2. /\ life[e] = 0 /\ accepted[e] = 0 /\ delivered[e] = <<>> /\ written' = written
      /\ \A f \in Endpoint : f # e => life'[f] = life[f]
  BY <1>1, FirstValid
<1>3. c \in ConnectionType /\ c.valid /\ c.valid_send_handler = conn[e].valid_send_handler
  BY <1>1, EstablishFields
<1> HIDE DEF c
<1>4. d.valid /\ (d.valid_send_handler => conn[e].valid_send_handler)
  BY <1>1, <1>3, AfterSendFields
<1>5. conn'[e] = d /\ accepted'[e] = 0 /\ delivered'[e] = <<>>
  BY <1>1
<1>6. \A f \in Endpoint : f # e => SameView(f)
  BY <1>1, <1>2 DEF SameView
<1> QED BY <1>1, <1>2, <1>4, <1>5, <1>6 DEF Moves

LEMMA SynAckMoves ==
  ASSUME TypeInv, TypeInv', StreamInv, FirstLife', NEW e \in Endpoint, NEW m \in net,
         ReceiveSynAck(e, m)
  PROVE  Moves(e)
<1> DEFINE x == [conn[e] EXCEPT !.remote_window_size = m.window]
           n == m.seq + 1
           d == after_send(establish(x, n))
<1>1. conn[e] \in ConnectionType /\ m.window \in Int /\ n \in Int
  <2>1. m \in Datagram
    BY DEF TypeInv, TypeOK
  <2> QED BY <2>1 DEF Datagram, TypeInv, TypeOK
<1>2. x \in ConnectionType /\ x.valid_send_handler = conn[e].valid_send_handler
  BY <1>1 DEF ConnectionType
<1>3. /\ conn' = [conn EXCEPT ![e] = d] /\ BecomeValid(e)
      /\ accepted' = [accepted EXCEPT ![e] = 0]
      /\ delivered' = [delivered EXCEPT ![e] = <<>>]
  BY DEF ReceiveSynAck
<1> HIDE DEF x, n
<1>4. ComesUp(e, x, n, d)
  BY <1>1, <1>2, <1>3 DEF ComesUp
<1> QED BY <1>4, ComingUpMoves

LEMMA FinalAckMoves ==
  ASSUME TypeInv, TypeInv', StreamInv, FirstLife', NEW e \in Endpoint, NEW m \in net,
         ReceiveFinalAck(e, m)
  PROVE  Moves(e)
<1> DEFINE x == conn[e]
           n == m.seq
           d == after_send(establish(x, n))
<1>1. x \in ConnectionType /\ n \in Int
  BY DEF Datagram, TypeInv, TypeOK
<1>2. /\ conn' = [conn EXCEPT ![e] = d] /\ BecomeValid(e)
      /\ accepted' = [accepted EXCEPT ![e] = 0]
      /\ delivered' = [delivered EXCEPT ![e] = <<>>]
  BY DEF ReceiveFinalAck
<1>3. ComesUp(e, x, n, d)
  BY <1>1, <1>2 DEF ComesUp
<1> QED BY <1>3, ComingUpMoves

\* The data branch on connection c of endpoint e.
TakesData(e, m, c, n, received) ==
  /\ e \in Endpoint /\ m \in Datagram /\ c \in ConnectionType /\ c.valid
  /\ n = accepted[e] /\ received = delivered[e]
  /\ c.valid_send_handler = conn[e].valid_send_handler
  /\ HandleData(e, m, c, n, received)
  /\ conn[e].valid \/ life[e] = 0
  /\ written' = written /\ \A f \in Endpoint : f # e => life'[f] = life[f]

\* The branch took k bytes and left connection b to call its handler.
Took(e, b, n, k, received) ==
  /\ b.valid
  /\ b.valid_send_handler = conn[e].valid_send_handler
  /\ conn' = [conn EXCEPT ![e] = call_rcv_handler(b)]
  /\ accepted' = [accepted EXCEPT ![e] = n + k]
  /\ delivered' = [delivered EXCEPT ![e] = received \o passed_back(b)]

LEMMA TakingDataMoves ==
  ASSUME TypeInv, TypeInv', NEW e, NEW m, NEW c, NEW n, NEW received,
         TakesData(e, m, c, n, received)
  PROVE  Moves(e)
<1>1. /\ e \in Endpoint /\ c \in ConnectionType /\ c.valid
      /\ n = accepted[e] /\ received = delivered[e]
      /\ c.valid_send_handler = conn[e].valid_send_handler
      /\ HandleData(e, m, c, n, received)
      /\ conn[e].valid \/ life[e] = 0
      /\ written' = written /\ \A f \in Endpoint : f # e => life'[f] = life[f]
      /\ m.data \in Seq(Nat) /\ Len(m.data) \in Nat
  BY DEF TakesData, Datagram
<1>2. /\ conn \in [Endpoint -> ConnectionType] /\ accepted \in [Endpoint -> Nat]
      /\ delivered \in [Endpoint -> Seq(Nat)] /\ n \in Nat /\ received \in Seq(Nat)
  BY <1>1 DEF TypeInv, TypeOK
<1>3. PICK b \in ConnectionType, k \in Nat : Took(e, b, n, k, received)
  <2>1. CASE m.seq # c.sequence_no
    <3>1. /\ conn' = [conn EXCEPT ![e] = call_rcv_handler(c)]
          /\ accepted' = [accepted EXCEPT ![e] = n + 0]
          /\ delivered' = [delivered EXCEPT ![e] = received \o passed_back(c)]
      BY <1>2, <2>1, <1>1 DEF HandleData
    <3>2. Took(e, c, n, 0, received)
      BY <1>1, <3>1 DEF Took
    <3> QED BY <1>1, <3>2
  <2>2. CASE ~(m.seq # c.sequence_no)
    <3>1. PICK k \in accepted_lengths(Len(m.data)) :
            LET d == take_data(c, SubSeq(m.data, 1, k)) IN
            /\ conn' = [conn EXCEPT ![e] = call_rcv_handler(IF k > 0 THEN d ELSE c)]
            /\ accepted' = [accepted EXCEPT ![e] = n + k]
            /\ delivered' = [delivered EXCEPT ![e] = received \o passed_back(d)]
      BY <1>1, <2>2 DEF HandleData
    <3> DEFINE s == SubSeq(m.data, 1, k)
               d == take_data(c, s)
    <3>2. conn' = [conn EXCEPT ![e] = call_rcv_handler(IF k > 0 THEN d ELSE c)]
          /\ accepted' = [accepted EXCEPT ![e] = n + k]
          /\ delivered' = [delivered EXCEPT ![e] = received \o passed_back(d)]
      BY <3>1
    <3>3. k \in 0..Len(m.data)
      BY <1>1, AcceptedLengths
    <3>4. s \in Seq(Nat) /\ (k = 0 => s = <<>>)
      <4>1. \A i \in 1..k : m.data[i] \in Nat
        BY <1>1, <3>3
      <4>2. s \in Seq(Nat) /\ Len(s) = k
        BY <3>3, <4>1, SubSeqProperties
      <4> QED BY <4>2, EmptySeq
    <3> HIDE DEF s
    <3>5. /\ d \in ConnectionType /\ d.valid = c.valid
          /\ d.valid_send_handler = c.valid_send_handler
          /\ d.valid_rcv_handler = c.valid_rcv_handler
          /\ d.rcv_window = c.rcv_window \o s
      BY ZenonT(30), <1>1, <3>4, TakeDataFields
    <3> HIDE DEF d
    <3>6. CASE k > 0
      <4>1. Took(e, d, n, k, received)
        BY <1>1, <3>5, <3>2, <3>6 DEF Took
      <4> QED BY <3>3, <3>5, <4>1
    <3>7. CASE ~(k > 0)
      <4>1. k = 0 /\ s = <<>>
        BY <3>3, <3>4, <3>7
      <4>2. d.rcv_window = c.rcv_window
        <5>1. c.rcv_window \in Seq(Nat)
          BY <1>1 DEF ConnectionType
        <5> QED BY <3>5, <4>1, <5>1, ConcatEmptySeq
      <4>3. passed_back(d) = passed_back(c)
        BY <3>5, <4>2 DEF passed_back
      <4>4. Took(e, c, n, k, received)
        BY <1>1, <3>2, <3>7, <4>3 DEF Took
      <4> QED BY <1>1, <4>1, <4>4
    <3> QED BY <3>6, <3>7
  <2> QED BY <2>1, <2>2
<1> DEFINE d == call_rcv_handler(b)
<1>4. /\ b.valid /\ b.valid_send_handler = conn[e].valid_send_handler
      /\ conn' = [conn EXCEPT ![e] = d] /\ accepted' = [accepted EXCEPT ![e] = n + k]
      /\ delivered' = [delivered EXCEPT ![e] = received \o passed_back(b)]
      /\ d.valid = b.valid /\ d.valid_send_handler = b.valid_send_handler
  BY <1>3, ReceiveHandlerFields DEF Took
<1>5. d.rcv_window = <<>> \/ received \o passed_back(b) = received
  BY <1>2, <1>3, AllOrNothing
<1>6. conn'[e] = d /\ delivered'[e] = received \o passed_back(b) /\ accepted'[e] = n + k
  BY <1>1, <1>2, <1>4
<1> HIDE DEF d
<1>7. \A f \in Endpoint : f # e => SameView(f)
  BY <1>1, <1>2, <1>4 DEF SameView
<1>8. accepted[e] <= accepted'[e]
  BY <1>1, <1>2, <1>6
<1> QED BY <1>1, <1>4, <1>5, <1>6, <1>7, <1>8 DEF Moves

LEMMA DataMoves ==
  ASSUME TypeInv, TypeInv', NEW e \in Endpoint, NEW m \in net, ReceiveData(e, m)
  PROVE  Moves(e)
<1>1. /\ conn[e] \in ConnectionType /\ m \in Datagram /\ conn[e].valid
      /\ HandleData(e, m, conn[e], accepted[e], delivered[e])
      /\ written' = written /\ life' = life
  BY DEF ReceiveData, Arrival, TypeInv, TypeOK
<1>2. TakesData(e, m, conn[e], accepted[e], delivered[e])
  BY <1>1 DEF TakesData
<1> QED BY <1>2, TakingDataMoves

LEMMA FirstDataMoves ==
  ASSUME TypeInv, TypeInv', StreamInv, FirstLife', NEW e \in Endpoint, NEW m \in net,
         ReceiveFirstData(e, m)
  PROVE  Moves(e)
<1> DEFINE c == establish(conn[e], m.seq)
           nil == <<>>
<1>1. /\ conn[e] \in ConnectionType /\ m \in Datagram /\ m.seq \in Int
      /\ HandleData(e, m, c, 0, nil) /\ BecomeValid(e)
  BY DEF ReceiveFirstData, TypeInv, TypeOK, Datagram
<1>2. /\ life[e] = 0 /\ accepted[e] = 0 /\ delivered[e] = nil /\ written' = written
      /\ \A f \in Endpoint : f # e => life'[f] = life[f]
  BY <1>1, FirstValid
<1>3. c \in ConnectionType /\ c.valid /\ c.valid_send_handler = conn[e].valid_send_handler
  BY <1>1, EstablishFields
<1> HIDE DEF c, nil
<1>4. TakesData(e, m, c, 0, nil)
  BY <1>1, <1>2, <1>3 DEF TakesData
<1> QED BY <1>4, TakingDataMoves

-----------------------------------------------------------------------------
(* Sends and the end of a connection *)

LEMMA AsyncSendIsWrite ==
  ASSUME TypeInv, TypeInv', NEW e \in Endpoint, AsyncSend(e)
  PROVE  Service!Write(e)
<1>1. PICK n \in MessageSizes :
        LET c == set_send_handler(conn[e], Run(written[e], n)) IN
        /\ ~conn[e].valid_send_handler
        /\ written' = [written EXCEPT ![e] = @ + n]
        /\ conn' = [conn EXCEPT ![e] = after_send(c)]
        /\ UNCHANGED <<accepted, delivered, life>>
  BY DEF AsyncSend
<1> DEFINE b == Run(written[e], n)
           c == set_send_handler(conn[e], b)
           d == after_send(c)
<1>2. /\ conn[e] \in ConnectionType /\ conn \in [Endpoint -> ConnectionType]
      /\ n \in Nat /\ written[e] \in Nat /\ conn[e].send_sequence_no \in Int
  BY BoundAssumption DEF TypeInv, TypeOK, ConnectionType
<1>3. b \in Seq(Nat) /\ Len(b) = n
  BY <1>2, RunIsSeq
<1>4. conn' = [conn EXCEPT ![e] = d]
  BY <1>1
<1> HIDE DEF b
<1>5. /\ c \in ConnectionType /\ c.valid = conn[e].valid /\ c.write_buff = b
      /\ c.valid_send_handler /\ c.send_sequence_no = conn[e].send_sequence_no
      /\ c.valid => c.old_sequence_no = c.send_sequence_no
  BY <1>2, <1>3, SetSendHandlerFields
<1> HIDE DEF c
<1>6. /\ d.valid = conn[e].valid /\ d \in ConnectionType
      /\ ~d.valid_send_handler => ~(c.send_sequence_no < Len(c.write_buff) + c.old_sequence_no)
                                  /\ c.valid
  BY <1>5, AfterSendFields
<1>7. ~d.valid_send_handler => n = 0
  BY <1>2, <1>3, <1>5, <1>6
<1> HIDE DEF d
<1>8. conn'[e] = d /\ \A f \in Endpoint : f # e => conn'[f] = conn[f]
  BY <1>2, <1>4
<1>9. phase' = phase
  BY <1>1, <1>6, <1>8 DEF phase
<1>10. pending' = [pending EXCEPT ![e] = TRUE] \/ (n = 0 /\ pending' = pending)
  <2>1. d.valid_send_handler \in BOOLEAN /\ ~conn[e].valid_send_handler
    BY <1>1, <1>6 DEF ConnectionType
  <2>2. CASE d.valid_send_handler = TRUE
    BY <1>8, <2>2 DEF pending
  <2>3. CASE d.valid_send_handler = FALSE
    <3>1. conn[e].valid_send_handler = FALSE
      BY <1>2, <2>1 DEF ConnectionType
    <3>2. pending' = pending
      BY <1>8, <2>3, <3>1 DEF pending
    <3> QED BY <1>7, <2>3, <3>2
  <2> QED BY <2>1, <2>2, <2>3
<1>11. ~pending[e]
  BY <1>1 DEF pending
<1> QED BY <1>1, <1>9, <1>10, <1>11 DEF Service!Write

LEMMA HandleFinIsGoDown ==
  ASSUME TypeInv, TypeInv', NEW e \in Endpoint, HandleFin(e)
  PROVE  Service!GoDown(e)
<1> DEFINE d == reset(conn[e])
<1>1. /\ conn[e] \in ConnectionType /\ conn \in [Endpoint -> ConnectionType]
      /\ conn' = [conn EXCEPT ![e] = d] /\ life \in [Endpoint -> 0..2]
      /\ life' = [life EXCEPT ![e] = IF @ = 0 THEN 1 ELSE @]
      /\ UNCHANGED <<written, accepted, delivered>>
  BY DEF HandleFin, TypeInv, TypeOK
<1>2. d \in ConnectionType /\ ~d.valid /\ ~d.valid_send_handler
  BY <1>1, ResetFields
<1> HIDE DEF d
<1>3. /\ conn'[e] = d /\ life'[e] # 0
      /\ \A f \in Endpoint : f # e => conn'[f] = conn[f] /\ life'[f] = life[f]
  BY <1>1
<1>4. phase' = [phase EXCEPT ![e] = "down"]
  BY <1>2, <1>3 DEF phase
<1>5. d.valid_send_handler = FALSE
  BY <1>2 DEF ConnectionType
<1>6. pending' = [pending EXCEPT ![e] = FALSE]
  BY <1>3, <1>5 DEF pending
<1> QED BY <1>1, <1>4, <1>6 DEF Service!GoDown

-----------------------------------------------------------------------------
(* The refinement *)

LEMMA StaysFirstLife ==
  ASSUME MaxLives = 1, TypeInv, FirstLife, [Next]_vars
  PROVE  FirstLife'
<1>1. life \in [Endpoint -> 0..2] /\ \A e \in Endpoint : life[e] <= 1
  BY DEF TypeInv, TypeOK, FirstLife
<1>2. CASE UNCHANGED life
  BY <1>1, <1>2 DEF FirstLife
<1>3. ASSUME NEW e \in Endpoint, BecomeValid(e)
      PROVE  FirstLife'
  <2>1. life' = [life EXCEPT ![e] = life[e] + 1] /\ life[e] < 1
    BY <1>3 DEF BecomeValid
  <2> QED BY <1>1, <2>1 DEF FirstLife
<1>4. ASSUME NEW e \in Endpoint, HandleFin(e)
      PROVE  FirstLife'
  <2>1. life' = [life EXCEPT ![e] = IF @ = 0 THEN 1 ELSE @]
    BY <1>4 DEF HandleFin
  <2> QED BY <1>1, <2>1 DEF FirstLife
<1>5. \A m \in net : Receive(m.dst, m) => UNCHANGED life \/ (m.dst \in Endpoint /\ BecomeValid(m.dst))
  BY DEF TypeInv, TypeOK, Datagram, Receive, ReceiveSyn, ReceiveSynAck, ReceiveFinalAck,
         ReceiveFirstData, IgnoreWhileInvalid, ReceiveData, ReceiveAck, ReceiveFin,
         ReceiveLateSyn, history
<1>6. \A e \in Endpoint : Application(e) => UNCHANGED life
  BY DEF Application, AsyncSend, AsyncRcv, CloseConnection, CloseSocket, history
<1>7. \A e \in Endpoint : \A t \in timers[e] : Fires(e, t) => UNCHANGED life
  BY DEF Fires, ConnectionTimeout, SendTimeout, AckTimeout, TimerDropped, history
<1> QED BY <1>2, <1>3, <1>4, <1>5, <1>6, <1>7 DEF Next, CreateConnection, Lose, vars, history

LEMMA ServiceInit == Init => Service!Init
<1> SUFFICES ASSUME Init PROVE Service!Init
  OBVIOUS
<1>1. \A e \in Endpoint : conn[e] = NewConnection /\ life[e] = 0
  BY DEF Init
<1>2. NewConnection.valid = FALSE /\ NewConnection.valid_send_handler = FALSE
  BY DEF NewConnection
<1>3. \A e \in Endpoint : ~conn[e].valid /\ conn[e].valid_send_handler = FALSE /\ life[e] = 0
  BY <1>1, <1>2
<1>4. phase = [e \in Endpoint |-> "new"] /\ pending = [e \in Endpoint |-> FALSE]
  BY <1>3 DEF phase, pending
<1> QED BY <1>4, ServiceNames DEF Init, Service!Init

LEMMA ServiceStep ==
  ASSUME TypeInv, TypeInv', FreshInv, StreamInv, StreamInv', FirstLife', [Next]_vars
  PROVE  [Service!Next]_(Service!service)
<1>1. ASSUME NEW e \in Endpoint, Moves(e)
      PROVE  Service!Next
  BY <1>1, MovesIsProgress, ServiceNames DEF Service!Next
<1>2. CASE CreateConnection
  BY <1>2, CreateIsQuiet
<1>3. ASSUME NEW e \in Endpoint, Application(e)
      PROVE  [Service!Next]_(Service!service)
  <2>1. CASE AsyncSend(e)
    BY <2>1, AsyncSendIsWrite, ServiceNames DEF Service!Next
  <2>2. CASE AsyncRcv(e)
    BY <2>2, <1>1, AsyncRcvMoves
  <2>3. CASE CloseConnection(e) \/ CloseSocket(e)
    BY <2>3, CloseIsQuiet
  <2> QED BY <1>3, <2>1, <2>2, <2>3 DEF Application
<1>4. ASSUME NEW e \in Endpoint, HandleFin(e)
      PROVE  Service!Next
  BY <1>4, HandleFinIsGoDown, ServiceNames DEF Service!Next
<1>5. ASSUME NEW e \in Endpoint, NEW t \in timers[e], Fires(e, t)
      PROVE  UNCHANGED Service!service
  BY <1>5, TimersAreQuiet
<1>6. ASSUME NEW m \in net, Receive(m.dst, m)
      PROVE  [Service!Next]_(Service!service)
  <2>1. m.dst \in Endpoint
    BY DEF TypeInv, TypeOK, Datagram
  <2>2. CASE ReceiveSyn(m.dst, m)
    BY <2>1, <2>2, SynIsQuiet
  <2>3. CASE IgnoreWhileInvalid(m.dst, m)
    BY <2>1, <2>3, NetworkIsQuiet
  <2>4. CASE ReceiveSynAck(m.dst, m) \/ ReceiveFinalAck(m.dst, m) \/ ReceiveFirstData(m.dst, m)
    BY <2>1, <2>4, <1>1, SynAckMoves, FinalAckMoves, FirstDataMoves
  <2>5. CASE ReceiveData(m.dst, m) \/ ReceiveAck(m.dst, m)
             \/ ReceiveFin(m.dst, m) \/ ReceiveLateSyn(m.dst, m)
    BY <2>1, <2>5, <1>1, DataMoves, AckMoves, FinOrSynMoves
  <2> QED BY <1>6, <2>2, <2>3, <2>4, <2>5 DEF Receive
<1>7. ASSUME NEW m \in net, Lose(m)
      PROVE  UNCHANGED Service!service
  BY <1>7, NetworkIsQuiet
<1>8. CASE UNCHANGED vars
  <2>1. conn' = conn /\ UNCHANGED history
    BY <1>8 DEF vars, history
  <2> QED BY <2>1, QuietHistory
<1> QED BY <1>2, <1>3, <1>4, <1>5, <1>6, <1>7, <1>8 DEF Next

\* Two endpoints that connect once implement the byte stream service, whatever
\* the network does: the stream arrives in order, a send reported done has
\* arrived, and nothing moves on a connection that is down.
THEOREM Refinement == ASSUME MaxLives = 1 PROVE Spec => ImplementsByteStream
<1>1. Init => FirstLife
  BY DEF Init, FirstLife
<1>2. IInv /\ FirstLife /\ [Next]_vars => FirstLife'
  BY StaysFirstLife DEF IInv, TypeInv
<1>3. IInv /\ IInv' /\ FirstLife /\ FirstLife' /\ [Next]_vars
        => [Service!Next]_(Service!service)
  BY ServiceStep DEF IInv, TypeInv
<1> QED BY <1>1, <1>2, <1>3, ServiceInit, StreamInvariant, PTL
        DEF Spec, ImplementsByteStream, Service!Spec
=============================================================================
