----------------------------- MODULE Guard_proof -----------------------------
(***************************************************************************)
(* What guards the data and the acknowledgements of a connection against   *)
(* loss: proofs that a live timer stands behind every acknowledgement      *)
(* (AckGuarded), that only one step ever leaves an outstanding send        *)
(* without one (GuardKept) and none does in the first life of the          *)
(* connections (UnackedGuarded), and that no step undoes what a valid      *)
(* connection has achieved (Progress).                                     *)
(***************************************************************************)
EXTENDS Flow_proof

-----------------------------------------------------------------------------
(* A step disturbs one endpoint only *)

OnlyAt(e) ==
  \A f \in Endpoint : f # e =>
    /\ conn'[f] = conn[f] /\ timers'[f] = timers[f] /\ accepted'[f] = accepted[f]
    /\ delivered'[f] = delivered[f] /\ life'[f] = life[f]

\* A timer that its handler would drop when it fires.
Spent(f, t) ==
  /\ t.kind = "send" => ~segment_waits(conn[f], t.next)
  /\ t.kind = "ack" => ~ack_waits(conn[f], t.next)

\* The step leaves f's numbers alone and drops no timer that guards something.
Undisturbed(f) ==
  /\ SameFlow(f)
  /\ accepted'[f] = accepted[f]
  /\ \A t \in timers[f] : t \in timers'[f] \/ Spent(f, t)

AckCovered(f) ==
  conn[f].valid /\ accepted[f] > 0 =>
    \E t \in timers[f] : t.kind = "ack" /\ t.next >= conn[f].sequence_no

SendCovered(f) ==
  sending(conn[f]) /\ conn[f].remote_window_size >= MSS =>
    \E t \in timers[f] : t.kind = "send" /\ t.next >= conn[f].send_sequence_no

\* A valid connection can send a segment, or a timer is there that will: what
\* takes the congestion window to 0 is a timer of a number not acknowledged,
\* and only an acknowledgement, which opens the window, moves that number.
WindowOpen(f) ==
  conn[f].valid /\ conn[f].remote_window_size >= MSS =>
    \/ conn[f].congestion_window >= 1
    \/ \E t \in timers[f] : t.kind = "send" /\ t.next >= conn[f].send_sequence_no

LEMMA UndisturbedCovered ==
  ASSUME TypeInv, NEW f \in Endpoint, Undisturbed(f)
  PROVE  /\ AckCovered(f) => AckCovered(f)'
         /\ SendCovered(f) => SendCovered(f)'
         /\ WindowOpen(f) => WindowOpen(f)'
<1>1. /\ conn[f].sequence_no \in Int /\ conn[f].send_sequence_no \in Int
      /\ \A t \in timers[f] : t.next \in Int
  BY DEF TypeInv, TypeOK, ConnectionType, Timer
<1>2. ASSUME AckCovered(f), conn'[f].valid, accepted'[f] > 0
      PROVE  \E t \in timers'[f] : t.kind = "ack" /\ t.next >= conn'[f].sequence_no
  <2>1. conn[f].valid /\ conn'[f].sequence_no = conn[f].sequence_no
    BY <1>2 DEF Undisturbed, SameFlow
  <2>2. PICK t \in timers[f] : t.kind = "ack" /\ t.next >= conn[f].sequence_no
    BY <1>2, <2>1 DEF Undisturbed, AckCovered
  <2>3. ~Spent(f, t)
    BY <1>1, <2>1, <2>2 DEF Spent, ack_waits
  <2> QED BY <2>1, <2>2, <2>3 DEF Undisturbed
<1>3. ASSUME SendCovered(f), sending(conn'[f]), conn'[f].remote_window_size >= MSS
      PROVE  \E t \in timers'[f] : t.kind = "send" /\ t.next >= conn'[f].send_sequence_no
  <2>1. sending(conn[f]) /\ conn'[f].send_sequence_no = conn[f].send_sequence_no
        /\ conn[f].remote_window_size >= MSS
    BY <1>3 DEF Undisturbed, SameFlow, sending
  <2>2. PICK t \in timers[f] : t.kind = "send" /\ t.next >= conn[f].send_sequence_no
    BY <1>3, <2>1 DEF SendCovered
  <2>3. ~Spent(f, t)
    BY <1>1, <2>1, <2>2 DEF Spent, segment_waits, sending
  <2> QED BY <2>1, <2>2, <2>3 DEF Undisturbed
<1>4. ASSUME WindowOpen(f), conn'[f].valid, conn'[f].remote_window_size >= MSS,
             ~(conn'[f].congestion_window >= 1)
      PROVE  \E t \in timers'[f] : t.kind = "send" /\ t.next >= conn'[f].send_sequence_no
  <2>1. /\ conn[f].valid /\ conn[f].remote_window_size >= MSS
        /\ ~(conn[f].congestion_window >= 1)
        /\ conn'[f].send_sequence_no = conn[f].send_sequence_no
    BY <1>4 DEF Undisturbed, SameFlow
  <2>2. PICK t \in timers[f] : t.kind = "send" /\ t.next >= conn[f].send_sequence_no
    BY <1>4, <2>1 DEF WindowOpen
  <2>3. ~Spent(f, t)
    BY <1>1, <2>1, <2>2 DEF Spent, segment_waits
  <2> QED BY <2>1, <2>2, <2>3 DEF Undisturbed
<1> QED BY <1>2, <1>3, <1>4 DEF AckCovered, SendCovered, WindowOpen

\* A step at e leaves the other endpoint covered.
LEMMA OthersCovered ==
  ASSUME TypeInv, NEW e \in Endpoint, OnlyAt(e), NEW f \in Endpoint, f # e
  PROVE  Undisturbed(f)
BY DEF OnlyAt, Undisturbed, SameFlow

LEMMA UpdateOnlyAt ==
  ASSUME TypeInv, NEW e \in Endpoint, NEW c, NEW s, NEW n, NEW d, NEW l,
         conn' = conn \/ conn' = [conn EXCEPT ![e] = c],
         timers' = timers \/ timers' = [timers EXCEPT ![e] = s],
         accepted' = accepted \/ accepted' = [accepted EXCEPT ![e] = n],
         delivered' = delivered \/ delivered' = [delivered EXCEPT ![e] = d],
         life' = life \/ life' = [life EXCEPT ![e] = l]
  PROVE  OnlyAt(e)
<1>1. /\ conn \in [Endpoint -> ConnectionType] /\ timers \in [Endpoint -> SUBSET Timer]
      /\ accepted \in [Endpoint -> Nat] /\ delivered \in [Endpoint -> Seq(Nat)]
      /\ life \in [Endpoint -> 0..2]
  BY DEF TypeInv, TypeOK
<1>2. \A f \in Endpoint : f # e => conn'[f] = conn[f]
  BY <1>1
<1>3. \A f \in Endpoint : f # e => timers'[f] = timers[f]
  BY <1>1
<1>4. \A f \in Endpoint : f # e => accepted'[f] = accepted[f]
  BY <1>1
<1>5. \A f \in Endpoint : f # e => delivered'[f] = delivered[f]
  BY <1>1
<1>6. \A f \in Endpoint : f # e => life'[f] = life[f]
  BY <1>1
<1> QED BY <1>2, <1>3, <1>4, <1>5, <1>6 DEF OnlyAt

-----------------------------------------------------------------------------
(* Where each action takes place *)

LEMMA CreateOnlyAt ==
  ASSUME TypeInv, CreateConnection
  PROVE  OnlyAt(Client)
<1>1. Client \in Endpoint /\ accepted' = accepted /\ delivered' = delivered /\ life' = life
  BY DEF CreateConnection, Endpoint, history
<1>2. /\ conn' = [conn EXCEPT ![Client] = NewConnection]
      /\ timers' = [timers EXCEPT ![Client] = timers[Client] \cup {Arm("syn", -1)}]
  BY DEF CreateConnection
<1> QED BY <1>1, <1>2, UpdateOnlyAt

LEMMA ApplicationOnlyAt ==
  ASSUME TypeInv, NEW e \in Endpoint, Application(e)
  PROVE  OnlyAt(e)
<1>1. CASE AsyncSend(e)
  <2>1. PICK n \in MessageSizes :
          LET c == set_send_handler(conn[e], Run(written[e], n)) IN
          /\ conn' = [conn EXCEPT ![e] = after_send(c)]
          /\ timers' = [timers EXCEPT ![e] = timers[e] \cup armed_by(c)]
          /\ accepted' = accepted /\ delivered' = delivered /\ life' = life
    BY <1>1 DEF AsyncSend
  <2> QED BY <2>1, UpdateOnlyAt
<1>2. CASE AsyncRcv(e)
  BY <1>2, UpdateOnlyAt DEF AsyncRcv
<1>3. CASE CloseConnection(e) \/ CloseSocket(e)
  BY <1>3, UpdateOnlyAt DEF CloseConnection, CloseSocket, history
<1> QED BY <1>1, <1>2, <1>3 DEF Application

LEMMA HandleFinOnlyAt ==
  ASSUME TypeInv, NEW e \in Endpoint, HandleFin(e)
  PROVE  OnlyAt(e)
BY UpdateOnlyAt DEF HandleFin

LEMMA TimerOnlyAt ==
  ASSUME TypeInv, NEW e \in Endpoint, NEW t \in timers[e], Fires(e, t)
  PROVE  OnlyAt(e)
<1>1. CASE ConnectionTimeout(e, t) \/ TimerDropped(e, t)
  <2>1. /\ conn' = conn /\ accepted' = accepted /\ delivered' = delivered /\ life' = life
        /\ timers' = timers \/ timers' = [timers EXCEPT ![e] = timers[e] \ {t}]
    BY <1>1 DEF ConnectionTimeout, TimerDropped, history
  <2> QED BY <2>1, UpdateOnlyAt
<1>2. CASE SendTimeout(e, t)
  BY <1>2, UpdateOnlyAt DEF SendTimeout, history
<1>3. CASE AckTimeout(e, t)
  <2>1. /\ accepted' = accepted /\ delivered' = delivered /\ life' = life
        /\ conn' = [conn EXCEPT ![e] = inc_timeout(conn[e])]
        /\ timers' = [timers EXCEPT ![e] = (timers[e] \ {t}) \cup {Arm("ack", conn[e].sequence_no)}]
    BY <1>3 DEF AckTimeout, history
  <2> QED BY <2>1, UpdateOnlyAt
<1> QED BY <1>1, <1>2, <1>3 DEF Fires

LEMMA HandleDataOnlyAt ==
  ASSUME TypeInv, NEW e \in Endpoint, NEW m \in net, NEW c, NEW taken, NEW received,
         HandleData(e, m, c, taken, received),
         life' = life \/ life' = [life EXCEPT ![e] = life[e] + 1]
  PROVE  OnlyAt(e)
<1>1. CASE m.seq # c.sequence_no
  BY <1>1, UpdateOnlyAt DEF HandleData
<1>2. CASE m.seq = c.sequence_no
  <2>1. PICK k \in accepted_lengths(Len(m.data)) :
          LET d == take_data(c, SubSeq(m.data, 1, k)) IN
          /\ conn' = [conn EXCEPT ![e] = call_rcv_handler(IF k > 0 THEN d ELSE c)]
          /\ accepted' = [accepted EXCEPT ![e] = taken + k]
          /\ delivered' = [delivered EXCEPT ![e] = received \o passed_back(d)]
          /\ timers' = IF k > 0
                       THEN [timers EXCEPT ![e] = timers[e] \cup {Arm("ack", d.sequence_no)}]
                       ELSE timers
    BY <1>2 DEF HandleData
  <2> QED BY <2>1, UpdateOnlyAt
<1> QED BY <1>1, <1>2

LEMMA ReceiveOnlyAt ==
  ASSUME TypeInv, NEW e \in Endpoint, NEW m \in net, Receive(e, m)
  PROVE  OnlyAt(e)
<1>1. CASE ReceiveSyn(e, m)
  BY <1>1, UpdateOnlyAt DEF ReceiveSyn, history
<1>2. CASE ReceiveSynAck(e, m)
  BY <1>2, UpdateOnlyAt DEF ReceiveSynAck, BecomeValid
<1>3. CASE ReceiveFinalAck(e, m)
  BY <1>3, UpdateOnlyAt DEF ReceiveFinalAck, BecomeValid
<1>4. CASE ReceiveFirstData(e, m)
  BY <1>4, HandleDataOnlyAt DEF ReceiveFirstData, BecomeValid
<1>5. CASE IgnoreWhileInvalid(e, m)
  BY <1>5, UpdateOnlyAt DEF IgnoreWhileInvalid, history
<1>6. CASE ReceiveData(e, m)
  BY <1>6, HandleDataOnlyAt DEF ReceiveData
<1>7. CASE ReceiveAck(e, m)
  BY <1>7, UpdateOnlyAt DEF ReceiveAck
<1>8. CASE ReceiveFin(e, m) \/ ReceiveLateSyn(e, m)
  BY <1>8, UpdateOnlyAt DEF ReceiveFin, ReceiveLateSyn
<1> QED BY <1>1, <1>2, <1>3, <1>4, <1>5, <1>6, <1>7, <1>8 DEF Receive

-----------------------------------------------------------------------------
(* The steps that leave the guarded numbers alone *)

LEMMA CreateUndisturbed ==
  ASSUME TypeInv, FreshInv, CreateConnection
  PROVE  Undisturbed(Client)
<1>1. conn' = conn /\ Client \in Endpoint /\ accepted' = accepted
  BY CreateFlow DEF Endpoint, CreateConnection, history
<1>2. timers' = [timers EXCEPT ![Client] = timers[Client] \cup {Arm("syn", -1)}]
  BY DEF CreateConnection
<1>3. timers \in [Endpoint -> SUBSET Timer]
  BY DEF TypeInv, TypeOK
<1> QED BY <1>1, <1>2, <1>3, SameConnFlow DEF Undisturbed

LEMMA QuietUndisturbed ==
  ASSUME TypeInv, NEW e \in Endpoint,
         \/ AsyncRcv(e) \/ CloseConnection(e) \/ CloseSocket(e)
         \/ \E m \in net : \/ IgnoreWhileInvalid(e, m) \/ ReceiveFin(e, m)
                           \/ ReceiveLateSyn(e, m)
  PROVE  Undisturbed(e)
<1>1. timers' = timers /\ accepted' = accepted
  BY DEF AsyncRcv, CloseConnection, CloseSocket, IgnoreWhileInvalid, ReceiveFin,
         ReceiveLateSyn, history
<1>2. SameFlow(e)
  BY SameConnFlow, AsyncRcvFlow, FinOrSynFlow
     DEF CloseConnection, CloseSocket, IgnoreWhileInvalid
<1> QED BY <1>1, <1>2 DEF Undisturbed

LEMMA TimerUndisturbed ==
  ASSUME TypeInv, NEW e \in Endpoint, NEW t \in timers[e],
         ConnectionTimeout(e, t) \/ TimerDropped(e, t)
  PROVE  Undisturbed(e)
<1>1. /\ conn' = conn /\ accepted' = accepted
      /\ timers' = timers \/ timers' = [timers EXCEPT ![e] = timers[e] \ {t}]
  BY DEF ConnectionTimeout, TimerDropped, history
<1>2. Spent(e, t)
  BY DEF ConnectionTimeout, TimerDropped, Spent
<1>3. timers \in [Endpoint -> SUBSET Timer]
  BY DEF TypeInv, TypeOK
<1>4. \A u \in timers[e] : u \in timers'[e] \/ Spent(e, u)
  BY <1>1, <1>2, <1>3
<1> QED BY <1>1, <1>4, SameConnFlow DEF Undisturbed

-----------------------------------------------------------------------------
(* Acknowledgements *)

\* The acknowledgement of what a datagram brought is guarded with its number.
LEMMA TakesAckCovered ==
  ASSUME TypeInv, NEW e \in Endpoint, NEW c \in ConnectionType, NEW taken \in Nat, NEW k,
         Takes(e, c, taken, k),
         taken > 0 => \E t \in timers[e] : t.kind = "ack" /\ t.next >= c.sequence_no
  PROVE  AckCovered(e)'
<1>1. /\ k \in Nat /\ timers \in [Endpoint -> SUBSET Timer] /\ c.sequence_no \in Int
      /\ accepted \in [Endpoint -> Nat]
  BY DEF Takes, TypeInv, TypeOK, ConnectionType
<1>2. conn'[e].sequence_no = c.sequence_no + k /\ accepted'[e] = taken + k
  BY <1>1 DEF Takes
<1>3. CASE k = 0
  BY <1>1, <1>2, <1>3 DEF Takes, AckCovered
<1>4. CASE k > 0
  <2> DEFINE a == Arm("ack", c.sequence_no + k)
  <2>1. a.kind = "ack" /\ a.next = c.sequence_no + k
    BY DEF Arm
  <2>2. a \in timers'[e]
    BY <1>1, <1>4 DEF Takes
  <2>3. a.next >= conn'[e].sequence_no
    BY <1>1, <1>2, <2>1
  <2> HIDE DEF a
  <2> QED BY <2>1, <2>2, <2>3 DEF AckCovered
<1> QED BY <1>1, <1>3, <1>4

LEMMA DataAckCovered ==
  ASSUME TypeInv, NEW e \in Endpoint, AckCovered(e), NEW m \in net,
         ReceiveData(e, m) \/ ReceiveFirstData(e, m)
  PROVE  AckCovered(e)'
<1>1. conn[e] \in ConnectionType /\ accepted[e] \in Nat /\ m.seq \in Int
  BY DEF TypeInv, TypeOK, Datagram
<1>2. CASE ReceiveData(e, m)
  <2>1. conn[e].valid /\ HandleData(e, m, conn[e], accepted[e], delivered[e])
    BY <1>2 DEF ReceiveData, Arrival
  <2>2. PICK k : Takes(e, conn[e], accepted[e], k)
    BY <1>1, <2>1, HandleDataTakes
  <2> QED BY <1>1, <2>1, <2>2, TakesAckCovered DEF AckCovered
<1>3. CASE ReceiveFirstData(e, m)
  <2> DEFINE c == establish(conn[e], m.seq)
  <2>1. HandleData(e, m, c, 0, <<>>)
    BY <1>3 DEF ReceiveFirstData
  <2>2. c \in ConnectionType
    BY <1>1, EstablishFields
  <2> HIDE DEF c
  <2>3. PICK k : Takes(e, c, 0, k)
    BY <2>1, <2>2, HandleDataTakes
  <2> QED BY <2>2, <2>3, TakesAckCovered
<1> QED BY <1>2, <1>3

\* Where the step calls send(), nothing new is acknowledged.
LEMMA SendsAckCovered ==
  ASSUME TypeInv, NEW e \in Endpoint, AckCovered(e), NEW c, NEW x, NEW y, Sends(e, c, x, y),
         accepted'[e] > 0 => /\ accepted'[e] = accepted[e]
                             /\ c.valid = conn[e].valid
                             /\ c.sequence_no = conn[e].sequence_no
  PROVE  AckCovered(e)'
<1>1. timers \in [Endpoint -> SUBSET Timer]
  BY DEF TypeInv, TypeOK
<1>2. timers[e] \subseteq timers'[e]
  BY <1>1 DEF Sends
<1>3. conn'[e].valid = c.valid /\ conn'[e].sequence_no = c.sequence_no
  BY DEF Sends
<1> QED BY <1>2, <1>3 DEF AckCovered

LEMMA SendingAckCovered ==
  ASSUME TypeInv, NEW e \in Endpoint, AckCovered(e),
         \/ AsyncSend(e)
         \/ \E m \in net : ReceiveSynAck(e, m) \/ ReceiveFinalAck(e, m) \/ ReceiveAck(e, m)
  PROVE  AckCovered(e)'
<1>1. conn[e] \in ConnectionType /\ accepted \in [Endpoint -> Nat]
      /\ conn[e].old_sequence_no <= conn[e].send_sequence_no
      /\ \A m \in net : m.seq \in Int
  BY DEF TypeInv, TypeOK, Datagram, SendStartsBeforeNext
<1>2. CASE AsyncSend(e)
  <2>1. PICK buff \in Seq(Nat) : Sends(e, set_send_handler(conn[e], buff), {}, {})
    BY <1>2, AsyncSendSends
  <2> DEFINE c == set_send_handler(conn[e], buff)
  <2>2. c.valid = conn[e].valid /\ c.sequence_no = conn[e].sequence_no
    BY <1>1, SetSendHandlerFields
  <2>3. accepted' = accepted
    BY <1>2 DEF AsyncSend
  <2>4. Sends(e, c, {}, {})
    BY <2>1
  <2> HIDE DEF c
  <2> QED BY <2>2, <2>3, <2>4, SendsAckCovered
<1>3. ASSUME NEW m \in net, ReceiveSynAck(e, m)
      PROVE  AckCovered(e)'
  <2>1. accepted'[e] = 0
    BY <1>1, <1>3 DEF ReceiveSynAck
  <2>2. PICK c : Sends(e, c, {Ack(e, 0)}, {Arm("finalack", 0)})
    BY <1>3, SynAckSends
  <2> QED BY <2>1, <2>2, SendsAckCovered
<1>4. ASSUME NEW m \in net, ReceiveFinalAck(e, m)
      PROVE  AckCovered(e)'
  <2>1. accepted'[e] = 0
    BY <1>1, <1>4 DEF ReceiveFinalAck
  <2> QED BY <1>4, <2>1, FinalAckSends, SendsAckCovered
<1>5. ASSUME NEW m \in net, ReceiveAck(e, m)
      PROVE  AckCovered(e)'
  <2> DEFINE c == take_ack(conn[e], m.seq)
  <2>1. c.valid = conn[e].valid /\ c.sequence_no = conn[e].sequence_no
    BY <1>1, TakeAckFields
  <2>2. accepted' = accepted
    BY <1>5 DEF ReceiveAck
  <2>3. Sends(e, c, {}, {})
    BY <1>5, AckSends
  <2> HIDE DEF c
  <2> QED BY <2>1, <2>2, <2>3, SendsAckCovered
<1> QED BY <1>2, <1>3, <1>4, <1>5

\* The timeout of an acknowledgement arms the next one.
LEMMA AckTimeoutAckCovered ==
  ASSUME TypeInv, NEW e \in Endpoint, NEW t \in timers[e], AckTimeout(e, t)
  PROVE  AckCovered(e)'
<1> DEFINE a == Arm("ack", conn[e].sequence_no)
<1>1. /\ timers' = [timers EXCEPT ![e] = (timers[e] \ {t}) \cup {a}]
      /\ timers \in [Endpoint -> SUBSET Timer] /\ conn[e].sequence_no \in Int
  BY DEF AckTimeout, TypeInv, TypeOK, ConnectionType
<1>2. a.kind = "ack" /\ a.next = conn[e].sequence_no
  BY DEF Arm
<1>3. conn'[e].sequence_no = conn[e].sequence_no
  BY AckTimeoutFlow DEF SameFlow
<1>4. a \in timers'[e]
  BY <1>1
<1> HIDE DEF a
<1>5. a.next >= conn'[e].sequence_no
  BY <1>1, <1>2, <1>3
<1> QED BY <1>2, <1>4, <1>5 DEF AckCovered

LEMMA InvalidAckCovered ==
  ASSUME TypeInv, NEW e \in Endpoint, HandleFin(e) \/ \E m \in net : ReceiveSyn(e, m)
  PROVE  AckCovered(e)'
BY HandleFinFlow, SynFlow DEF AckCovered

LEMMA SendTimeoutAckCovered ==
  ASSUME TypeInv, NEW e \in Endpoint, AckCovered(e), NEW t \in timers[e], SendTimeout(e, t)
  PROVE  AckCovered(e)'
<1>1. Halves(e) /\ accepted' = accepted
  BY SendTimeoutHalves DEF SendTimeout, history
<1> QED BY <1>1 DEF Halves, AckCovered

LEMMA AckCoveredStep ==
  ASSUME TypeInv, FreshInv, AckIsGuarded, [Next]_vars
  PROVE  AckIsGuarded'
<1>1. \A f \in Endpoint : AckCovered(f)
  BY DEF AckIsGuarded, AckCovered
<1>2. ASSUME NEW e \in Endpoint, OnlyAt(e), AckCovered(e)'
      PROVE  \A f \in Endpoint : AckCovered(f)'
  BY <1>1, <1>2, OthersCovered, UndisturbedCovered
<1>3. CASE CreateConnection
  <2>1. Client \in Endpoint
    BY DEF Endpoint
  <2>2. AckCovered(Client)' /\ OnlyAt(Client)
    BY <1>1, <1>3, <2>1, CreateOnlyAt, CreateUndisturbed, UndisturbedCovered
  <2> QED BY <1>2, <2>1, <2>2 DEF AckIsGuarded, AckCovered
<1>4. ASSUME NEW e \in Endpoint, Application(e)
      PROVE  AckCovered(e)'
  BY <1>1, <1>4, SendingAckCovered, QuietUndisturbed, UndisturbedCovered DEF Application
<1>5. ASSUME NEW e \in Endpoint, NEW t \in timers[e], Fires(e, t)
      PROVE  AckCovered(e)'
  BY <1>1, <1>5, TimerUndisturbed, UndisturbedCovered, SendTimeoutAckCovered,
     AckTimeoutAckCovered DEF Fires
<1>6. ASSUME NEW e \in Endpoint, NEW m \in net, Receive(e, m)
      PROVE  AckCovered(e)'
  BY <1>1, <1>6, InvalidAckCovered, SendingAckCovered, DataAckCovered, QuietUndisturbed,
     UndisturbedCovered DEF Receive
<1>7. ASSUME NEW m \in net, Lose(m)
      PROVE  AckIsGuarded'
  BY <1>7 DEF Lose, history, AckIsGuarded
<1>8. CASE UNCHANGED vars
  BY <1>8 DEF vars, AckIsGuarded
<1>9. \A m \in net : m.dst \in Endpoint
  BY DEF TypeInv, TypeOK, Datagram
<1>10. ASSUME \E e \in Endpoint : OnlyAt(e) /\ AckCovered(e)'
       PROVE  AckIsGuarded'
  BY <1>2, <1>10 DEF AckIsGuarded, AckCovered
<1>11. ASSUME NEW e \in Endpoint, Application(e) \/ HandleFin(e)
       PROVE  AckIsGuarded'
  BY <1>4, <1>10, <1>11, ApplicationOnlyAt, HandleFinOnlyAt, InvalidAckCovered
<1>12. ASSUME NEW e \in Endpoint, NEW t \in timers[e], Fires(e, t)
       PROVE  AckIsGuarded'
  BY <1>5, <1>10, <1>12, TimerOnlyAt
<1>13. ASSUME NEW m \in net, Receive(m.dst, m)
       PROVE  AckIsGuarded'
  BY <1>6, <1>9, <1>10, <1>13, ReceiveOnlyAt
<1> QED BY <1>3, <1>7, <1>8, <1>11, <1>12, <1>13 DEF Next

\* A receiver keeps a live timer for its latest acknowledgement for as long as
\* the connection is valid, whatever arrives late and whatever fires.
THEOREM AckGuarded == Spec => []AckIsGuarded
<1>1. Init => AckIsGuarded
  BY DEF Init, AckIsGuarded, NewConnection
<1>2. IInv /\ AckIsGuarded /\ [Next]_vars => AckIsGuarded'
  BY AckCoveredStep DEF IInv, TypeInv
<1> QED BY <1>1, <1>2, StreamInvariant, PTL DEF Spec

-----------------------------------------------------------------------------
(* Progress *)

DeliversMore(e) == \E s \in Seq(Nat) : delivered'[e] = delivered[e] \o s

Advances(e) ==
  conn[e].valid /\ conn'[e].valid =>
    /\ conn'[e].sequence_no >= conn[e].sequence_no
    /\ conn'[e].send_sequence_no >= conn[e].send_sequence_no
    /\ Len(delivered'[e]) >= Len(delivered[e])
    /\ SubSeq(delivered'[e], 1, Len(delivered[e])) = delivered[e]

LEMMA Extends ==
  ASSUME NEW s \in Seq(Nat), NEW t \in Seq(Nat), NEW u, u = s \o t
  PROVE  Len(u) >= Len(s) /\ SubSeq(u, 1, Len(s)) = s
<1>1. /\ u \in Seq(Nat) /\ Len(u) = Len(s) + Len(t) /\ Len(s) \in Nat /\ Len(t) \in Nat
      /\ \A i \in 1..Len(s) : u[i] = s[i]
  BY ConcatProperties, LenProperties
<1> DEFINE p == SubSeq(u, 1, Len(s))
<1>2. \A i \in 1..Len(s) : u[i] \in Nat
  BY <1>1
<1>3. p \in Seq(Nat) /\ Len(p) = Len(s) /\ \A i \in 1..Len(s) : p[i] = u[i]
  BY <1>1, <1>2, SubSeqProperties
<1> HIDE DEF p
<1>4. p = s
  BY <1>1, <1>3, SeqEqual
<1> QED BY <1>1, <1>4 DEF p

LEMMA AdvancesFrom ==
  ASSUME TypeInv, NEW e \in Endpoint,
         conn[e].valid /\ conn'[e].valid =>
           /\ conn'[e].sequence_no >= conn[e].sequence_no
           /\ conn'[e].send_sequence_no >= conn[e].send_sequence_no
           /\ delivered'[e] = delivered[e] \/ DeliversMore(e)
  PROVE  Advances(e)
<1> SUFFICES ASSUME conn[e].valid, conn'[e].valid PROVE Advances(e)
  BY DEF Advances
<1>1. delivered[e] \in Seq(Nat)
  BY DEF TypeInv, TypeOK
<1>2. DeliversMore(e)
  <2>1. <<>> \in Seq(Nat) /\ delivered[e] \o <<>> = delivered[e]
    BY <1>1, EmptySeq, ConcatEmptySeq
  <2> QED BY <2>1 DEF DeliversMore
<1>3. PICK s \in Seq(Nat) : delivered'[e] = delivered[e] \o s
  BY <1>2 DEF DeliversMore
<1> QED BY <1>1, <1>3, Extends DEF Advances

LEMMA PassedBackType ==
  ASSUME NEW c \in ConnectionType
  PROVE  passed_back(c) \in Seq(Nat)
BY EmptySeq DEF passed_back, ConnectionType

LEMMA HandleDataDelivers ==
  ASSUME TypeInv, NEW e \in Endpoint, NEW m \in net, NEW c \in ConnectionType,
         NEW taken, NEW received, HandleData(e, m, c, taken, received)
  PROVE  \E s \in Seq(Nat) : delivered'[e] = received \o s
<1>1. delivered \in [Endpoint -> Seq(Nat)] /\ m.data \in Seq(Nat) /\ Len(m.data) \in Nat
  BY LenProperties DEF TypeInv, TypeOK, Datagram
<1>2. CASE m.seq # c.sequence_no
  BY <1>1, <1>2, PassedBackType DEF HandleData
<1>3. CASE m.seq = c.sequence_no
  <2>1. PICK k \in accepted_lengths(Len(m.data)) :
          LET d == take_data(c, SubSeq(m.data, 1, k)) IN
          delivered' = [delivered EXCEPT ![e] = received \o passed_back(d)]
    BY <1>3 DEF HandleData
  <2>2. k \in 0..Len(m.data)
    BY <1>1, AcceptedLengths
  <2> DEFINE data == SubSeq(m.data, 1, k)
             d == take_data(c, data)
  <2>3. data \in Seq(Nat)
    <3>1. \A i \in 1..k : m.data[i] \in Nat
      BY <1>1, <2>2
    <3> QED BY <2>2, <3>1, SubSeqProperties
  <2>4. delivered' = [delivered EXCEPT ![e] = received \o passed_back(d)]
    BY <2>1
  <2> HIDE DEF data
  <2>5. d \in ConnectionType
    BY <2>3, TakeDataFields
  <2> HIDE DEF d
  <2>6. passed_back(d) \in Seq(Nat)
    BY <2>5, PassedBackType
  <2> QED BY <1>1, <2>4, <2>6
<1> QED BY <1>2, <1>3

LEMMA SameNumbersAdvance ==
  ASSUME TypeInv, NEW e \in Endpoint, SameFlow(e),
         delivered'[e] = delivered[e] \/ DeliversMore(e)
  PROVE  Advances(e)
<1>1. conn[e].sequence_no \in Int /\ conn[e].send_sequence_no \in Int
  BY DEF TypeInv, TypeOK, ConnectionType
<1> QED BY <1>1, AdvancesFrom DEF SameFlow

LEMMA QuietAdvances ==
  ASSUME TypeInv, NEW e \in Endpoint,
         \/ AsyncRcv(e) \/ CloseConnection(e) \/ CloseSocket(e)
         \/ \E m \in net : \/ IgnoreWhileInvalid(e, m) \/ ReceiveFin(e, m)
                           \/ ReceiveLateSyn(e, m)
  PROVE  Advances(e)
<1>1. conn[e] \in ConnectionType /\ delivered \in [Endpoint -> Seq(Nat)]
  BY DEF TypeInv, TypeOK
<1>2. SameFlow(e)
  BY QuietUndisturbed DEF Undisturbed
<1>3. CASE AsyncRcv(e)
  <2> DEFINE c == set_rcv_handler(conn[e])
  <2>1. c \in ConnectionType
    BY <1>1, SetRcvHandlerFields
  <2>2. delivered' = [delivered EXCEPT ![e] = delivered[e] \o passed_back(c)]
    BY <1>3 DEF AsyncRcv
  <2> HIDE DEF c
  <2>3. DeliversMore(e)
    BY <1>1, <2>1, <2>2, PassedBackType DEF DeliversMore
  <2> QED BY <1>2, <2>3, SameNumbersAdvance
<1>4. ASSUME NEW m \in net, ReceiveFin(e, m) \/ ReceiveLateSyn(e, m)
      PROVE  Advances(e)
  <2>1. delivered' = [delivered EXCEPT ![e] = delivered[e] \o passed_back(conn[e])]
    BY <1>4 DEF ReceiveFin, ReceiveLateSyn
  <2>2. DeliversMore(e)
    BY <1>1, <2>1, PassedBackType DEF DeliversMore
  <2> QED BY <1>2, <2>2, SameNumbersAdvance
<1>5. CASE CloseConnection(e) \/ CloseSocket(e) \/ \E m \in net : IgnoreWhileInvalid(e, m)
  <2>1. delivered' = delivered
    BY <1>5 DEF CloseConnection, CloseSocket, IgnoreWhileInvalid, history
  <2> QED BY <1>2, <2>1, SameNumbersAdvance
<1> QED BY <1>3, <1>4, <1>5

LEMMA TimersAdvance ==
  ASSUME TypeInv, NEW e \in Endpoint, NEW t \in timers[e], Fires(e, t)
  PROVE  Advances(e)
<1>1. delivered' = delivered
  BY DEF Fires, ConnectionTimeout, SendTimeout, AckTimeout, TimerDropped, history
<1>2. CASE ConnectionTimeout(e, t) \/ TimerDropped(e, t)
  BY <1>1, <1>2, TimerUndisturbed, SameNumbersAdvance DEF Undisturbed
<1>3. CASE SendTimeout(e, t)
  <2>1. Halves(e) /\ conn[e].sequence_no \in Int /\ conn[e].send_sequence_no \in Int
    BY <1>3, SendTimeoutHalves DEF TypeInv, TypeOK, ConnectionType
  <2> QED BY <1>1, <2>1, AdvancesFrom DEF Halves
<1>4. CASE AckTimeout(e, t)
  BY <1>1, <1>4, AckTimeoutFlow, SameNumbersAdvance
<1> QED BY <1>2, <1>3, <1>4 DEF Fires

LEMMA DataAdvances ==
  ASSUME TypeInv, NEW e \in Endpoint, NEW m \in net, ReceiveData(e, m)
  PROVE  Advances(e)
<1>1. /\ conn[e] \in ConnectionType /\ accepted[e] \in Nat
      /\ conn[e].sequence_no \in Int /\ conn[e].send_sequence_no \in Int
  BY DEF TypeInv, TypeOK, ConnectionType
<1>2. conn[e].valid /\ HandleData(e, m, conn[e], accepted[e], delivered[e])
  BY DEF ReceiveData, Arrival
<1>3. PICK k : Takes(e, conn[e], accepted[e], k)
  BY <1>1, <1>2, HandleDataTakes
<1>4. DeliversMore(e)
  <2> DEFINE r == delivered[e]
             c == conn[e]
             a == accepted[e]
  <2>1. c \in ConnectionType /\ HandleData(e, m, c, a, r)
    BY <1>1, <1>2
  <2> HIDE DEF r, c, a
  <2>2. \E s \in Seq(Nat) : delivered'[e] = r \o s
    BY <2>1, HandleDataDelivers
  <2> QED BY <2>2 DEF r, DeliversMore
<1>5. /\ conn'[e].sequence_no >= conn[e].sequence_no
      /\ conn'[e].send_sequence_no >= conn[e].send_sequence_no
  BY <1>1, <1>3 DEF Takes
<1> QED BY <1>4, <1>5, AdvancesFrom

LEMMA AckAdvances ==
  ASSUME TypeInv, NEW e \in Endpoint, NEW m \in net, ReceiveAck(e, m)
  PROVE  Advances(e)
<1> DEFINE c == take_ack(conn[e], m.seq)
<1>1. /\ conn[e] \in ConnectionType /\ delivered \in [Endpoint -> Seq(Nat)] /\ m.seq \in Int
      /\ conn[e].old_sequence_no <= conn[e].send_sequence_no
  BY DEF TypeInv, TypeOK, Datagram, SendStartsBeforeNext
<1>2. conn[e].sequence_no \in Int /\ conn[e].send_sequence_no \in Int
  BY <1>1 DEF ConnectionType
<1>3. /\ c \in ConnectionType /\ c.sequence_no = conn[e].sequence_no
      /\ \/ c.send_sequence_no = m.seq /\ m.seq >= conn[e].send_sequence_no
         \/ c.send_sequence_no = conn[e].send_sequence_no
  BY <1>1, TakeAckFields
<1>4. Sends(e, c, {}, {})
  BY AckSends
<1>5. delivered' = [delivered EXCEPT ![e] = delivered[e] \o passed_back(c)]
  BY DEF ReceiveAck
<1> HIDE DEF c
<1>6. DeliversMore(e)
  BY <1>1, <1>3, <1>5, PassedBackType DEF DeliversMore
<1>7. /\ conn'[e].sequence_no >= conn[e].sequence_no
      /\ conn'[e].send_sequence_no >= conn[e].send_sequence_no
  BY <1>2, <1>3, <1>4 DEF Sends
<1> QED BY <1>6, <1>7, AdvancesFrom

LEMMA AsyncSendAdvances ==
  ASSUME TypeInv, NEW e \in Endpoint, AsyncSend(e)
  PROVE  Advances(e)
<1>1. /\ conn[e] \in ConnectionType
      /\ conn[e].sequence_no \in Int /\ conn[e].send_sequence_no \in Int
  BY DEF TypeInv, TypeOK, ConnectionType
<1>2. PICK buff \in Seq(Nat) : Sends(e, set_send_handler(conn[e], buff), {}, {})
  BY AsyncSendSends
<1> DEFINE c == set_send_handler(conn[e], buff)
<1>3. /\ c.sequence_no = conn[e].sequence_no
      /\ c.send_sequence_no = conn[e].send_sequence_no
  BY <1>1, SetSendHandlerFields
<1>4. Sends(e, c, {}, {}) /\ delivered' = delivered
  BY <1>2 DEF AsyncSend
<1> HIDE DEF c
<1> QED BY <1>1, <1>3, <1>4, AdvancesFrom DEF Sends

\* A connection that was or becomes invalid has nothing to keep.
LEMMA InvalidAdvances ==
  ASSUME TypeInv, NEW e \in Endpoint,
         \/ HandleFin(e)
         \/ \E m \in net : \/ ReceiveSyn(e, m) \/ ReceiveSynAck(e, m)
                           \/ ReceiveFinalAck(e, m) \/ ReceiveFirstData(e, m)
  PROVE  Advances(e)
<1>1. CASE HandleFin(e)
  BY <1>1, HandleFinFlow DEF Advances
<1>2. CASE ~conn[e].valid
  BY <1>2 DEF Advances
<1> QED BY <1>1, <1>2 DEF ReceiveSyn, ReceiveSynAck, ReceiveFinalAck, ReceiveFirstData

LEMMA OthersAdvance ==
  ASSUME TypeInv, NEW e \in Endpoint, OnlyAt(e), NEW f \in Endpoint, f # e
  PROVE  Advances(f)
BY OthersCovered, SameNumbersAdvance DEF OnlyAt, Undisturbed

LEMMA AllAdvance ==
  ASSUME TypeInv, FreshInv, [Next]_vars, NEW f \in Endpoint
  PROVE  Advances(f)
<1>1. ASSUME NEW e \in Endpoint, OnlyAt(e), Advances(e)
      PROVE  Advances(f)
  BY <1>1, OthersAdvance
<1>2. CASE CreateConnection
  <2>1. Client \in Endpoint /\ delivered' = delivered
    BY <1>2 DEF CreateConnection, Endpoint, history
  <2>2. Advances(Client)
    BY <1>2, <2>1, CreateUndisturbed, SameNumbersAdvance DEF Undisturbed
  <2> QED BY <1>1, <1>2, <2>1, <2>2, CreateOnlyAt
<1>3. ASSUME NEW e \in Endpoint, Application(e) \/ HandleFin(e)
      PROVE  Advances(f)
  <2>1. Advances(e)
    BY <1>3, AsyncSendAdvances, QuietAdvances, InvalidAdvances DEF Application
  <2> QED BY <1>1, <1>3, <2>1, ApplicationOnlyAt, HandleFinOnlyAt
<1>4. ASSUME NEW e \in Endpoint, NEW t \in timers[e], Fires(e, t)
      PROVE  Advances(f)
  BY <1>1, <1>4, TimersAdvance, TimerOnlyAt
<1>5. ASSUME NEW m \in net, Receive(m.dst, m)
      PROVE  Advances(f)
  <2>1. m.dst \in Endpoint
    BY DEF TypeInv, TypeOK, Datagram
  <2>2. Advances(m.dst)
    BY <1>5, <2>1, InvalidAdvances, DataAdvances, AckAdvances, QuietAdvances DEF Receive
  <2> QED BY <1>1, <1>5, <2>1, <2>2, ReceiveOnlyAt
<1>6. CASE UNCHANGED vars \/ \E m \in net : Lose(m)
  <2>1. conn' = conn /\ delivered' = delivered
    BY <1>6 DEF Lose, vars, history
  <2> QED BY <2>1, SameConnFlow, SameNumbersAdvance
<1> QED BY <1>2, <1>3, <1>4, <1>5, <1>6 DEF Next

\* Nothing a valid connection has achieved is undone by a late, repeated or
\* reordered datagram: this holds in every life of the connections.
THEOREM Progress == Spec => ProgressIsKept
<1>1. IInv /\ [Next]_vars =>
        [\A e \in Endpoint :
           conn[e].valid /\ conn'[e].valid =>
             /\ conn'[e].sequence_no >= conn[e].sequence_no
             /\ conn'[e].send_sequence_no >= conn[e].send_sequence_no
             /\ Len(delivered'[e]) >= Len(delivered[e])
             /\ SubSeq(delivered'[e], 1, Len(delivered[e])) = delivered[e]]_vars
  BY AllAdvance DEF IInv, TypeInv, Advances
<1> QED BY <1>1, StreamInvariant, PTL DEF Spec, ProgressIsKept

-----------------------------------------------------------------------------
(* Outstanding sends *)

LEMMA PackageNotEmpty ==
  ASSUME NEW c \in ConnectionType, c.write_index < Len(c.write_buff), c.congestion_window >= 1
  PROVE  package_message(c) # <<>>
<1> DEFINE i == c.write_index
           k == c.congestion_window * MSS
           len == Len(c.write_buff)
           top == IF i + k < len THEN i + k ELSE len
<1>1. /\ i \in Nat /\ c.write_buff \in Seq(Nat) /\ len \in Nat /\ i < len
      /\ c.congestion_window \in Nat /\ MSS \in Nat \ {0}
  BY SegmentAssumption, LenProperties DEF ConnectionType
<1>2. k \in Nat /\ k >= 1
  <2>1. 1 * MSS <= k
    BY <1>1, TimesMonotone
  <2> QED BY <1>1, <2>1
<1>3. package_message(c) = SubSeq(c.write_buff, i + 1, top)
  BY DEF package_message
<1> HIDE DEF k, i, len
<1>4. top \in Nat /\ i + 1 <= top
  BY <1>1, <1>2
<1> HIDE DEF top
<1>5. Len(SubSeq(c.write_buff, i + 1, top)) = top - (i + 1) + 1
  BY <1>1, <1>4
<1>6. Len(package_message(c)) >= 1
  BY <1>1, <1>3, <1>4, <1>5
<1> QED BY <1>6, EmptySeq

\* write_index stands at the first byte that is not acknowledged.
Aligned(c) == sending(c) => c.write_index = c.send_sequence_no - c.old_sequence_no

AlignedInv == \A e \in Endpoint : Aligned(conn[e])

\* A connection with unacknowledged bytes finds some of them to send.
Packs(c) ==
  (/\ c.valid /\ c.valid_send_handler /\ c.remote_window_size >= MSS
   /\ c.send_sequence_no < Len(c.write_buff) + c.old_sequence_no)
  => c.write_index < Len(c.write_buff) /\ c.congestion_window >= 1

\* send() arms a timer unless it finds nothing to send.
LEMMA SendsSendCovered ==
  ASSUME TypeInv, NEW e \in Endpoint, NEW c, NEW x, NEW y, Sends(e, c, x, y), Packs(c)
  PROVE  SendCovered(e)'
<1> SUFFICES ASSUME sending(conn'[e]), conn'[e].remote_window_size >= MSS
             PROVE  \E t \in timers'[e] : t.kind = "send" /\ t.next >= conn'[e].send_sequence_no
  BY DEF SendCovered
<1>1. c \in ConnectionType /\ c.valid /\ c.valid_send_handler /\ c.remote_window_size >= MSS
      /\ c.send_sequence_no < Len(c.write_buff) + c.old_sequence_no
      /\ conn'[e].send_sequence_no = c.send_sequence_no
  BY DEF Sends, sending
<1>2. package_message(c) # <<>>
  BY <1>1, PackageNotEmpty DEF Packs
<1>3. Arm("send", c.send_sequence_no) \in armed_by(c)
  BY <1>1, <1>2 DEF armed_by, sending
<1>4. /\ timers' = [timers EXCEPT ![e] = timers[e] \cup y \cup armed_by(c)]
      /\ timers \in [Endpoint -> SUBSET Timer]
  BY DEF Sends, TypeInv, TypeOK
<1> DEFINE a == Arm("send", c.send_sequence_no)
<1>5. a \in timers'[e] /\ a.kind = "send" /\ a.next = c.send_sequence_no
  BY <1>3, <1>4 DEF Arm
<1> HIDE DEF a
<1>6. c.send_sequence_no \in Int
  BY <1>1 DEF ConnectionType
<1> QED BY <1>1, <1>5, <1>6

LEMMA AsyncSendSendCovered ==
  ASSUME TypeInv, NEW e \in Endpoint, WindowOpen(e), AsyncSend(e)
  PROVE  SendCovered(e)' /\ WindowOpen(e)'
<1>1. conn[e] \in ConnectionType /\ ~conn[e].valid_send_handler
  BY DEF TypeInv, TypeOK, AsyncSend
<1>2. PICK buff \in Seq(Nat) : Sends(e, set_send_handler(conn[e], buff), {}, {})
  BY AsyncSendSends
<1> DEFINE c == set_send_handler(conn[e], buff)
<1>3. /\ c \in ConnectionType /\ c.valid = conn[e].valid
      /\ c.remote_window_size = conn[e].remote_window_size
      /\ c.congestion_window = conn[e].congestion_window
      /\ c.send_sequence_no = conn[e].send_sequence_no
      /\ conn[e].valid => c.write_index = 0 /\ c.old_sequence_no = conn[e].send_sequence_no
  BY <1>1, SetSendHandlerFields
<1>4. Sends(e, c, {}, {})
  BY <1>2
<1> HIDE DEF c
<1>5. c.send_sequence_no \in Int /\ Len(c.write_buff) \in Nat
  BY <1>3, LenProperties DEF ConnectionType
<1>6. timers[e] \subseteq timers'[e]
  BY <1>4 DEF Sends, TypeInv, TypeOK
<1>7. ASSUME c.congestion_window >= 1
      PROVE  SendCovered(e)'
  <2>1. c.valid => c.write_index = 0 /\ c.old_sequence_no = c.send_sequence_no
    BY <1>3
  <2>2. Packs(c)
    BY <1>5, <1>7, <2>1 DEF Packs
  <2> QED BY <1>4, <2>2, SendsSendCovered
<1>8. ASSUME ~(c.congestion_window >= 1)
      PROVE  SendCovered(e)'
  BY <1>3, <1>4, <1>6, <1>8 DEF Sends, SendCovered, WindowOpen, sending
<1>9. WindowOpen(e)'
  BY <1>3, <1>4, <1>6 DEF Sends, WindowOpen
<1> QED BY <1>7, <1>8, <1>9

\* The record of a connection that a handshake segment has just established.
LEMMA EstablishedSendCovered ==
  ASSUME TypeInv, NEW e \in Endpoint, NEW c, NEW x, NEW y, Sends(e, c, x, y),
         c.write_index = 0, c.old_sequence_no = c.send_sequence_no, c.congestion_window = 1
  PROVE  SendCovered(e)' /\ WindowOpen(e)'
<1>1. c \in ConnectionType /\ c.send_sequence_no \in Int /\ Len(c.write_buff) \in Nat
  BY LenProperties DEF Sends, ConnectionType
<1>2. Packs(c)
  BY <1>1 DEF Packs
<1>3. SendCovered(e)'
  BY <1>2, SendsSendCovered
<1>4. WindowOpen(e)'
  BY DEF Sends, WindowOpen
<1> QED BY <1>3, <1>4

LEMMA SynAckSendCovered ==
  ASSUME TypeInv, FlowInv, NEW e \in Endpoint, NEW m \in net, ReceiveSynAck(e, m)
  PROVE  SendCovered(e)' /\ WindowOpen(e)'
<1> DEFINE b == [conn[e] EXCEPT !.remote_window_size = m.window]
           c == establish(b, m.seq + 1)
<1>1. /\ conn[e] \in ConnectionType /\ conn[e].congestion_window = 1
      /\ m.seq \in Int /\ m.window \in Int
  BY DEF TypeInv, TypeOK, Datagram, FlowInv, RecordFlow, ReceiveSynAck
<1>2. b \in ConnectionType /\ b.congestion_window = 1
      /\ b.send_sequence_no = conn[e].send_sequence_no
  <2>1. b \in ConnectionType
    BY <1>1, FieldUpdate
  <2> QED BY <1>1, <2>1 DEF ConnectionType
<1> HIDE DEF b
<1>3. c.write_index = 0 /\ c.old_sequence_no = c.send_sequence_no
  <2>1. b \in ConnectionType /\ m.seq + 1 \in Int
    BY <1>1, <1>2
  <2> DEFINE d == c
  <2>2. d = establish(b, m.seq + 1)
    OBVIOUS
  <2> HIDE DEF d
  <2>3. d.write_index = 0 /\ d.old_sequence_no = d.send_sequence_no
    BY <2>1, <2>2, EstablishFields
  <2> QED BY <2>3 DEF d
<1>4. c.congestion_window = 1
  BY <1>1, <1>2, CongestionFields
<1>5. Sends(e, c, {Ack(e, 0)}, {Arm("finalack", 0)})
  BY SynAckSends DEF b
<1> HIDE DEF c
<1> QED BY <1>3, <1>4, <1>5, EstablishedSendCovered

LEMMA FinalAckSendCovered ==
  ASSUME TypeInv, FlowInv, NEW e \in Endpoint, NEW m \in net, ReceiveFinalAck(e, m)
  PROVE  SendCovered(e)' /\ WindowOpen(e)'
<1> DEFINE c == establish(conn[e], m.seq)
<1>1. conn[e] \in ConnectionType /\ conn[e].congestion_window = 1 /\ m.seq \in Int
  BY DEF TypeInv, TypeOK, Datagram, FlowInv, RecordFlow, ReceiveFinalAck
<1>2. c.write_index = 0 /\ c.old_sequence_no = c.send_sequence_no
  BY <1>1, EstablishFields
<1>3. c.congestion_window = 1
  BY <1>1, CongestionFields
<1>4. Sends(e, c, {}, {})
  BY FinalAckSends
<1> HIDE DEF c
<1> QED BY <1>2, <1>3, <1>4, EstablishedSendCovered

\* An acknowledgement of a part of the buffer leaves write_index inside it, and
\* inc_congestion opens a window that timeouts have closed.
LEMMA AckSendCovered ==
  ASSUME TypeInv, NEW e \in Endpoint, Aligned(conn[e]), NEW m \in net, ReceiveAck(e, m)
  PROVE  SendCovered(e)' /\ WindowOpen(e)'
<1> DEFINE c == take_ack(conn[e], m.seq)
<1>1. /\ conn[e] \in ConnectionType /\ conn[e].valid /\ m.seq \in Int
      /\ conn[e].old_sequence_no <= conn[e].send_sequence_no
  BY DEF TypeInv, TypeOK, Datagram, SendStartsBeforeNext, ReceiveAck, Arrival
<1>2. conn[e].valid_send_handler =>
        conn[e].write_index = conn[e].send_sequence_no - conn[e].old_sequence_no
  BY <1>1 DEF Aligned, sending
<1>3. /\ c \in ConnectionType /\ c.valid_send_handler = conn[e].valid_send_handler
      /\ c.remote_window_size = conn[e].remote_window_size
      /\ c.old_sequence_no = conn[e].old_sequence_no
      /\ \/ /\ c.send_sequence_no = m.seq
            /\ c.write_index = m.seq - conn[e].old_sequence_no
         \/ /\ c.send_sequence_no = conn[e].send_sequence_no
            /\ c.write_index = conn[e].write_index
  BY <1>1, TakeAckFields
<1>4. c.remote_window_size >= MSS => c.congestion_window >= 1
  <2> DEFINE d == c
  <2>1. d = take_ack(conn[e], m.seq) /\ d.remote_window_size = conn[e].remote_window_size
    BY <1>3
  <2> HIDE DEF d
  <2>2. conn[e].remote_window_size >= MSS => d.congestion_window >= 1
    BY <1>1, <2>1, TakeAckWindow
  <2>3. d.remote_window_size >= MSS => d.congestion_window >= 1
    BY <2>1, <2>2
  <2> QED BY <2>3 DEF d
<1>5. Sends(e, c, {}, {})
  BY AckSends
<1> HIDE DEF c
<1>6. c.send_sequence_no \in Int /\ c.old_sequence_no \in Int /\ Len(c.write_buff) \in Nat
  BY <1>3, LenProperties DEF ConnectionType
<1>7. Packs(c)
  <2> SUFFICES ASSUME c.valid_send_handler, c.remote_window_size >= MSS,
                      c.send_sequence_no < Len(c.write_buff) + c.old_sequence_no
               PROVE  c.write_index < Len(c.write_buff) /\ c.congestion_window >= 1
    BY DEF Packs
  <2>1. c.write_index = c.send_sequence_no - c.old_sequence_no
    BY <1>2, <1>3
  <2> QED BY <1>4, <1>6, <2>1
<1>8. SendCovered(e)'
  BY <1>5, <1>7, SendsSendCovered
<1>9. WindowOpen(e)'
  BY <1>4, <1>5 DEF Sends, WindowOpen
<1> QED BY <1>8, <1>9

\* A segment's timer that closes the congestion window stays armed.
LEMMA SendTimeoutSendCovered ==
  ASSUME TypeInv, NEW e \in Endpoint, NEW t \in timers[e], SendTimeout(e, t)
  PROVE  SendCovered(e)' /\ WindowOpen(e)'
<1>1. Halves(e)
  BY SendTimeoutHalves
<1>2. /\ conn[e].send_sequence_no <= t.next /\ t.kind = "send"
      /\ conn[e].send_sequence_no \in Int /\ t.next \in Int
  BY DEF SendTimeout, segment_waits, TypeInv, TypeOK, ConnectionType, Timer
<1>3. /\ timers'[e] = timers[e] /\ t.next >= conn'[e].send_sequence_no
      /\ conn'[e].send_sequence_no = conn[e].send_sequence_no
  BY <1>1, <1>2 DEF Halves
<1>4. \E u \in timers'[e] : u.kind = "send" /\ u.next >= conn'[e].send_sequence_no
  BY <1>2, <1>3
<1> QED BY <1>4 DEF SendCovered, WindowOpen

LEMMA AckTimeoutSendCovered ==
  ASSUME TypeInv, NEW e \in Endpoint, NEW t \in timers[e], AckTimeout(e, t)
  PROVE  (SendCovered(e) => SendCovered(e)') /\ (WindowOpen(e) => WindowOpen(e)')
<1>1. SameFlow(e) /\ t.kind = "ack"
  BY AckTimeoutFlow DEF AckTimeout
<1>2. /\ timers' = [timers EXCEPT ![e] = (timers[e] \ {t}) \cup {Arm("ack", conn[e].sequence_no)}]
      /\ timers \in [Endpoint -> SUBSET Timer]
  BY DEF AckTimeout, TypeInv, TypeOK
<1>3. \A u \in timers[e] : u # t => u \in timers'[e]
  BY <1>2
<1> QED BY <1>1, <1>3 DEF SameFlow, SendCovered, WindowOpen, sending

LEMMA InvalidSendCovered ==
  ASSUME TypeInv, NEW e \in Endpoint, HandleFin(e) \/ \E m \in net : ReceiveSyn(e, m)
  PROVE  SendCovered(e)' /\ WindowOpen(e)'
BY HandleFinFlow, SynFlow DEF SendCovered, WindowOpen, sending

LEMMA DataSendCovered ==
  ASSUME TypeInv, NEW e \in Endpoint, NEW m \in net, ReceiveData(e, m)
  PROVE  (SendCovered(e) => SendCovered(e)') /\ (WindowOpen(e) => WindowOpen(e)')
<1>1. conn[e] \in ConnectionType /\ accepted[e] \in Nat
      /\ timers \in [Endpoint -> SUBSET Timer]
  BY DEF TypeInv, TypeOK
<1>2. conn[e].valid /\ HandleData(e, m, conn[e], accepted[e], delivered[e])
  BY DEF ReceiveData, Arrival
<1>3. PICK k : Takes(e, conn[e], accepted[e], k)
  BY <1>1, <1>2, HandleDataTakes
<1>4. timers[e] \subseteq timers'[e]
  BY <1>1, <1>3 DEF Takes
<1> QED BY <1>3, <1>4 DEF Takes, SendCovered, WindowOpen, sending

\* The first data makes the connection valid with its window still open.
LEMMA FirstDataWindow ==
  ASSUME TypeInv, FlowInv, NEW e \in Endpoint, NEW m \in net, ReceiveFirstData(e, m)
  PROVE  WindowOpen(e)'
<1> DEFINE c == establish(conn[e], m.seq)
<1>1. /\ conn[e] \in ConnectionType /\ m.seq \in Int /\ conn[e].congestion_window = 1
      /\ HandleData(e, m, c, 0, <<>>)
  BY DEF ReceiveFirstData, TypeInv, TypeOK, Datagram, FlowInv, RecordFlow
<1>2. c \in ConnectionType /\ c.congestion_window = 1
  BY <1>1, EstablishFields, CongestionFields
<1> HIDE DEF c
<1>3. PICK k : Takes(e, c, 0, k)
  BY <1>1, <1>2, HandleDataTakes
<1> QED BY <1>2, <1>3 DEF Takes, WindowOpen

-----------------------------------------------------------------------------
(* write_index                                                               *)

LEMMA AlignedUpdate ==
  ASSUME TypeInv, AlignedInv, NEW e \in Endpoint, NEW d, Aligned(d),
         conn' = conn \/ conn' = [conn EXCEPT ![e] = d]
  PROVE  AlignedInv'
<1>1. conn \in [Endpoint -> ConnectionType]
  BY DEF TypeInv, TypeOK
<1>2. ASSUME NEW f \in Endpoint PROVE Aligned(conn'[f])
  <2>1. CASE conn'[f] = conn[f]
    BY <2>1 DEF AlignedInv
  <2>2. CASE conn'[f] = d
    BY <2>2
  <2> QED BY <1>1, <2>1, <2>2
<1> QED BY <1>2 DEF AlignedInv

LEMMA AfterSendAligned ==
  ASSUME NEW c \in ConnectionType, Aligned(c)
  PROVE  after_send(c) \in ConnectionType /\ Aligned(after_send(c))
BY AfterSendFields DEF Aligned, sending

LEMMA ReceiveHandlerAligned ==
  ASSUME NEW c \in ConnectionType, Aligned(c)
  PROVE  Aligned(call_rcv_handler(c))
BY ReceiveHandlerFields DEF Aligned, sending

\* Each method that moves one of the three numbers puts them in line.
LEMMA MethodsAlign ==
  ASSUME NEW c \in ConnectionType
  PROVE  /\ \A n \in Int : establish(c, n) \in ConnectionType /\ Aligned(establish(c, n))
         /\ \A buff \in Seq(Nat) : /\ set_send_handler(c, buff) \in ConnectionType
                                   /\ Aligned(set_send_handler(c, buff))
         /\ Aligned(reset(c))
<1>1. ASSUME NEW n \in Int
      PROVE  establish(c, n) \in ConnectionType /\ Aligned(establish(c, n))
  <2> DEFINE d == establish(c, n)
  <2>1. d \in ConnectionType /\ d.write_index = 0 /\ d.old_sequence_no = d.send_sequence_no
    BY EstablishFields
  <2> HIDE DEF d
  <2>2. d.send_sequence_no \in Int
    BY <2>1 DEF ConnectionType
  <2>3. d \in ConnectionType /\ Aligned(d)
    BY <2>1, <2>2 DEF Aligned
  <2> QED BY <2>3 DEF d
<1>2. ASSUME NEW buff \in Seq(Nat)
      PROVE  set_send_handler(c, buff) \in ConnectionType /\ Aligned(set_send_handler(c, buff))
  <2> DEFINE d == set_send_handler(c, buff)
  <2>1. /\ d \in ConnectionType /\ d.valid = c.valid
        /\ d.send_sequence_no = c.send_sequence_no
        /\ c.valid => d.write_index = 0 /\ d.old_sequence_no = c.send_sequence_no
    BY SetSendHandlerFields
  <2> HIDE DEF d
  <2>2. c.send_sequence_no \in Int
    BY DEF ConnectionType
  <2>3. d \in ConnectionType /\ Aligned(d)
    BY <2>1, <2>2 DEF Aligned, sending
  <2> QED BY <2>3 DEF d
<1>3. Aligned(reset(c))
  BY ResetFields DEF Aligned, sending
<1> QED BY <1>1, <1>2, <1>3

LEMMA TimeoutAligned ==
  ASSUME NEW c \in ConnectionType, Aligned(c)
  PROVE  /\ Aligned(inc_timeout(c))
         /\ halve_congestion(c) \in ConnectionType /\ Aligned(halve_congestion(c))
BY TimeoutFields DEF Aligned, sending

LEMMA DataAligned ==
  ASSUME TypeInv, AlignedInv, NEW e \in Endpoint, NEW m \in net, NEW c \in ConnectionType,
         Aligned(c), NEW taken, NEW received, HandleData(e, m, c, taken, received)
  PROVE  AlignedInv'
<1>1. m.data \in Seq(Nat) /\ Len(m.data) \in Nat
  <2>1. m.data \in Seq(Nat)
    BY DEF TypeInv, TypeOK, Datagram
  <2> QED BY <2>1, LenProperties
<1>2. CASE m.seq # c.sequence_no
  <2>1. conn' = [conn EXCEPT ![e] = call_rcv_handler(c)]
    BY <1>2 DEF HandleData
  <2> QED BY <2>1, ReceiveHandlerAligned, AlignedUpdate
<1>3. CASE m.seq = c.sequence_no
  <2>1. PICK k \in accepted_lengths(Len(m.data)) :
          conn' = [conn EXCEPT ![e] =
            call_rcv_handler(IF k > 0 THEN take_data(c, SubSeq(m.data, 1, k)) ELSE c)]
    BY <1>3 DEF HandleData
  <2> DEFINE s == SubSeq(m.data, 1, k)
             b == take_data(c, s)
             a == IF k > 0 THEN b ELSE c
  <2>2. k \in 0..Len(m.data)
    BY <1>1, AcceptedLengths
  <2>3. s \in Seq(Nat)
    <3>1. \A i \in 1..k : m.data[i] \in Nat
      BY <1>1, <2>2
    <3> QED BY <2>2, <3>1, SubSeqProperties
  <2>4. conn' = [conn EXCEPT ![e] = call_rcv_handler(a)]
    BY <2>1
  <2> HIDE DEF s
  <2>5. b \in ConnectionType /\ Aligned(b)
    BY <2>3, TakeDataFields DEF Aligned, sending
  <2> HIDE DEF b
  <2>6. a \in ConnectionType /\ Aligned(a)
    BY <2>5
  <2> HIDE DEF a
  <2> QED BY <2>4, <2>6, ReceiveHandlerAligned, AlignedUpdate
<1> QED BY <1>2, <1>3

LEMMA AckAligned ==
  ASSUME TypeInv, AlignedInv, NEW e \in Endpoint, NEW m \in net, ReceiveAck(e, m)
  PROVE  AlignedInv'
<1> DEFINE c == take_ack(conn[e], m.seq)
<1>1. /\ conn[e] \in ConnectionType /\ m.seq \in Int /\ Aligned(conn[e])
      /\ conn[e].old_sequence_no <= conn[e].send_sequence_no
  BY DEF TypeInv, TypeOK, Datagram, SendStartsBeforeNext, AlignedInv
<1>2. c \in ConnectionType /\ Aligned(c)
  BY <1>1, TakeAckFields DEF Aligned, sending
<1>3. conn' = [conn EXCEPT ![e] = call_rcv_handler(after_send(c))]
  BY DEF ReceiveAck
<1> HIDE DEF c
<1> QED BY <1>2, <1>3, AfterSendAligned, ReceiveHandlerAligned, AlignedUpdate

LEMMA ApplicationAligned ==
  ASSUME TypeInv, AlignedInv, NEW e \in Endpoint, Application(e) \/ HandleFin(e)
  PROVE  AlignedInv'
<1>1. conn[e] \in ConnectionType /\ Aligned(conn[e])
  BY DEF TypeInv, TypeOK, AlignedInv
<1>2. CASE AsyncSend(e)
  <2>1. PICK n \in MessageSizes :
          conn' = [conn EXCEPT ![e] = after_send(set_send_handler(conn[e], Run(written[e], n)))]
    BY <1>2 DEF AsyncSend
  <2>2. Run(written[e], n) \in Seq(Nat)
    BY BoundAssumption, RunIsSeq DEF TypeInv, TypeOK
  <2> DEFINE c == set_send_handler(conn[e], Run(written[e], n))
  <2>3. c \in ConnectionType /\ Aligned(c) /\ conn' = [conn EXCEPT ![e] = after_send(c)]
    BY <1>1, <2>1, <2>2, MethodsAlign
  <2> HIDE DEF c
  <2> QED BY <2>3, AfterSendAligned, AlignedUpdate
<1>3. CASE AsyncRcv(e)
  <2> DEFINE c == set_rcv_handler(conn[e])
  <2>1. c \in ConnectionType /\ Aligned(c)
    BY <1>1, SetRcvHandlerFields DEF Aligned, sending
  <2>2. conn' = [conn EXCEPT ![e] = IF c.rcv_window # <<>> THEN call_rcv_handler(c) ELSE c]
    BY <1>3 DEF AsyncRcv
  <2> HIDE DEF c
  <2> QED BY <2>1, <2>2, ReceiveHandlerAligned, AlignedUpdate
<1>4. CASE CloseConnection(e) \/ CloseSocket(e)
  BY <1>1, <1>4, AlignedUpdate DEF CloseConnection, CloseSocket
<1>5. CASE HandleFin(e)
  <2>1. conn' = [conn EXCEPT ![e] = reset(conn[e])]
    BY <1>5 DEF HandleFin
  <2> QED BY <1>1, <2>1, MethodsAlign, AlignedUpdate
<1> QED BY <1>2, <1>3, <1>4, <1>5 DEF Application

LEMMA TimerAligned ==
  ASSUME TypeInv, AlignedInv, NEW e \in Endpoint, NEW t \in timers[e], Fires(e, t)
  PROVE  AlignedInv'
<1>1. conn[e] \in ConnectionType /\ Aligned(conn[e])
  BY DEF TypeInv, TypeOK, AlignedInv
<1>2. CASE SendTimeout(e, t)
  <2> DEFINE c == halve_congestion(conn[e])
  <2>1. c \in ConnectionType /\ Aligned(c) /\ conn' = [conn EXCEPT ![e] = inc_timeout(c)]
    BY <1>1, <1>2, TimeoutAligned DEF SendTimeout
  <2> HIDE DEF c
  <2> QED BY <2>1, TimeoutAligned, AlignedUpdate
<1>3. CASE AckTimeout(e, t)
  <2>1. conn' = [conn EXCEPT ![e] = inc_timeout(conn[e])]
    BY <1>3 DEF AckTimeout
  <2> QED BY <1>1, <2>1, TimeoutAligned, AlignedUpdate
<1>4. CASE ConnectionTimeout(e, t) \/ TimerDropped(e, t)
  BY <1>1, <1>4, AlignedUpdate DEF ConnectionTimeout, TimerDropped
<1> QED BY <1>2, <1>3, <1>4 DEF Fires

LEMMA ReceiveAligned ==
  ASSUME TypeInv, AlignedInv, NEW e \in Endpoint, NEW m \in net, Receive(e, m)
  PROVE  AlignedInv'
<1>1. /\ conn[e] \in ConnectionType /\ Aligned(conn[e]) /\ m.seq \in Int /\ m.window \in Int
  BY DEF TypeInv, TypeOK, AlignedInv, Datagram
<1>2. CASE ReceiveSyn(e, m)
  <2> DEFINE d == [conn[e] EXCEPT !.sequence_no = m.seq + 1, !.remote_window_size = m.window]
  <2>1. conn' = [conn EXCEPT ![e] = d] /\ ~d.valid
    BY <1>1, <1>2 DEF ReceiveSyn, ConnectionType
  <2> HIDE DEF d
  <2> QED BY <2>1, AlignedUpdate DEF Aligned, sending
<1>3. CASE ReceiveSynAck(e, m)
  <2> DEFINE b == [conn[e] EXCEPT !.remote_window_size = m.window]
             c == establish(b, m.seq + 1)
  <2>1. b \in ConnectionType
    BY <1>1, FieldUpdate
  <2>2. conn' = [conn EXCEPT ![e] = after_send(c)]
    BY <1>3 DEF ReceiveSynAck
  <2> HIDE DEF b
  <2>3. c \in ConnectionType /\ Aligned(c)
    BY <1>1, <2>1, MethodsAlign
  <2> HIDE DEF c
  <2> QED BY <2>2, <2>3, AfterSendAligned, AlignedUpdate
<1>4. CASE ReceiveFinalAck(e, m)
  <2> DEFINE c == establish(conn[e], m.seq)
  <2>1. c \in ConnectionType /\ Aligned(c) /\ conn' = [conn EXCEPT ![e] = after_send(c)]
    BY <1>1, <1>4, MethodsAlign DEF ReceiveFinalAck
  <2> HIDE DEF c
  <2> QED BY <2>1, AfterSendAligned, AlignedUpdate
<1>5. CASE ReceiveFirstData(e, m)
  <2>1. HandleData(e, m, establish(conn[e], m.seq), 0, <<>>)
    BY <1>5 DEF ReceiveFirstData
  <2> QED BY <1>1, <2>1, MethodsAlign, DataAligned
<1>6. CASE IgnoreWhileInvalid(e, m)
  BY <1>1, <1>6, AlignedUpdate DEF IgnoreWhileInvalid
<1>7. CASE ReceiveData(e, m)
  <2>1. HandleData(e, m, conn[e], accepted[e], delivered[e])
    BY <1>7 DEF ReceiveData
  <2> QED BY <1>1, <2>1, DataAligned
<1>8. CASE ReceiveAck(e, m)
  BY <1>8, AckAligned
<1>9. CASE ReceiveFin(e, m) \/ ReceiveLateSyn(e, m)
  <2>1. conn' = [conn EXCEPT ![e] = call_rcv_handler(conn[e])]
    BY <1>9 DEF ReceiveFin, ReceiveLateSyn
  <2> QED BY <1>1, <2>1, ReceiveHandlerAligned, AlignedUpdate
<1> QED BY <1>2, <1>3, <1>4, <1>5, <1>6, <1>7, <1>8, <1>9 DEF Receive

LEMMA AlignedStep ==
  ASSUME TypeInv, FreshInv, AlignedInv, [Next]_vars
  PROVE  AlignedInv'
<1>1. CASE CreateConnection \/ UNCHANGED vars \/ \E m \in net : Lose(m)
  <2>1. conn' = conn
    BY <1>1, CreateFlow DEF vars, Lose
  <2> QED BY <2>1 DEF AlignedInv
<1>2. ASSUME NEW m \in net, Receive(m.dst, m)
      PROVE  AlignedInv'
  <2>1. m.dst \in Endpoint
    BY DEF TypeInv, TypeOK, Datagram
  <2> QED BY <1>2, <2>1, ReceiveAligned
<1> QED BY <1>1, <1>2, ApplicationAligned, TimerAligned DEF Next

-----------------------------------------------------------------------------
(* GuardIsKept                                                               *)

WindowInv == AlignedInv /\ \A f \in Endpoint : WindowOpen(f)

\* A step keeps the congestion window of f open or guarded, and unless it is
\* the arrival of the first data, an outstanding send guarded.
Kept(f) ==
  /\ WindowOpen(f)'
  /\ SendCovered(f) => SendCovered(f)' \/ \E m \in net : ReceiveFirstData(f, m)

LEMMA UndisturbedKept ==
  ASSUME TypeInv, WindowInv, NEW e \in Endpoint, Undisturbed(e)
  PROVE  Kept(e)
BY UndisturbedCovered DEF WindowInv, Kept

LEMMA ApplicationKept ==
  ASSUME TypeInv, WindowInv, NEW e \in Endpoint, Application(e) \/ HandleFin(e)
  PROVE  Kept(e)
<1>1. CASE AsyncSend(e)
  BY <1>1, AsyncSendSendCovered DEF WindowInv, Kept
<1>2. CASE AsyncRcv(e) \/ CloseConnection(e) \/ CloseSocket(e)
  BY <1>2, QuietUndisturbed, UndisturbedKept
<1>3. CASE HandleFin(e)
  BY <1>3, InvalidSendCovered DEF Kept
<1> QED BY <1>1, <1>2, <1>3 DEF Application

LEMMA TimerKept ==
  ASSUME TypeInv, WindowInv, NEW e \in Endpoint, NEW t \in timers[e], Fires(e, t)
  PROVE  Kept(e)
<1>1. CASE ConnectionTimeout(e, t) \/ TimerDropped(e, t)
  BY <1>1, TimerUndisturbed, UndisturbedKept
<1>2. CASE SendTimeout(e, t)
  BY <1>2, SendTimeoutSendCovered DEF Kept
<1>3. CASE AckTimeout(e, t)
  BY <1>3, AckTimeoutSendCovered DEF WindowInv, Kept
<1> QED BY <1>1, <1>2, <1>3 DEF Fires

LEMMA ReceiveKept ==
  ASSUME TypeInv, FlowInv, WindowInv, NEW e \in Endpoint, NEW m \in net, Receive(e, m)
  PROVE  Kept(e)
<1>1. CASE ReceiveSyn(e, m)
  BY <1>1, InvalidSendCovered DEF Kept
<1>2. CASE ReceiveSynAck(e, m) \/ ReceiveFinalAck(e, m) \/ ReceiveAck(e, m)
  BY <1>2, SynAckSendCovered, FinalAckSendCovered, AckSendCovered
     DEF WindowInv, AlignedInv, Kept
<1>3. CASE ReceiveFirstData(e, m)
  BY <1>3, FirstDataWindow DEF Kept
<1>4. CASE ReceiveData(e, m)
  BY <1>4, DataSendCovered DEF WindowInv, Kept
<1>5. CASE IgnoreWhileInvalid(e, m) \/ ReceiveFin(e, m) \/ ReceiveLateSyn(e, m)
  BY <1>5, QuietUndisturbed, UndisturbedKept
<1> QED BY <1>1, <1>2, <1>3, <1>4, <1>5 DEF Receive

LEMMA AllKept ==
  ASSUME TypeInv, FreshInv, FlowInv, WindowInv, [Next]_vars
  PROVE  \A f \in Endpoint : Kept(f)
<1>1. ASSUME NEW e \in Endpoint, OnlyAt(e), Kept(e)
      PROVE  \A f \in Endpoint : Kept(f)
  BY <1>1, OthersCovered, UndisturbedKept
<1>2. CASE CreateConnection
  <2>1. Client \in Endpoint
    BY DEF Endpoint
  <2> QED BY <1>1, <1>2, <2>1, CreateOnlyAt, CreateUndisturbed, UndisturbedKept
<1>3. ASSUME NEW e \in Endpoint, Application(e) \/ HandleFin(e)
      PROVE  \A f \in Endpoint : Kept(f)
  BY <1>1, <1>3, ApplicationOnlyAt, HandleFinOnlyAt, ApplicationKept
<1>4. ASSUME NEW e \in Endpoint, NEW t \in timers[e], Fires(e, t)
      PROVE  \A f \in Endpoint : Kept(f)
  BY <1>1, <1>4, TimerOnlyAt, TimerKept
<1>5. ASSUME NEW m \in net, Receive(m.dst, m)
      PROVE  \A f \in Endpoint : Kept(f)
  <2>1. PICK e \in Endpoint : Receive(e, m)
    BY <1>5 DEF TypeInv, TypeOK, Datagram
  <2> QED BY <1>1, <2>1, ReceiveOnlyAt, ReceiveKept
<1>6. CASE UNCHANGED vars \/ \E m \in net : Lose(m)
  <2>1. conn' = conn /\ timers' = timers
    BY <1>6 DEF Lose, vars, history
  <2> QED BY <2>1 DEF WindowInv, Kept, SendCovered, WindowOpen
<1> QED BY <1>2, <1>3, <1>4, <1>5, <1>6 DEF Next

LEMMA WindowInit == Init => WindowInv
BY DEF Init, WindowInv, AlignedInv, Aligned, WindowOpen, sending, NewConnection

LEMMA WindowHolds == Spec => []WindowInv
<1>1. IInv /\ FlowInv /\ WindowInv /\ [Next]_vars => WindowInv'
  <2> SUFFICES ASSUME IInv, FlowInv, WindowInv, [Next]_vars PROVE WindowInv'
    OBVIOUS
  <2>1. TypeInv /\ FreshInv
    BY DEF IInv, TypeInv
  <2>2. AlignedInv'
    BY <2>1, AlignedStep DEF WindowInv
  <2>3. \A f \in Endpoint : WindowOpen(f)'
    BY <2>1, AllKept DEF Kept
  <2> QED BY <2>2, <2>3 DEF WindowInv
<1> QED BY <1>1, WindowInit, StreamInvariant, FlowHolds, PTL DEF Spec

\* In every life of the connections, a step leaves a send without a timer that
\* repeats it only where connection_establishment takes the first data.
THEOREM GuardKept == Spec => GuardIsKept
<1>1. IInv /\ FlowInv /\ WindowInv /\ [Next]_vars =>
        [\A e \in Endpoint :
           Unguarded(e)' => Unguarded(e) \/ \E m \in net : ReceiveFirstData(e, m)]_vars
  <2> SUFFICES ASSUME IInv, FlowInv, WindowInv, [Next]_vars, NEW e \in Endpoint, Unguarded(e)'
               PROVE  Unguarded(e) \/ \E m \in net : ReceiveFirstData(e, m)
    OBVIOUS
  <2>1. TypeInv /\ FreshInv
    BY DEF IInv, TypeInv
  <2>2. ~SendCovered(e)'
    BY DEF Unguarded, SendCovered
  <2>3. ~SendCovered(e) => Unguarded(e)
    BY DEF Unguarded, SendCovered
  <2> QED BY <2>1, <2>2, <2>3, AllKept DEF Kept
<1> QED BY <1>1, StreamInvariant, FlowHolds, WindowHolds, PTL DEF Spec, GuardIsKept

-----------------------------------------------------------------------------
(* The roles of the two ends in their first life                             *)

\* Only the client asks for a connection, so only the server is ever in the
\* middle of a passive handshake; and the server's application has nothing to
\* send on before its connection is first valid.
RolesInv ==
  /\ \A d \in net : d.kind = "syn" => d.dst = Server
  /\ \A t \in timers[Server] : t.kind # "syn"
  /\ ~conn[Client].valid => conn[Client].sequence_no = -2
  /\ life[Server] = 0 => ~conn[Server].valid_send_handler

\* What is left to show of a step at e.
LEMMA RolesFrame ==
  ASSUME TypeInv, RolesInv, NEW e \in Endpoint, OnlyAt(e),
         \A d \in net' : d \in net \/ d.kind # "syn" \/ d.dst = Server,
         \A t \in timers'[e] : t \in timers[e] \/ t.kind # "syn" \/ e = Client,
         e = Client => (~conn'[e].valid => conn'[e].sequence_no = -2),
         e = Server => (life'[e] = 0 => ~conn'[e].valid_send_handler)
  PROVE  RolesInv'
<1>1. Client \in Endpoint /\ Server \in Endpoint /\ Client # Server
  BY EndpointAssumption DEF Endpoint
<1>2. e = Client \/ e = Server
  BY DEF Endpoint
<1>3. CASE e = Client
  BY <1>1, <1>3 DEF RolesInv, OnlyAt
<1>4. CASE e = Server
  BY <1>1, <1>4 DEF RolesInv, OnlyAt
<1> QED BY <1>2, <1>3, <1>4

LEMMA RolesFromSameFlow ==
  ASSUME TypeInv, RolesInv, NEW e \in Endpoint, OnlyAt(e), SameFlow(e), life' = life,
         \A d \in net' : d \in net \/ d.kind # "syn" \/ d.dst = Server,
         \A t \in timers'[e] : t \in timers[e] \/ t.kind # "syn" \/ e = Client
  PROVE  RolesInv'
BY RolesFrame DEF RolesInv, SameFlow

LEMMA ControlKinds ==
  ASSUME NEW e \in Endpoint
  PROVE  /\ SynAck(e).kind = "synack" /\ Fin(e).kind = "fin" /\ Syn(e).dst = Peer(e)
         /\ \A n : Ack(e, n).kind = "ack"
         /\ \A n, b : Data(e, n, b).kind = "data"
         /\ \A k, n : Arm(k, n).kind = k
         /\ Peer(Client) = Server
BY DEF SynAck, Fin, Syn, Ack, Data, Arm, Control, Peer

LEMMA CreateRoles ==
  ASSUME TypeInv, FreshInv, RolesInv, CreateConnection
  PROVE  RolesInv'
<1>1. /\ Client \in Endpoint /\ OnlyAt(Client) /\ SameFlow(Client)
  BY CreateOnlyAt, CreateFlow, SameConnFlow DEF Endpoint
<1>2. life' = life /\ net' = net \cup {Syn(Client)}
  BY DEF CreateConnection, history
<1>3. \A d \in net' : d \in net \/ d.dst = Server
  BY <1>1, <1>2, ControlKinds
<1> QED BY <1>1, <1>2, <1>3, RolesFromSameFlow

LEMMA QuietRoles ==
  ASSUME TypeInv, RolesInv, NEW e \in Endpoint,
         \/ AsyncRcv(e) \/ CloseConnection(e) \/ CloseSocket(e)
         \/ \E m \in net : \/ IgnoreWhileInvalid(e, m) \/ ReceiveFin(e, m)
                           \/ ReceiveLateSyn(e, m)
  PROVE  RolesInv'
<1>1. timers' = timers /\ life' = life /\ net' \subseteq net \cup {Fin(e)}
  BY DeliveredRest DEF AsyncRcv, CloseConnection, CloseSocket, IgnoreWhileInvalid, ReceiveFin,
         ReceiveLateSyn, history
<1>2. SameFlow(e) /\ OnlyAt(e)
  BY QuietUndisturbed, ApplicationOnlyAt, ReceiveOnlyAt DEF Undisturbed, Application, Receive
<1>3. \A d \in net' : d \in net \/ d.kind # "syn"
  BY <1>1, ControlKinds
<1> QED BY <1>1, <1>2, <1>3, RolesFromSameFlow

LEMMA ConnectionTimeoutRoles ==
  ASSUME TypeInv, RolesInv, NEW e \in Endpoint, NEW t \in timers[e],
         ConnectionTimeout(e, t) \/ TimerDropped(e, t)
  PROVE  RolesInv'
<1>1. /\ conn' = conn /\ life' = life /\ timers \in [Endpoint -> SUBSET Timer]
      /\ timers' = timers \/ timers' = [timers EXCEPT ![e] = timers[e] \ {t}]
      /\ net' = net \/ /\ net' = net \cup {HandshakeSegment(e, t)}
                       /\ t.kind \in {"syn", "synack", "finalack"}
  BY DEF ConnectionTimeout, TimerDropped, history, TypeInv, TypeOK
<1>2. OnlyAt(e) /\ SameFlow(e)
  BY <1>1, TimerOnlyAt, SameConnFlow DEF Fires
<1>3. t.kind = "syn" => e = Client
  BY DEF RolesInv, Endpoint
<1>4. t.kind \in {"syn", "synack", "finalack"} =>
        HandshakeSegment(e, t).kind # "syn" \/ HandshakeSegment(e, t).dst = Server
  <2>1. CASE t.kind = "syn"
    BY <1>3, <2>1, ControlKinds DEF HandshakeSegment
  <2>2. CASE t.kind = "synack"
    BY <2>2, ControlKinds DEF HandshakeSegment
  <2>3. CASE t.kind = "finalack"
    BY <2>3, ControlKinds DEF HandshakeSegment
  <2> QED BY <2>1, <2>2, <2>3
<1>5. \A d \in net' : d \in net \/ d.kind # "syn" \/ d.dst = Server
  BY <1>1, <1>4
<1>6. \A u \in timers'[e] : u \in timers[e]
  BY <1>1
<1> QED BY <1>1, <1>2, <1>5, <1>6, RolesFromSameFlow

LEMMA SendTimeoutRoles ==
  ASSUME TypeInv, RolesInv, NEW e \in Endpoint, NEW t \in timers[e], SendTimeout(e, t)
  PROVE  RolesInv'
<1> DEFINE c == halve_congestion(conn[e])
           d == Data(e, package_seq(c), package_message(c))
<1>1. OnlyAt(e) /\ Halves(e)
  BY TimerOnlyAt, SendTimeoutHalves DEF Fires
<1>2. life' = life /\ net' \subseteq net \cup {Fin(e)} \cup {d}
  BY DEF SendTimeout, fin_at_limit, history
<1>3. d.kind = "data"
  BY ControlKinds
<1> HIDE DEF d
<1>4. \A x \in net' : x \in net \/ x.kind # "syn"
  BY <1>2, <1>3, ControlKinds
<1> QED BY <1>1, <1>2, <1>4, RolesFrame DEF Halves, RolesInv

LEMMA AckTimeoutRoles ==
  ASSUME TypeInv, RolesInv, NEW e \in Endpoint, NEW t \in timers[e], AckTimeout(e, t)
  PROVE  RolesInv'
<1> DEFINE n == conn[e].sequence_no
<1>1. OnlyAt(e) /\ SameFlow(e)
  BY TimerOnlyAt, AckTimeoutFlow DEF Fires
<1>2. /\ life' = life /\ net' \subseteq net \cup {Fin(e)} \cup {Ack(e, n)}
      /\ timers' = [timers EXCEPT ![e] = (timers[e] \ {t}) \cup {Arm("ack", n)}]
      /\ timers \in [Endpoint -> SUBSET Timer]
  BY DEF AckTimeout, fin_at_limit, history, TypeInv, TypeOK
<1> HIDE DEF n
<1>3. \A x \in net' : x \in net \/ x.kind # "syn"
  BY <1>2, ControlKinds
<1>4. \A u \in timers'[e] : u \in timers[e] \/ u.kind # "syn"
  BY <1>2, ControlKinds
<1> QED BY <1>1, <1>2, <1>3, <1>4, RolesFromSameFlow

LEMMA HandleFinRoles ==
  ASSUME TypeInv, RolesInv, NEW e \in Endpoint, HandleFin(e)
  PROVE  RolesInv'
<1>1. /\ timers' = timers /\ net' = net /\ life' = [life EXCEPT ![e] = IF @ = 0 THEN 1 ELSE @]
      /\ life \in [Endpoint -> 0..2]
  BY DEF HandleFin, TypeInv, TypeOK
<1>2. life'[e] # 0
  BY <1>1
<1> QED BY <1>1, <1>2, HandleFinOnlyAt, HandleFinFlow, RolesFrame

LEMMA SynRoles ==
  ASSUME TypeInv, RolesInv, NEW e \in Endpoint, NEW m \in net, ReceiveSyn(e, m)
  PROVE  RolesInv'
<1>1. e = Server /\ Client # Server
  BY EndpointAssumption DEF ReceiveSyn, Arrival, RolesInv
<1>2. /\ life' = life /\ net' \subseteq net \cup {SynAck(e)}
      /\ timers' = [timers EXCEPT ![e] = timers[e] \cup {Arm("synack", 0)}]
      /\ timers \in [Endpoint -> SUBSET Timer]
  BY DeliveredRest DEF ReceiveSyn, history, TypeInv, TypeOK
<1> DEFINE d == [conn[e] EXCEPT !.sequence_no = m.seq + 1, !.remote_window_size = m.window]
<1>3. /\ conn' = [conn EXCEPT ![e] = d] /\ conn \in [Endpoint -> ConnectionType]
      /\ conn[e] \in ConnectionType
  BY DEF ReceiveSyn, TypeInv, TypeOK
<1>4. d.valid_send_handler = conn[e].valid_send_handler
  BY <1>3 DEF ConnectionType
<1> HIDE DEF d
<1>5. conn'[e].valid_send_handler = conn[e].valid_send_handler
  BY <1>3, <1>4
<1>6. \A x \in net' : x \in net \/ x.kind # "syn"
  BY <1>2, ControlKinds
<1>7. \A u \in timers'[e] : u \in timers[e] \/ u.kind # "syn"
  BY <1>2, ControlKinds
<1>8. OnlyAt(e)
  BY ReceiveOnlyAt DEF Receive
<1> QED BY <1>1, <1>2, <1>5, <1>6, <1>7, <1>8, RolesFrame DEF RolesInv

\* c is established or has what decides about the handshake from conn[e].
KeepsRole(e, c) ==
  \/ c.valid
  \/ c.sequence_no = conn[e].sequence_no /\ c.valid = conn[e].valid

\* A step in which send() runs on a record that keeps the role of e.
LEMMA SendsRoles ==
  ASSUME TypeInv, RolesInv, NEW e \in Endpoint, OnlyAt(e), NEW c, NEW x, NEW y, Sends(e, c, x, y),
         x \subseteq {Ack(e, 0)}, y \subseteq {Arm("finalack", 0)}, KeepsRole(e, c),
         e = Server => life'[e] # 0
  PROVE  RolesInv'
<1>1. /\ net' \subseteq net \cup x \cup sent_by(e, c)
      /\ timers' = [timers EXCEPT ![e] = timers[e] \cup y \cup armed_by(c)]
      /\ timers \in [Endpoint -> SUBSET Timer]
  BY DEF Sends, TypeInv, TypeOK
<1>2. \A d \in sent_by(e, c) : d.kind = "data"
  BY ControlKinds DEF sent_by
<1>3. \A t \in armed_by(c) : t.kind = "send"
  BY ControlKinds DEF armed_by
<1>4. \A d \in net' : d \in net \/ d.kind # "syn"
  BY <1>1, <1>2, ControlKinds
<1>5. \A t \in timers'[e] : t \in timers[e] \/ t.kind # "syn"
  BY <1>1, <1>3, ControlKinds
<1>6. e = Client => (~conn'[e].valid => conn'[e].sequence_no = -2)
  BY DEF Sends, RolesInv, KeepsRole
<1> QED BY <1>4, <1>5, <1>6, RolesFrame

LEMMA SendingRoles ==
  ASSUME TypeInv, StreamInv, RolesInv, NEW e \in Endpoint,
         \/ AsyncSend(e)
         \/ \E m \in net : ReceiveSynAck(e, m) \/ ReceiveFinalAck(e, m) \/ ReceiveAck(e, m)
  PROVE  RolesInv'
<1>1. /\ conn[e] \in ConnectionType /\ life \in [Endpoint -> 0..2]
      /\ conn[e].old_sequence_no <= conn[e].send_sequence_no
      /\ \A m \in net : m.seq \in Int /\ m.window \in Int
  BY DEF TypeInv, TypeOK, Datagram, SendStartsBeforeNext
<1>2. OnlyAt(e)
  BY ApplicationOnlyAt, ReceiveOnlyAt DEF Application, Receive
<1>3. CASE AsyncSend(e)
  <2>1. PICK buff \in Seq(Nat) : Sends(e, set_send_handler(conn[e], buff), {}, {})
    BY <1>3, AsyncSendSends
  <2> DEFINE c == set_send_handler(conn[e], buff)
  <2>2. c.valid = conn[e].valid /\ c.sequence_no = conn[e].sequence_no
    BY <1>1, SetSendHandlerFields
  <2>3. Sends(e, c, {}, {})
    BY <2>1
  <2> HIDE DEF c
  <2>4. e = Server => life'[e] # 0
    BY <1>1, <1>3, EndpointAssumption DEF AsyncSend, Holds
  <2>5. KeepsRole(e, c)
    BY <2>2 DEF KeepsRole
  <2> QED BY <1>2, <2>3, <2>4, <2>5, SendsRoles
<1>4. ASSUME NEW m \in net, ReceiveSynAck(e, m)
      PROVE  RolesInv'
  <2> DEFINE b == [conn[e] EXCEPT !.remote_window_size = m.window]
             c == establish(b, m.seq + 1)
  <2>1. b \in ConnectionType
    BY <1>1, FieldUpdate
  <2>2. c.valid
    <3> HIDE DEF b
    <3> QED BY <1>1, <2>1, EstablishFields
  <2>3. Sends(e, c, {Ack(e, 0)}, {Arm("finalack", 0)})
    BY <1>4, SynAckSends
  <2> HIDE DEF c
  <2>4. life'[e] # 0
    BY <1>1, <1>4 DEF ReceiveSynAck, BecomeValid
  <2>5. KeepsRole(e, c)
    BY <2>2 DEF KeepsRole
  <2> QED BY <1>2, <2>3, <2>4, <2>5, SendsRoles
<1>5. ASSUME NEW m \in net, ReceiveFinalAck(e, m)
      PROVE  RolesInv'
  <2> DEFINE c == establish(conn[e], m.seq)
  <2>1. c.valid
    BY <1>1, EstablishFields
  <2>2. Sends(e, c, {}, {})
    BY <1>5, FinalAckSends
  <2> HIDE DEF c
  <2>3. life'[e] # 0
    BY <1>1, <1>5 DEF ReceiveFinalAck, BecomeValid
  <2>4. KeepsRole(e, c)
    BY <2>1 DEF KeepsRole
  <2> QED BY <1>2, <2>2, <2>3, <2>4, SendsRoles
<1>6. ASSUME NEW m \in net, ReceiveAck(e, m)
      PROVE  RolesInv'
  <2> DEFINE c == take_ack(conn[e], m.seq)
  <2>1. conn[e].valid /\ c.valid = conn[e].valid /\ life' = life
    BY <1>1, <1>6, TakeAckFields DEF ReceiveAck, Arrival
  <2>2. Sends(e, c, {}, {})
    BY <1>6, AckSends
  <2> HIDE DEF c
  <2>3. life'[e] # 0
    BY <2>1 DEF StreamInv, UnusedInv
  <2>4. KeepsRole(e, c)
    BY <2>1 DEF KeepsRole
  <2> QED BY <1>2, <2>2, <2>3, <2>4, SendsRoles
<1> QED BY <1>3, <1>4, <1>5, <1>6


\* Data is taken by a connection whose send handler, if any, is known.
LEMMA TakesRoles ==
  ASSUME TypeInv, RolesInv, NEW e \in Endpoint, OnlyAt(e), NEW c, NEW taken, NEW k,
         Takes(e, c, taken, k), c.valid, life'[e] # 0
  PROVE  RolesInv'
<1>1. /\ net' \subseteq net \cup {Ack(e, c.sequence_no + k)}
      /\ \/ timers' = timers
         \/ timers' = [timers EXCEPT ![e] = timers[e] \cup {Arm("ack", c.sequence_no + k)}]
      /\ timers \in [Endpoint -> SUBSET Timer]
  BY DEF Takes, TypeInv, TypeOK
<1>2. \A d \in net' : d \in net \/ d.kind # "syn"
  BY <1>1, ControlKinds
<1>3. \A t \in timers'[e] : t \in timers[e] \/ t.kind # "syn"
  BY <1>1, ControlKinds
<1>4. conn'[e].valid
  BY DEF Takes
<1> QED BY <1>2, <1>3, <1>4, RolesFrame

LEMMA DataRoles ==
  ASSUME TypeInv, StreamInv, RolesInv, NEW e \in Endpoint, NEW m \in net,
         ReceiveData(e, m) \/ ReceiveFirstData(e, m)
  PROVE  RolesInv'
<1>1. /\ conn[e] \in ConnectionType /\ life \in [Endpoint -> 0..2] /\ accepted[e] \in Nat
      /\ m.seq \in Int
  BY DEF TypeInv, TypeOK, Datagram
<1>2. OnlyAt(e)
  BY ReceiveOnlyAt DEF Receive
<1>3. CASE ReceiveData(e, m)
  <2>1. conn[e].valid /\ HandleData(e, m, conn[e], accepted[e], delivered[e]) /\ life' = life
    BY <1>3 DEF ReceiveData, Arrival
  <2>2. PICK k : Takes(e, conn[e], accepted[e], k)
    BY <1>1, <2>1, HandleDataTakes
  <2>3. life'[e] # 0
    BY <2>1 DEF StreamInv, UnusedInv
  <2> QED BY <1>2, <2>1, <2>2, <2>3, TakesRoles
<1>4. CASE ReceiveFirstData(e, m)
  <2> DEFINE c == establish(conn[e], m.seq)
  <2>1. HandleData(e, m, c, 0, <<>>)
    BY <1>4 DEF ReceiveFirstData
  <2>2. c \in ConnectionType /\ c.valid
    BY <1>1, EstablishFields
  <2> HIDE DEF c
  <2>3. PICK k : Takes(e, c, 0, k)
    BY <2>1, <2>2, HandleDataTakes
  <2>4. life'[e] # 0
    BY <1>1, <1>4 DEF ReceiveFirstData, BecomeValid
  <2> QED BY <1>2, <2>2, <2>3, <2>4, TakesRoles
<1> QED BY <1>3, <1>4

LEMMA RolesStep ==
  ASSUME TypeInv, FreshInv, StreamInv, RolesInv, [Next]_vars
  PROVE  RolesInv'
<1>1. CASE CreateConnection
  BY <1>1, CreateRoles
<1>2. ASSUME NEW e \in Endpoint, Application(e) \/ HandleFin(e)
      PROVE  RolesInv'
  BY <1>2, SendingRoles, QuietRoles, HandleFinRoles DEF Application
<1>3. ASSUME NEW e \in Endpoint, NEW t \in timers[e], Fires(e, t)
      PROVE  RolesInv'
  BY <1>3, ConnectionTimeoutRoles, SendTimeoutRoles, AckTimeoutRoles DEF Fires
<1>4. ASSUME NEW m \in net, Receive(m.dst, m)
      PROVE  RolesInv'
  <2>1. m.dst \in Endpoint
    BY DEF TypeInv, TypeOK, Datagram
  <2> QED BY <1>4, <2>1, SynRoles, SendingRoles, DataRoles, QuietRoles DEF Receive
<1>5. ASSUME NEW m \in net, Lose(m)
      PROVE  RolesInv'
  BY <1>5 DEF Lose, history, RolesInv
<1>6. CASE UNCHANGED vars
  BY <1>6 DEF vars, RolesInv
<1> QED BY <1>1, <1>2, <1>3, <1>4, <1>5, <1>6 DEF Next

-----------------------------------------------------------------------------
(* UnackedIsGuarded                                                          *)

\* The first data of the only life finds a server without a send handler.
LEMMA FirstDataSendCovered ==
  ASSUME MaxLives = 1, TypeInv, RolesInv, NEW e \in Endpoint, NEW m \in net,
         ReceiveFirstData(e, m)
  PROVE  SendCovered(e)'
<1> DEFINE c == establish(conn[e], m.seq)
<1>1. /\ conn[e] \in ConnectionType /\ m.seq \in Int /\ life[e] \in 0..2
      /\ ~conn[e].valid /\ conn[e].sequence_no = -1 /\ life[e] < 1
      /\ HandleData(e, m, c, 0, <<>>)
  BY DEF ReceiveFirstData, BecomeValid, TypeInv, TypeOK, Datagram
<1>2. e = Server
  BY <1>1 DEF RolesInv, Endpoint
<1>3. ~conn[e].valid_send_handler
  BY <1>1, <1>2 DEF RolesInv
<1> HIDE DEF c
<1>4. c \in ConnectionType /\ c.valid_send_handler = conn[e].valid_send_handler
  <2>1. conn[e] \in ConnectionType /\ m.seq \in Int /\ c = establish(conn[e], m.seq)
    BY <1>1 DEF c
  <2> QED BY <2>1, EstablishFields
<1>5. PICK k : Takes(e, c, 0, k)
  BY <1>1, <1>4, HandleDataTakes
<1> QED BY <1>3, <1>4, <1>5 DEF Takes, SendCovered, sending

GuardInv ==
  /\ FirstLife /\ RolesInv
  /\ \A f \in Endpoint : SendCovered(f)

LEMMA GuardStep ==
  ASSUME MaxLives = 1, TypeInv, FreshInv, StreamInv, FlowInv, WindowInv, GuardInv, [Next]_vars
  PROVE  GuardInv'
<1>1. FirstLife' /\ RolesInv'
  BY StaysFirstLife, RolesStep DEF GuardInv
<1>2. ASSUME NEW f \in Endpoint
      PROVE  SendCovered(f)'
  <2>1. SendCovered(f)' \/ \E m \in net : ReceiveFirstData(f, m)
    BY AllKept DEF Kept, GuardInv
  <2> QED BY <2>1, FirstDataSendCovered DEF GuardInv
<1> QED BY <1>1, <1>2 DEF GuardInv

LEMMA GuardInit == Init => GuardInv
<1> SUFFICES ASSUME Init PROVE GuardInv
  OBVIOUS
<1>1. \A e \in Endpoint : conn[e] = NewConnection /\ timers[e] = {} /\ life[e] = 0
  BY DEF Init
<1>2. net = {} /\ Client \in Endpoint /\ Server \in Endpoint
  BY DEF Init, Endpoint
<1>3. ~NewConnection.valid /\ NewConnection.sequence_no = -2 /\ ~NewConnection.valid_send_handler
  BY DEF NewConnection
<1> QED BY <1>1, <1>2, <1>3 DEF GuardInv, FirstLife, RolesInv, SendCovered, sending

\* In the first life of the connections no order of acknowledgements,
\* timeouts and new sends leaves data outstanding without a timer that will
\* send it again.
THEOREM UnackedGuarded == ASSUME MaxLives = 1 PROVE Spec => []UnackedIsGuarded
<1>1. IInv /\ FlowInv /\ WindowInv /\ GuardInv /\ [Next]_vars => GuardInv'
  <2> SUFFICES ASSUME IInv, FlowInv, WindowInv, GuardInv, [Next]_vars PROVE GuardInv'
    OBVIOUS
  <2>1. TypeInv /\ FreshInv /\ StreamInv
    BY DEF IInv, TypeInv, GuardInv
  <2> QED BY <2>1, GuardStep
<1>2. GuardInv => UnackedIsGuarded
  BY DEF GuardInv, SendCovered, UnackedIsGuarded
<1> QED BY <1>1, <1>2, GuardInit, StreamInvariant, FlowHolds, WindowHolds, PTL DEF Spec

=============================================================================
