--------------------------------- MODULE Rtp ---------------------------------
(***************************************************************************)
(* Two RTP endpoints, an active one (Client, which calls create_connection)*)
(* and a passive one (Server, which called create_receiver), over UDP.     *)
(* Each endpoint is an rtp::Socket (socket.cpp) with the one entry of its  *)
(* connections map that belongs to the other endpoint, an rtp::Connection. *)
(* One action is one completion handler run by the endpoint's io_service   *)
(* thread, or one call made by the application.                            *)
(*                                                                         *)
(* The network loses and reorders datagrams and, if Duplicates is TRUE,    *)
(* delivers them more than once.  Timers are sets: the deadlines of the    *)
(* code are all 200 ms and the model lets an armed timer fire at any time. *)
(* The completion handlers handle_send, handle_ack and                     *)
(* handle_connection_est only arm a timer with values captured when the    *)
(* datagram was sent, so sending and arming are one step; the completion   *)
(* of a FIN runs handle_fin and is a step of its own.  User callbacks are  *)
(* the application actions AsyncSend, AsyncRcv, CloseConnection and        *)
(* CloseSocket, which may follow the handler at once or later.             *)
(***************************************************************************)
EXTENDS Connection, FiniteSets

CONSTANTS
  Client, Server,  \* the two endpoints
  Window,          \* max_window_size of each endpoint's Socket, in bytes
  MessageSizes,    \* sizes of the buffers applications pass to async_send
  WriteBudget,     \* bound on the bytes the application of an endpoint writes
  MaxFins,         \* bound on FIN completions an endpoint has pending
  MaxLives,        \* bound on how often a connection becomes valid (at most 2)
  MaxInFlight,     \* bound on the datagrams in flight
  Closers,         \* endpoints whose application closes connection or socket
  Duplicates       \* whether the network duplicates datagrams

Endpoint == {Client, Server}
Peer(e) == IF e = Client THEN Server ELSE Client

ASSUME EndpointAssumption == Client # Server
ASSUME BoundAssumption ==
  /\ Window \in [Endpoint -> Nat]
  /\ MessageSizes \subseteq Nat
  /\ WriteBudget \in [Endpoint -> Nat]
  /\ MaxFins \in Nat
  /\ MaxInFlight \in Nat
  /\ MaxLives \in 1..2
  /\ Closers \subseteq Endpoint
  /\ Duplicates \in BOOLEAN

VARIABLES
  connections,  \* whether the Socket's map has an entry for the peer
  open,         \* Socket::valid; FALSE once close() stopped the io_service
  conn,         \* the Connection object of that entry
  timers,       \* the armed timers of the endpoint
  finishing,    \* FIN sends whose completion handler has not run
  net,          \* the datagrams in flight
  written,      \* history: bytes given to async_send
  accepted,     \* history: bytes taken into rcv_window since the connection is valid
  delivered,    \* history: bytes passed to the application since then
  life          \* history: 0 until the connection is first valid or reset, 2 once
                \* it is valid again after that

vars == <<connections, open, conn, timers, finishing, net,
          written, accepted, delivered, life>>
history == <<written, accepted, delivered, life>>

-----------------------------------------------------------------------------
(* Datagrams and timers *)

Datagram == [dst : Endpoint, kind : {"syn", "synack", "ack", "fin", "data"},
             seq : Int, window : Nat, data : Seq(Nat)]

Control(dst, kind, seq, window) ==
  [dst |-> dst, kind |-> kind, seq |-> seq, window |-> window, data |-> <<>>]
Syn(e)    == Control(Peer(e), "syn", -2, Window[e])
SynAck(e) == Control(Peer(e), "synack", -1, Window[e])
Ack(e, n) == Control(Peer(e), "ack", n, 0)
Fin(e)    == Control(Peer(e), "fin", 0, 0)
Data(e, n, bytes) ==
  [dst |-> Peer(e), kind |-> "data", seq |-> n, window |-> 0, data |-> bytes]

\* A timer keeps the segment it guards (kind) and the next_seq_no bound to it.
Timer == [kind : {"syn", "synack", "finalack", "send", "ack"}, next : Int]
Arm(k, n) == [kind |-> k, next |-> n]

HandshakeSegment(e, t) ==
  CASE t.kind = "syn" -> Syn(e)
    [] t.kind = "synack" -> SynAck(e)
    [] t.kind = "finalack" -> Ack(e, 0)

\* What Connection::send() on record c puts on the wire and arms.
sent_by(e, c) ==
  IF sending(c) /\ package_message(c) # <<>>
  THEN {Data(e, package_seq(c), package_message(c))} ELSE {}
armed_by(c) ==
  IF sending(c) /\ package_message(c) # <<>>
  THEN {Arm("send", c.send_sequence_no)} ELSE {}

\* The network after m was handed to its destination.
Delivered(m) == {net \ {m}} \cup (IF Duplicates THEN {net} ELSE {})

Run(from, n) == [i \in 1..n |-> from + i]

-----------------------------------------------------------------------------
Init ==
  /\ connections = [e \in Endpoint |-> FALSE]
  /\ open = [e \in Endpoint |-> TRUE]
  /\ conn = [e \in Endpoint |-> NewConnection]
  /\ timers = [e \in Endpoint |-> {}]
  /\ finishing = [e \in Endpoint |-> 0]
  /\ net = {}
  /\ written = [e \in Endpoint |-> 0]
  /\ accepted = [e \in Endpoint |-> 0]
  /\ delivered = [e \in Endpoint |-> <<>>]
  /\ life = [e \in Endpoint |-> 0]

-----------------------------------------------------------------------------
(* Application calls *)

\* The client's application holds the connection from create_connection on,
\* the server's from the first call of the receiver callback.
Holds(e) == open[e] /\ (IF e = Client THEN connections[e] ELSE life[e] > 0)

CreateConnection ==
  /\ open[Client] /\ ~connections[Client]
  /\ connections' = [connections EXCEPT ![Client] = TRUE]
  /\ conn' = [conn EXCEPT ![Client] = NewConnection]
  /\ net' = net \cup {Syn(Client)}
  /\ timers' = [timers EXCEPT ![Client] = @ \cup {Arm("syn", -1)}]
  /\ UNCHANGED <<open, finishing, history>>

\* The applications start a transfer only after the previous one's handler ran.
AsyncSend(e) ==
  \E n \in MessageSizes :
    LET c == set_send_handler(conn[e], Run(written[e], n)) IN
    /\ Holds(e) /\ ~conn[e].valid_send_handler
    /\ written[e] + n <= WriteBudget[e]
    /\ written' = [written EXCEPT ![e] = @ + n]
    /\ conn' = [conn EXCEPT ![e] = after_send(c)]
    /\ net' = net \cup sent_by(e, c)
    /\ timers' = [timers EXCEPT ![e] = @ \cup armed_by(c)]
    /\ UNCHANGED <<connections, open, finishing, accepted, delivered, life>>

AsyncRcv(e) ==
  LET c == set_rcv_handler(conn[e]) IN
  /\ Holds(e) /\ ~conn[e].valid_rcv_handler
  /\ conn' = [conn EXCEPT ![e] = IF c.rcv_window # <<>> THEN call_rcv_handler(c) ELSE c]
  /\ delivered' = [delivered EXCEPT ![e] = @ \o passed_back(c)]
  /\ UNCHANGED <<connections, open, timers, finishing, net, written, accepted, life>>

CloseConnection(e) ==
  /\ Holds(e) /\ e \in Closers /\ finishing[e] < MaxFins
  /\ net' = net \cup {Fin(e)}
  /\ finishing' = [finishing EXCEPT ![e] = @ + 1]
  /\ UNCHANGED <<connections, open, conn, timers, history>>

CloseSocket(e) ==
  /\ open[e] /\ e \in Closers
  /\ open' = [open EXCEPT ![e] = FALSE]
  /\ UNCHANGED <<connections, conn, timers, finishing, net, history>>

-----------------------------------------------------------------------------
(* Datagram arrival: Socket::multiplex *)

\* set_valid(true), the receiver callback, and the history that starts anew.
BecomeValid(e) ==
  /\ life[e] < MaxLives
  /\ life' = [life EXCEPT ![e] = @ + 1]
  /\ UNCHANGED written

\* The part of the state that an arriving datagram leaves alone.
Arrival(e, m) ==
  /\ open[e] /\ m \in net /\ m.dst = e
  /\ connections' = [connections EXCEPT ![e] = TRUE]
  /\ UNCHANGED open

\* Fault: the window of a SYN is not kept.
ReceiveSyn_forgets(e, m) ==
  /\ Arrival(e, m) /\ ~conn[e].valid
  /\ m.kind = "syn" /\ m.seq = -2
  /\ conn' = [conn EXCEPT ![e].sequence_no = m.seq + 1]
  /\ \E rest \in Delivered(m) : net' = rest \cup {SynAck(e)}
  /\ timers' = [timers EXCEPT ![e] = @ \cup {Arm("synack", 0)}]
  /\ UNCHANGED <<finishing, history>>

ReceiveSyn(e, m) ==
  /\ Arrival(e, m) /\ ~conn[e].valid
  /\ m.kind = "syn" /\ m.seq = -2
  /\ conn' = [conn EXCEPT ![e] =
       [@ EXCEPT !.sequence_no = m.seq + 1, !.remote_window_size = m.window]]
  /\ \E rest \in Delivered(m) : net' = rest \cup {SynAck(e)}
  /\ timers' = [timers EXCEPT ![e] = @ \cup {Arm("synack", 0)}]
  /\ UNCHANGED <<finishing, history>>

ReceiveSynAck(e, m) ==
  LET c == establish([conn[e] EXCEPT !.remote_window_size = m.window], m.seq + 1) IN
  /\ Arrival(e, m) /\ ~conn[e].valid
  /\ m.kind = "synack" /\ m.seq = -1
  /\ conn' = [conn EXCEPT ![e] = after_send(c)]
  /\ \E rest \in Delivered(m) : net' = rest \cup {Ack(e, 0)} \cup sent_by(e, c)
  /\ timers' = [timers EXCEPT ![e] = @ \cup {Arm("finalack", 0)} \cup armed_by(c)]
  /\ BecomeValid(e)
  /\ accepted' = [accepted EXCEPT ![e] = 0]
  /\ delivered' = [delivered EXCEPT ![e] = <<>>]
  /\ UNCHANGED finishing

ReceiveFinalAck(e, m) ==
  LET c == establish(conn[e], m.seq) IN
  /\ Arrival(e, m) /\ ~conn[e].valid
  /\ m.kind = "ack" /\ m.seq = 0
  /\ conn' = [conn EXCEPT ![e] = after_send(c)]
  /\ \E rest \in Delivered(m) : net' = rest \cup sent_by(e, c)
  /\ timers' = [timers EXCEPT ![e] = @ \cup armed_by(c)]
  /\ BecomeValid(e)
  /\ accepted' = [accepted EXCEPT ![e] = 0]
  /\ delivered' = [delivered EXCEPT ![e] = <<>>]
  /\ UNCHANGED finishing

\* A datagram that no branch of connection_establishment takes.
IgnoreWhileInvalid(e, m) ==
  /\ Arrival(e, m) /\ ~conn[e].valid
  /\ \/ m.kind = "fin"
     \/ m.kind = "ack" /\ m.seq # 0
     \/ m.kind = "data" /\ ~(m.seq = 0 /\ conn[e].sequence_no = -1)
  /\ net' \in Delivered(m)
  /\ UNCHANGED <<conn, timers, finishing, history>>

\* The data branch of Connection::handle_rcv on connection c, which has been
\* passed received bytes in this incarnation and taken taken.
HandleData(e, m, c, taken, received) ==
  IF m.seq # c.sequence_no
  THEN /\ conn' = [conn EXCEPT ![e] = call_rcv_handler(c)]
       /\ accepted' = [accepted EXCEPT ![e] = taken]
       /\ delivered' = [delivered EXCEPT ![e] = received \o passed_back(c)]
       /\ net' \in Delivered(m)
       /\ UNCHANGED timers
  ELSE \E k \in accepted_lengths(Len(m.data)) :
         LET d == take_data(c, SubSeq(m.data, 1, k)) IN
         /\ conn' = [conn EXCEPT ![e] = call_rcv_handler(IF k > 0 THEN d ELSE c)]
         /\ accepted' = [accepted EXCEPT ![e] = taken + k]
         /\ delivered' = [delivered EXCEPT ![e] = received \o passed_back(d)]
         /\ \E rest \in Delivered(m) :
              net' = IF k > 0 THEN rest \cup {Ack(e, d.sequence_no)} ELSE rest
         /\ timers' = IF k > 0
                      THEN [timers EXCEPT ![e] = @ \cup {Arm("ack", d.sequence_no)}]
                      ELSE timers

ReceiveFirstData(e, m) ==
  /\ Arrival(e, m) /\ ~conn[e].valid
  /\ m.kind = "data" /\ m.seq = 0 /\ conn[e].sequence_no = -1
  /\ HandleData(e, m, establish(conn[e], m.seq), 0, <<>>)
  /\ BecomeValid(e)
  /\ UNCHANGED finishing

ReceiveData(e, m) ==
  /\ Arrival(e, m) /\ conn[e].valid
  /\ m.kind = "data"
  /\ HandleData(e, m, conn[e], accepted[e], delivered[e])
  /\ UNCHANGED <<finishing, written, life>>

\* A SYN-ACK has the ack flag set, so an established connection takes it for
\* an acknowledgement of -1.
ReceiveAck(e, m) ==
  LET c == take_ack(conn[e], m.seq) IN
  /\ Arrival(e, m) /\ conn[e].valid
  /\ m.kind \in {"ack", "synack"}
  /\ conn' = [conn EXCEPT ![e] = call_rcv_handler(after_send(c))]
  /\ delivered' = [delivered EXCEPT ![e] = @ \o passed_back(c)]
  /\ \E rest \in Delivered(m) : net' = rest \cup sent_by(e, c)
  /\ timers' = [timers EXCEPT ![e] = @ \cup armed_by(c)]
  /\ UNCHANGED <<finishing, written, accepted, life>>

ReceiveFin(e, m) ==
  /\ Arrival(e, m) /\ conn[e].valid
  /\ m.kind = "fin" /\ finishing[e] < MaxFins
  /\ conn' = [conn EXCEPT ![e] = call_rcv_handler(@)]
  /\ delivered' = [delivered EXCEPT ![e] = @ \o passed_back(conn[e])]
  /\ \E rest \in Delivered(m) : net' = rest \cup {Fin(e)}
  /\ finishing' = [finishing EXCEPT ![e] = @ + 1]
  /\ UNCHANGED <<timers, written, accepted, life>>

\* A late SYN has the wrong sequence number for an established connection.
ReceiveLateSyn(e, m) ==
  /\ Arrival(e, m) /\ conn[e].valid
  /\ m.kind = "syn"
  /\ conn' = [conn EXCEPT ![e] = call_rcv_handler(@)]
  /\ delivered' = [delivered EXCEPT ![e] = @ \o passed_back(conn[e])]
  /\ net' \in Delivered(m)
  /\ UNCHANGED <<timers, finishing, written, accepted, life>>

Receive(e, m) ==
  \/ ReceiveSyn(e, m)
  \/ ReceiveSynAck(e, m)
  \/ ReceiveFinalAck(e, m)
  \/ ReceiveFirstData(e, m)
  \/ IgnoreWhileInvalid(e, m)
  \/ ReceiveData(e, m)
  \/ ReceiveAck(e, m)
  \/ ReceiveFin(e, m)
  \/ ReceiveLateSyn(e, m)

-----------------------------------------------------------------------------
(* Completion of a FIN, and timers *)

HandleFin(e) ==
  /\ open[e] /\ finishing[e] > 0
  /\ finishing' = [finishing EXCEPT ![e] = @ - 1]
  /\ conn' = [conn EXCEPT ![e] = reset(@)]
  /\ life' = [life EXCEPT ![e] = IF @ = 0 THEN 1 ELSE @]
  /\ UNCHANGED <<connections, open, timers, net, written, accepted, delivered>>

\* handle_connection_timeout
ConnectionTimeout(e, t) ==
  /\ open[e] /\ t \in timers[e] /\ t.kind \in {"syn", "synack", "finalack"}
  /\ IF handshake_waits(conn[e], t.next)
     THEN net' = net \cup {HandshakeSegment(e, t)} /\ UNCHANGED timers
     ELSE timers' = [timers EXCEPT ![e] = @ \ {t}] /\ UNCHANGED net
  /\ UNCHANGED <<connections, open, conn, finishing, history>>

\* The FIN of inc_timeout's close_connection, if the count is at its limit.
fin_at_limit(e, c) == IF timed_out(c) THEN {Fin(e)} ELSE {}

InTime(e) == timed_out(conn[e]) => finishing[e] < MaxFins

\* handle_send_timeout for a timer whose segment is not acknowledged.  An
\* empty datagram is dropped by the receiving multiplex and not modelled.
SendTimeout(e, t) ==
  LET c == halve_congestion(conn[e]) IN
  /\ open[e] /\ t \in timers[e] /\ t.kind = "send"
  /\ segment_waits(conn[e], t.next)
  /\ InTime(e)
  /\ conn' = [conn EXCEPT ![e] = inc_timeout(c)]
  /\ net' = net \cup fin_at_limit(e, c)
                \cup (IF package_message(c) # <<>>
                      THEN {Data(e, package_seq(c), package_message(c))} ELSE {})
  /\ finishing' = [finishing EXCEPT ![e] = IF timed_out(c) THEN @ + 1 ELSE @]
  /\ UNCHANGED <<connections, open, timers, history>>

\* handle_ack_timeout when nothing has arrived since the acknowledgement
AckTimeout(e, t) ==
  /\ open[e] /\ t \in timers[e] /\ t.kind = "ack"
  /\ ack_waits(conn[e], t.next)
  /\ InTime(e)
  /\ conn' = [conn EXCEPT ![e] = inc_timeout(@)]
  /\ net' = net \cup {Ack(e, conn[e].sequence_no)} \cup fin_at_limit(e, conn[e])
  /\ timers' = [timers EXCEPT ![e] = (@ \ {t}) \cup {Arm("ack", conn[e].sequence_no)}]
  /\ finishing' = [finishing EXCEPT ![e] = IF timed_out(conn[e]) THEN @ + 1 ELSE @]
  /\ UNCHANGED <<connections, open, history>>

\* Both handlers drop a timer that has nothing left to guard.
TimerDropped(e, t) ==
  /\ open[e] /\ t \in timers[e]
  /\ \/ t.kind = "send" /\ ~segment_waits(conn[e], t.next)
     \/ t.kind = "ack" /\ ~ack_waits(conn[e], t.next)
  /\ timers' = [timers EXCEPT ![e] = @ \ {t}]
  /\ UNCHANGED <<connections, open, conn, finishing, net, history>>

Lose(m) ==
  /\ m \in net
  /\ net' = net \ {m}
  /\ UNCHANGED <<connections, open, conn, timers, finishing, history>>

-----------------------------------------------------------------------------
Application(e) ==
  \/ AsyncSend(e)
  \/ AsyncRcv(e)
  \/ CloseConnection(e)
  \/ CloseSocket(e)

Fires(e, t) ==
  \/ ConnectionTimeout(e, t)
  \/ SendTimeout(e, t)
  \/ AckTimeout(e, t)
  \/ TimerDropped(e, t)

Room == Cardinality(net') <= MaxInFlight

Next ==
  /\ \/ CreateConnection
     \/ \E e \in Endpoint : Application(e) \/ HandleFin(e)
     \/ \E e \in Endpoint : \E t \in timers[e] : Fires(e, t)
     \/ \E m \in net : Receive(m.dst, m) \/ Lose(m)
  /\ Room

Spec == Init /\ [][Next]_vars

-----------------------------------------------------------------------------
(* Fairness.  An io_service thread that runs calls the completion handlers   *)
(* and timers that are due; a datagram in flight arrives or is lost; and a   *)
(* handshake segment that is sent again and again gets through in the end.   *)
(* Every conjunct carries Room: the bound on the network may hold a timer up *)
(* again and again, hence strong fairness where a step sends.                *)

TimersFire(e, kinds) ==
  SF_vars(\E t \in timers[e] : t.kind \in kinds /\ Fires(e, t) /\ Room)

NetworkMoves == WF_vars(\E m \in net : (Receive(m.dst, m) \/ Lose(m)) /\ Room)

HandshakeFairness ==
  /\ NetworkMoves
  /\ \A e \in Endpoint :
       /\ TimersFire(e, {"syn", "synack", "finalack"})
       /\ SF_vars(\E m \in net : ReceiveSyn(e, m) /\ Room)
       /\ SF_vars(\E m \in net : ReceiveSynAck(e, m) /\ Room)
       /\ SF_vars(\E m \in net : ReceiveFinalAck(e, m) /\ Room)

TransferFairness ==
  /\ NetworkMoves
  /\ \A e \in Endpoint :
       /\ TimersFire(e, {"send"})
       /\ TimersFire(e, {"ack"})
       /\ WF_vars(HandleFin(e))

\* What SendResolvesIfDataArrives asks of the network; nothing else does.
DataGetsThrough == \A e \in Endpoint : SF_vars(\E m \in net : ReceiveData(e, m) /\ Room)

HandshakeSpec == Spec /\ HandshakeFairness

-----------------------------------------------------------------------------
\* Every variable keeps its type; among others, no arithmetic takes the
\* congestion window, the timeout count or write_index below zero.
TypeOK ==
  /\ connections \in [Endpoint -> BOOLEAN]
  /\ open \in [Endpoint -> BOOLEAN]
  /\ conn \in [Endpoint -> ConnectionType]
  /\ timers \in [Endpoint -> SUBSET Timer]
  /\ finishing \in [Endpoint -> Nat]
  /\ net \in SUBSET Datagram
  /\ written \in [Endpoint -> Nat]
  /\ accepted \in [Endpoint -> Nat]
  /\ delivered \in [Endpoint -> Seq(Nat)]
  /\ life \in [Endpoint -> 0..2]

\* write_index is an offset into write_buff, so it must not be negative: an
\* acknowledgement is subtracted from the number the current send started at.
SendStartsBeforeNext ==
  \A e \in Endpoint : conn[e].old_sequence_no <= conn[e].send_sequence_no

\* No endpoint's connection has come back after it was closed.
FirstLife == \A e \in Endpoint : life[e] <= 1

\* The bytes an application has been given are the first bytes the other
\* application wrote, in order, none missing and none twice.
DeliveredIsPrefix ==
  FirstLife => \A e \in Endpoint :
    /\ delivered[e] = Run(0, Len(delivered[e]))
    /\ Len(delivered[e]) <= written[Peer(e)]

\* A valid connection without a send handler has reported its send complete:
\* then the peer's Connection has taken every byte written.
NoFalseCompletion ==
  FirstLife => \A e \in Endpoint :
    conn[e].valid /\ ~conn[e].valid_send_handler => accepted[Peer(e)] = written[e]

\* While a connection stays valid nothing it has achieved is undone: neither
\* side's number goes back, and the application's bytes stay what they were,
\* whatever old acknowledgement or repeated datagram arrives late.
ProgressIsKept ==
  [][\A e \in Endpoint :
       conn[e].valid /\ conn'[e].valid =>
         /\ conn'[e].sequence_no >= conn[e].sequence_no
         /\ conn'[e].send_sequence_no >= conn[e].send_sequence_no
         /\ Len(delivered'[e]) >= Len(delivered[e])
         /\ SubSeq(delivered'[e], 1, Len(delivered[e])) = delivered[e]]_vars

\* While a send is outstanding towards a peer whose window holds a segment, a
\* retransmission timer that will not be dropped is armed: no order of
\* acknowledgements, timeouts and new sends leaves data unguarded.
UnackedIsGuarded ==
  \A e \in Endpoint :
    sending(conn[e]) /\ conn[e].remote_window_size >= MSS =>
      \E t \in timers[e] : t.kind = "send" /\ t.next >= conn[e].send_sequence_no

\* A send is outstanding towards a peer whose window holds a segment, and no
\* timer will send it again.
Unguarded(e) ==
  /\ sending(conn[e]) /\ conn[e].remote_window_size >= MSS
  /\ \A t \in timers[e] : ~(t.kind = "send" /\ t.next >= conn[e].send_sequence_no)

\* In every life of a connection, with timers, datagrams and acknowledgements
\* of earlier ones still around, no step leaves a send without a guard but one:
\* connection_establishment makes a connection valid for its first data without
\* calling send(), so a buffer given to async_send while the connection was
\* closed stays where it is.
GuardIsKept ==
  [][\A e \in Endpoint :
       Unguarded(e)' => Unguarded(e) \/ \E m \in net : ReceiveFirstData(e, m)]_vars

\* A receiver keeps a live timer for its latest acknowledgement, so a lost
\* acknowledgement is repeated for as long as the connection is valid.
AckIsGuarded ==
  \A e \in Endpoint :
    conn[e].valid /\ accepted[e] > 0 =>
      \E t \in timers[e] : t.kind = "ack" /\ t.next >= conn[e].sequence_no

\* A data datagram never exceeds the window its destination advertised, nor
\* the cap that keeps it inside the receive buffer; a single segment is
\* always allowed.
DatagramFitsWindow ==
  \A d \in net : d.kind = "data" =>
    /\ Len(d.data) <= (IF Window[d.dst] < MSS THEN MSS ELSE Window[d.dst])
    /\ Len(d.data) <= MaxCwnd * MSS

\* inc_congestion never reads the remote window before something has set it: an
\* established connection knows the window its peer's SYN or SYN-ACK told, or the
\* 0 that handle_fin put there.
WindowKnownWhenValid ==
  \A e \in Endpoint : conn[e].valid => conn[e].remote_window_size # Unset

\* A client that asks for a connection gets one, however many of the SYNs and
\* SYN-ACKs are lost: each side repeats its segment until it is answered.
ClientConnects ==
  connections[Client] ~> (life[Client] > 0 \/ ~open[Client])

\* No send hangs, even if the network loses everything: the handler of a send
\* on a valid connection is called in the end, with success or because the
\* connection is given up.  Only two ends that have both received data can
\* keep each other waiting: each repeats an acknowledgement, and each takes
\* the other's for a sign of life that puts its timeout count back.
SendResolves ==
  \A e \in Endpoint :
    sending(conn[e]) ~>
      (~sending(conn[e]) \/ ~open[e] \/ \A x \in Endpoint : accepted[x] > 0)

\* With both ends sending, too, no send hangs, if of the data that is sent
\* again and again some arrives: no order of data, acknowledgements and
\* timeouts leaves a send waiting for what nobody sends any more.
SendResolvesIfDataArrives ==
  DataGetsThrough =>
    \A e \in Endpoint : sending(conn[e]) ~> (~sending(conn[e]) \/ ~open[e])

\* An endpoint that has received data notices that its peer's process is gone:
\* the acknowledgement timer counts unanswered repetitions up to the limit.
PeerNoticesDeath ==
  \A e \in Endpoint :
    (~open[Peer(e)] /\ conn[e].valid /\ accepted[e] > 0)
      ~> (~conn[e].valid \/ ~open[e])

=============================================================================
