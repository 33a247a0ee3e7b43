------------------------------- MODULE MCRtp -------------------------------
(* Small instances of Rtp. *)
EXTENDS RtpClaims, RtpService, TLC

\* window sizes
BothOne == (Client :> 1) @@ (Server :> 1)
BothTwo == (Client :> 2) @@ (Server :> 2)
BothFive == (Client :> 5) @@ (Server :> 5)

\* write budgets
NoData == (Client :> 0) @@ (Server :> 0)
TwoAndOne == (Client :> 2) @@ (Server :> 1)
ClientOnly2 == (Client :> 2) @@ (Server :> 0)
ClientOnly7 == (Client :> 7) @@ (Server :> 0)

\* A connection the handshake has set up; then after its first message of one
\* byte: at the sender, where it is acknowledged, and at the receiver, whose
\* application has it.
up(e) == [establish(NewConnection, 0) EXCEPT !.remote_window_size = Window[Peer(e)]]
acked_once(e) == call_send_handler(take_ack(set_send_handler(up(e), Run(0, 1)), 1))
taken_once(e) == call_rcv_handler(set_rcv_handler(take_data(up(e), Run(0, 1))))

\* A state every handshake can reach: both connections are valid, the timers of
\* the handshake have fired and found nothing to repeat, the network is empty.
Established ==
  /\ connections = [e \in Endpoint |-> TRUE]
  /\ open = [e \in Endpoint |-> TRUE]
  /\ conn = [e \in Endpoint |-> up(e)]
  /\ timers = [e \in Endpoint |-> {}]
  /\ finishing = [e \in Endpoint |-> 0]
  /\ net = {}
  /\ written = [e \in Endpoint |-> 0]
  /\ accepted = [e \in Endpoint |-> 0]
  /\ delivered = [e \in Endpoint |-> <<>>]
  /\ life = [e \in Endpoint |-> 1]

\* After Established: the client's first message has arrived, its second and the
\* server's first have been sent and lost.
BothWrite ==
  /\ connections = [e \in Endpoint |-> TRUE]
  /\ open = [e \in Endpoint |-> TRUE]
  /\ conn = (Client :> set_send_handler(acked_once(Client), Run(1, 1)))
            @@ (Server :> set_send_handler(taken_once(Server), Run(0, 1)))
  /\ timers = (Client :> {Arm("send", 1)}) @@ (Server :> {Arm("send", 0), Arm("ack", 1)})
  /\ finishing = [e \in Endpoint |-> 0]
  /\ net = {}
  /\ written = (Client :> 2) @@ (Server :> 1)
  /\ accepted = (Client :> 0) @@ (Server :> 1)
  /\ delivered = (Client :> <<>>) @@ (Server :> <<1>>)
  /\ life = [e \in Endpoint |-> 1]

\* After Init: the client's first message has arrived, then FINs have gone both
\* ways.  The SYN's timer, the segment's and the acknowledgement's are still
\* armed, and a repeated acknowledgement may be in flight.
BetweenLives ==
  /\ connections = [e \in Endpoint |-> TRUE]
  /\ open = [e \in Endpoint |-> TRUE]
  /\ conn = (Client :> reset(acked_once(Client))) @@ (Server :> reset(taken_once(Server)))
  /\ timers = (Client :> {Arm("syn", -1), Arm("send", 0)}) @@ (Server :> {Arm("ack", 1)})
  /\ finishing = [e \in Endpoint |-> 0]
  /\ net \in {{}, {Ack(Client, 0)}, {Ack(Server, 1)}}
  /\ written = (Client :> 1) @@ (Server :> 0)
  /\ accepted = (Client :> 0) @@ (Server :> 1)
  /\ delivered = (Client :> <<>>) @@ (Server :> <<1>>)
  /\ life = [e \in Endpoint |-> 1]

EstSpec == Established /\ [][Next]_vars
ReopenSpec == BetweenLives /\ [][Next]_vars
FairBothSpec == BothWrite /\ [][Next]_vars /\ TransferFairness
=============================================================================
