---------------------------- MODULE RtpInvariant ----------------------------
(***************************************************************************)
(* The inductive invariant behind DeliveredIsPrefix and NoFalseCompletion  *)
(* of Rtp.  It speaks of the first life of the connections: of what stands *)
(* in the fields, datagrams and timers until one of them is made valid     *)
(* again after a close.  Delivery_proof proves it, a run checks it.         *)
(***************************************************************************)
EXTENDS Rtp

\* What the receiving half of e's connection has taken is a prefix of what the
\* peer wrote; the application has it or it waits in rcv_window.
ReceiverInv(e) ==
  /\ accepted[e] <= written[Peer(e)]
  /\ conn[e].valid =>
       /\ conn[e].sequence_no = accepted[e]
       /\ delivered[e] \o conn[e].rcv_window = Run(0, accepted[e])
  /\ ~conn[e].valid =>
       /\ conn[e].rcv_window = <<>>
       /\ Len(delivered[e]) <= accepted[e]
       /\ delivered[e] = Run(0, Len(delivered[e]))

\* Connection c is sending the last bytes of a stream of w: write_buff is its
\* tail, write_index the offset there of the first unacknowledged byte.  With
\* no send outstanding, everything is acknowledged.
SendsUpTo(c, w) ==
  /\ ~c.valid_send_handler => c.send_sequence_no = w
  /\ c.valid_send_handler =>
       /\ c.old_sequence_no \in 0..c.send_sequence_no
       /\ c.send_sequence_no <= w
       /\ c.write_index = c.send_sequence_no - c.old_sequence_no
       /\ w = c.old_sequence_no + Len(c.write_buff)
       /\ c.write_buff = Run(c.old_sequence_no, Len(c.write_buff))

SenderInv(e) ==
  conn[e].valid =>
    /\ conn[e].send_sequence_no \in 0..accepted[Peer(e)]
    /\ SendsUpTo(conn[e], written[e])

\* Before it is first valid, a connection has sent and received no data.
UnusedInv(e) ==
  life[e] = 0 =>
    /\ ~conn[e].valid /\ accepted[e] = 0 /\ delivered[e] = <<>>
    /\ conn[e].send_sequence_no = 0
    /\ ~conn[e].valid_send_handler => written[e] = 0
    /\ conn[e].valid_send_handler =>
         /\ written[e] = Len(conn[e].write_buff)
         /\ conn[e].write_buff = Run(0, Len(conn[e].write_buff))

\* No timer outlives its send: one that would still fire guards a byte that is
\* not acknowledged.  A timer firing without a send would repeat bytes of an
\* old buffer under a new sequence number.
TimerInv(e) ==
  \A t \in timers[e] : t.kind = "send" =>
    /\ life[e] > 0
    /\ conn[e].valid =>
         /\ t.next <= conn[e].send_sequence_no
         /\ t.next < written[e]

\* Every data datagram carries bytes the sender's application wrote, under
\* their own numbers; every acknowledgement is of bytes the receiver took.
NetInv(d) ==
  /\ d.kind = "data" =>
       /\ d.data = Run(d.seq, Len(d.data))
       /\ 0 <= d.seq /\ d.seq + Len(d.data) <= written[Peer(d.dst)]
  /\ d.kind = "ack" => d.seq \in 0..accepted[Peer(d.dst)]
  /\ d.kind = "synack" => d.seq = -1

StreamInv ==
  /\ \A e \in Endpoint : ReceiverInv(e) /\ SenderInv(e) /\ UnusedInv(e) /\ TimerInv(e)
  /\ \A d \in net : NetInv(d)

\* Before create_connection the client's side of the connection is untouched.
FreshInv ==
  ~connections[Client] =>
    /\ conn[Client] = NewConnection
    /\ written[Client] = 0 /\ life[Client] = 0 /\ finishing[Client] = 0

IInv ==
  /\ TypeOK
  /\ SendStartsBeforeNext
  /\ FreshInv
  /\ FirstLife => StreamInv

=============================================================================
