------------------------------- MODULE Framing -------------------------------
(***************************************************************************)
(* One datagram, from the segments it is packed of to what its receiver    *)
(* makes of it: the frames of packed_message.h, the two checksums of       *)
(* socket.cpp, the segment loop of handle_rcv and the head of              *)
(* connection_establishment.  Rtp takes a datagram for one message; this   *)
(* module shows that it may, and what becomes of a datagram that is        *)
(* damaged on its way.                                                     *)
(*                                                                         *)
(* A CRC is taken to be the bytes it is made of: two that differ in one    *)
(* field differ.  A segment that is cut off has lost its last field, the   *)
(* header checksum; what is read at a wrong place in a datagram, or behind *)
(* its end, where the buffer is zero, fails the header checksum too.       *)
(***************************************************************************)
EXTENDS Connection, SequencesExt

CONSTANT MaxBytes  \* bound on the bytes in a write buffer

Damaged == -3  \* a byte or number that is not the one sent

ASSUME MaxBytesAssumption == MaxBytes \in Nat

VARIABLES
  before,        \* the receiving connection when the datagram arrives
  sent,          \* the frames of the datagram as they were sent
  wire,          \* the frames as they arrive
  same_memory,   \* whether the bytes behind a short segment are the sender's
  outcome        \* what the receiver makes of them

vars == <<before, sent, wire, same_memory, outcome>>

\* Bytes m to n of a buffer, or to its end.
slice(s, m, n) == SubSeq(s, m, IF n < Len(s) THEN n ELSE Len(s))

Pending == [conn |-> NewConnection, fin |-> FALSE, done |-> FALSE]

-----------------------------------------------------------------------------
(* Segments and their checksums *)

\* The header is packed into a struct, of which sizeof of a pointer covers the
\* number and the flags but not receive_window.
create_header_checksum(seg) == <<seg.sequence_no, seg.ack, seg.syn, seg.fin>>

\* Fault: the flags are not covered.
check_header_checksum_number(seg) ==
  seg.header_checksum # <<>> /\ Head(seg.header_checksum) = seg.sequence_no

check_header_checksum(seg) == seg.header_checksum = create_header_checksum(seg)

\* Span bytes whatever the size of the data; behind a short segment they are
\* bytes of the heap.
create_data_checksum(data) == slice(data, 1, Span)

\* Fault: the data checksum is compared for full segments only.
check_data_checksum_full(seg) ==
  Len(seg.data) < MSS \/ seg.data_checksum = create_data_checksum(seg.data)

check_data_checksum(seg) ==
  IF seg.data = <<>> THEN seg.data_checksum = <<>>
  ELSE /\ IsPrefix(create_data_checksum(seg.data), seg.data_checksum)
       /\ Len(seg.data) < Span => same_memory

Segment(n, ack, syn, fin, window, data) ==
  LET seg == [sequence_no |-> n, ack |-> ack, syn |-> syn, fin |-> fin,
              receive_window |-> window, data |-> data,
              data_checksum |-> create_data_checksum(data), header_checksum |-> <<>>]
  IN  [seg EXCEPT !.header_checksum = create_header_checksum(seg)]

\* PackedMessage::pack puts the segment's length in front of it.
pack(seg) == [length |-> "right", segment |-> seg]

AckFrame(n)    == pack(Segment(n, TRUE, FALSE, FALSE, 0, <<>>))
SynFrame(w)    == pack(Segment(-2, FALSE, TRUE, FALSE, w, <<>>))
SynAckFrame(w) == pack(Segment(-1, TRUE, TRUE, FALSE, w, <<>>))
FinFrame       == pack(Segment(0, FALSE, FALSE, TRUE, 0, <<>>))

\* Fault: every segment has the number of the first.
package_frames_one_number(c) ==
  LET data == package_message(c)
  IN  [i \in 1..((Len(data) + MSS - 1) \div MSS) |->
         pack(Segment(package_seq(c), FALSE, FALSE, FALSE, 0,
                      slice(data, MSS * (i - 1) + 1, MSS * i)))]

\* The loop of package_message.
package_frames(c) ==
  LET data == package_message(c)
  IN  [i \in 1..((Len(data) + MSS - 1) \div MSS) |->
         pack(Segment(package_seq(c) + MSS * (i - 1), FALSE, FALSE, FALSE, 0,
                      slice(data, MSS * (i - 1) + 1, MSS * i)))]

-----------------------------------------------------------------------------
(* Reading *)

\* Whether the length leaves the segment whole.
unpacks(frame) == frame.length # "short"

\* One turn of the loop in handle_rcv on r, whose field going says that the
\* loop has not been left.  A frame whose length is damaged to more than 1000,
\* or more than the buffer has, is not unpacked; one that is a little too long
\* is, and the next frame is not found.
handle_segment(r, frame) ==
  LET seg == frame.segment
      stop(fin) == [conn |-> r.conn, fin |-> fin, going |-> FALSE]
      go_on(c) == [conn |-> c, fin |-> r.fin, going |-> frame.length # "long"]
  IN  CASE \/ ~r.going
           \/ ~unpacks(frame) \/ frame.length \in {"too long", "beyond"}
           \/ ~check_header_checksum(seg) \/ ~check_data_checksum(seg) -> stop(r.fin)
        [] OTHER ->
             CASE seg.ack -> go_on(after_send(take_ack(r.conn, seg.sequence_no)))
               [] ~seg.ack /\ seg.fin -> stop(TRUE)
               [] ~seg.ack /\ ~seg.fin /\ seg.sequence_no = r.conn.sequence_no ->
                    go_on(take_data(r.conn, seg.data))
               [] OTHER -> stop(r.fin)

\* The loop: where it is after each of its turns.
turns(start, frames) ==
  LET turn[j \in 0..Len(frames)] ==
        IF j = 0 THEN start ELSE handle_segment(turn[j - 1], frames[j])
  IN  turn

handle_rcv(c, frames) ==
  LET r == turns([conn |-> c, fin |-> FALSE, going |-> TRUE], frames)[Len(frames)]
  IN  [conn |-> r.conn, fin |-> r.fin, done |-> TRUE]

\* Only the first segment counts and only its header is checked, until data
\* makes the connection valid and handle_rcv reads all of it again.  Of a frame
\* longer than the buffer 930 bytes are unpacked, which cuts a full segment.
connection_establishment(c, frames) ==
  LET frame == Head(frames)
      seg == frame.segment
      becomes(d) == [conn |-> d, fin |-> FALSE, done |-> TRUE]
  IN  CASE \/ ~unpacks(frame)
           \/ frame.length = "beyond" /\ Len(seg.data) = MSS
           \/ ~check_header_checksum(seg) -> becomes(c)
        [] OTHER ->
             CASE seg.syn /\ seg.sequence_no = -2 ->
                    becomes([c EXCEPT !.sequence_no = -1, !.remote_window_size = seg.receive_window])
               [] seg.syn /\ seg.ack /\ seg.sequence_no = -1 ->
                    becomes(after_send(
                      establish([c EXCEPT !.remote_window_size = seg.receive_window], 0)))
               [] seg.ack /\ seg.sequence_no = 0 -> becomes(after_send(establish(c, 0)))
               [] seg.data # <<>> /\ seg.sequence_no = 0 /\ c.sequence_no = -1 ->
                    handle_rcv(establish(c, 0), frames)
               [] OTHER -> becomes(c)

multiplex(c, frames) ==
  IF c.valid THEN handle_rcv(c, frames) ELSE connection_establishment(c, frames)

-----------------------------------------------------------------------------
(* Behaviour *)

Bytes(n) == [k \in 1..n |-> k]

\* The sender of a message of n bytes that has i of them acknowledged.
Sender(n, i, cwnd) ==
  [establish(NewConnection, 0) EXCEPT !.write_buff = Bytes(n), !.write_index = i,
     !.send_sequence_no = i, !.congestion_window = cwnd, !.valid_send_handler = TRUE]

\* A receiver that is set up and sends a message itself, or one that is not.
Receivers ==
  { [establish(NewConnection, n) EXCEPT !.write_buff = Bytes(MaxBytes),
       !.valid_send_handler = TRUE, !.remote_window_size = MSS] : n \in 0..MaxBytes }
  \cup { [NewConnection EXCEPT !.sequence_no = n] : n \in {-2, -1} }

Datagrams ==
  ({ package_frames(Sender(n, i, cwnd)) :
       n \in 1..MaxBytes, i \in 0..(MaxBytes - 1), cwnd \in 1..MaxCwnd } \ {<<>>})
  \cup { <<AckFrame(n)>> : n \in 0..MaxBytes }
  \cup { <<SynFrame(MSS)>>, <<SynAckFrame(MSS)>>, <<FinFrame>> }

Init ==
  /\ before \in Receivers
  /\ sent \in Datagrams
  /\ wire = sent
  /\ same_memory \in BOOLEAN
  /\ outcome = Pending

\* What a field may turn into.  A length of data that is too small cuts the
\* data; one that is too large swallows the checksums.
Damages(seg) ==
  { [seg EXCEPT !.sequence_no = n] : n \in -2..MaxBytes }
  \cup { [seg EXCEPT !.ack = ~@], [seg EXCEPT !.syn = ~@], [seg EXCEPT !.fin = ~@],
         [seg EXCEPT !.receive_window = Damaged], [seg EXCEPT !.data_checksum = <<Damaged>>],
         [seg EXCEPT !.header_checksum = <<>>] }
  \cup { [seg EXCEPT !.data[k] = Damaged] : k \in 1..Len(seg.data) }
  \cup { [seg EXCEPT !.data = SubSeq(@, 1, k)] : k \in 0..(Len(seg.data) - 1) }

DamageSegment ==
  /\ ~outcome.done /\ wire = sent
  /\ \E i \in 1..Len(wire) : \E seg \in Damages(wire[i].segment) :
       wire' = [wire EXCEPT ![i].segment = seg]
  /\ UNCHANGED <<before, sent, same_memory, outcome>>

DamageLength ==
  /\ ~outcome.done /\ wire = sent
  /\ \E i \in 1..Len(wire) : \E length \in {"short", "long", "too long", "beyond"} :
       wire' = [wire EXCEPT ![i].length = length]
  /\ UNCHANGED <<before, sent, same_memory, outcome>>

Read ==
  /\ ~outcome.done
  /\ outcome' = multiplex(before, wire)
  /\ UNCHANGED <<before, sent, wire, same_memory>>

Next == DamageSegment \/ DamageLength \/ Read

Spec == Init /\ [][Next]_vars

-----------------------------------------------------------------------------
IsData == ~sent[1].segment.ack /\ ~sent[1].segment.syn /\ ~sent[1].segment.fin

\* The data of the first j frames sent, for each j, and of all of them.
joined ==
  LET data[j \in 0..Len(sent)] ==
        IF j = 0 THEN <<>> ELSE data[j - 1] \o sent[j].segment.data
  IN  data
SentBytes == joined[Len(sent)]

\* The receiver's connection once it is set up, if data sets it up.
Ready == IF before.valid THEN before ELSE establish(before, 0)

\* However a datagram is damaged, the connection that reads it stays well typed:
\* no acknowledgement takes write_index or the congestion window below zero, and
\* a wrong value is left in rcv_window and remote_window_size only.
TypeOK ==
  /\ same_memory \in BOOLEAN /\ outcome.fin \in BOOLEAN
  /\ [outcome.conn EXCEPT !.rcv_window = <<>>] \in ConnectionType
  /\ outcome.conn.rcv_window \in Seq(Nat \cup {Damaged})

\* What is made of an undamaged data datagram is what Rtp's HandleData lets it
\* be.  The one that has the number expected is taken in one piece, all of it or
\* all but a short last segment; any other changes nothing.  A connection that is
\* not set up expects 0, and only once it has answered a SYN.
LoopTakesARun ==
  outcome.done /\ wire = sent /\ IsData =>
    IF /\ Ready.sequence_no = sent[1].segment.sequence_no
       /\ before.valid \/ before.sequence_no = -1
    THEN \E k \in accepted_lengths(Len(SentBytes)) :
           outcome.conn = IF k > 0 THEN take_data(Ready, SubSeq(SentBytes, 1, k)) ELSE Ready
    ELSE outcome.conn = before

\* A control segment that is damaged does what it would have done undamaged,
\* or nothing, but for the window it carries: none is taken for another one,
\* for data, or for an acknowledgement of other bytes.
ControlIsAllOrNothing ==
  LET but_window(r) == <<[r.conn EXCEPT !.remote_window_size = 0], r.fin>>
      nothing == [conn |-> before, fin |-> FALSE]
  IN  outcome.done /\ ~IsData =>
        but_window(outcome) \in { but_window(multiplex(before, sent)), but_window(nothing) }

\* A damaged data datagram never acts as anything but data, moves the number
\* by what is taken, and brings wrong bytes only where no checksum looks: the
\* bytes of a segment behind the first Span.
DamageIsContained ==
  LET c == outcome.conn
      start == sent[1].segment.sequence_no
  IN  outcome.done /\ IsData =>
        /\ ~outcome.fin
        /\ \/ c = before
           \/ /\ c = take_data(Ready, c.rcv_window)
              /\ \A k \in 1..Len(c.rcv_window) :
                   LET n == Ready.sequence_no + k IN
                   \/ c.rcv_window[k] = n
                   \/ c.rcv_window[k] = Damaged /\ (n - start - 1) % MSS >= Span

=============================================================================
