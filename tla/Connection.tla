----------------------------- MODULE Connection -----------------------------
(***************************************************************************)
(* The methods of rtp::Connection (connection.cpp) as operators on the     *)
(* connection's fields.  A connection is a record c whose field names are  *)
(* the members declared in rtp.hpp:252-298; a method that changes members  *)
(* maps a record to a record, and what it puts on the wire or which timer  *)
(* it arms is a separate operator of the record it runs on.  The module    *)
(* declares no variables: Rtp composes the methods into event handlers.    *)
(*                                                                         *)
(* Data is abstracted to byte identities: byte k of an application's       *)
(* outgoing stream is the number k, so a buffer is a sequence of numbers.  *)
(* Sequence numbers are unbounded here; the int of the code wraps after    *)
(* 2^31 bytes on one connection.                                           *)
(***************************************************************************)
EXTENDS Integers, Sequences

CONSTANTS
  MSS,         \* data bytes of a full segment: the literal 930 of the code
  Span,        \* bytes a data checksum reads: sizeof(bytes) = 8 in create_checksum
  MaxCwnd,     \* the congestion window's cap: 40000 / 930 in inc_congestion
  MaxTimeout   \* MAX_TIMEOUT_COUNT of rtp.hpp

ASSUME SegmentAssumption == MSS \in Nat \ {0} /\ Span \in 1..MSS
ASSUME LimitAssumption == MaxCwnd \in Nat \ {0} /\ MaxTimeout \in Nat

\* remote_window_size is not in the constructor's initialiser list; Unset
\* stands for the indeterminate value it then has.
Unset == -1

ConnectionType ==
  [ sequence_no : Int, valid : BOOLEAN, congestion_window : Nat,
    rcv_window : Seq(Nat), valid_rcv_handler : BOOLEAN,
    write_buff : Seq(Nat), valid_send_handler : BOOLEAN,
    timeout_count : Nat, remote_window_size : Int,
    old_sequence_no : Int, write_index : Nat, send_sequence_no : Int ]

NewConnection ==
  [ sequence_no |-> -2, valid |-> FALSE, congestion_window |-> 1,
    rcv_window |-> <<>>, valid_rcv_handler |-> FALSE,
    write_buff |-> <<>>, valid_send_handler |-> FALSE,
    timeout_count |-> 0, remote_window_size |-> Unset,
    old_sequence_no |-> 0, write_index |-> 0, send_sequence_no |-> 0 ]

-----------------------------------------------------------------------------
(* Establishment and shutdown *)

establish(c, n) ==
  [c EXCEPT !.sequence_no = n, !.valid = TRUE, !.timeout_count = 0,
            !.write_index = 0, !.old_sequence_no = c.send_sequence_no]

\* Fault: the remote window is left as a new Connection has it.
reset_window_unset(c) == [NewConnection EXCEPT !.write_buff = c.write_buff]

\* Fault: the send that was outstanding stays outstanding.
reset_keeps_send(c) ==
  [NewConnection EXCEPT !.write_buff = c.write_buff, !.remote_window_size = 0,
                        !.valid_send_handler = c.valid_send_handler]

\* handle_fin puts every field but the write buffer back to its default, and
\* the remote window to 0.  Both registered callbacks have been told.
reset(c) ==
  [NewConnection EXCEPT !.write_buff = c.write_buff, !.remote_window_size = 0]

-----------------------------------------------------------------------------
(* Sending *)

set_send_handler(c, buff) ==
  [c EXCEPT !.write_buff = buff, !.valid_send_handler = TRUE,
            !.write_index = IF c.valid THEN 0 ELSE @,
            !.old_sequence_no = IF c.valid THEN c.send_sequence_no ELSE @]

\* The data of the datagram: up to congestion_window segments of at most MSS
\* bytes, contiguous from write_index.
package_message(c) ==
  LET last == c.write_index + c.congestion_window * MSS
  IN  SubSeq(c.write_buff, c.write_index + 1,
             IF last < Len(c.write_buff) THEN last ELSE Len(c.write_buff))

package_seq(c) == c.old_sequence_no + c.write_index

sending(c) == c.valid_send_handler /\ c.valid

\* Fault: the length of the buffer is taken for the number of its last byte.
call_send_handler_first_only(c) ==
  IF c.valid_send_handler /\ c.send_sequence_no >= Len(c.write_buff)
  THEN [c EXCEPT !.valid_send_handler = FALSE, !.old_sequence_no = c.send_sequence_no]
  ELSE c

\* Fault: complete one byte early.
call_send_handler_early(c) ==
  IF c.valid_send_handler /\ c.send_sequence_no + 1 >= Len(c.write_buff) + c.old_sequence_no
  THEN [c EXCEPT !.valid_send_handler = FALSE, !.old_sequence_no = c.send_sequence_no]
  ELSE c

call_send_handler(c) ==
  IF c.valid_send_handler /\ c.send_sequence_no >= Len(c.write_buff) + c.old_sequence_no
  THEN [c EXCEPT !.valid_send_handler = FALSE, !.old_sequence_no = c.send_sequence_no]
  ELSE c

after_send(c) == IF sending(c) THEN call_send_handler(c) ELSE c

\* Fault: one segment more than the window holds.
inc_congestion_beyond(c) ==
  IF c.congestion_window <= c.remote_window_size \div MSS /\ c.congestion_window <= MaxCwnd
  THEN [c EXCEPT !.congestion_window = @ + 1]
  ELSE c

inc_congestion(c) ==
  IF c.congestion_window < c.remote_window_size \div MSS /\ c.congestion_window < MaxCwnd
  THEN [c EXCEPT !.congestion_window = @ + 1]
  ELSE c

\* Fault: an old acknowledgement is taken like a new one.
take_ack_any(c, n) ==
  [inc_congestion([c EXCEPT !.send_sequence_no = n, !.write_index = n - c.old_sequence_no])
   EXCEPT !.timeout_count = 0]

\* What handle_rcv does with an acknowledgement before it calls send().
take_ack(c, n) ==
  LET acked == IF n >= c.send_sequence_no
               THEN [c EXCEPT !.send_sequence_no = n, !.write_index = n - c.old_sequence_no]
               ELSE c
  IN  [inc_congestion(acked) EXCEPT !.timeout_count = 0]

\* Fault: the window is decremented below zero.
halve_congestion_below(c) == [c EXCEPT !.congestion_window = @ - 1]

halve_congestion(c) == [c EXCEPT !.congestion_window = @ \div 2]

inc_timeout(c) ==
  IF c.timeout_count < MaxTimeout THEN [c EXCEPT !.timeout_count = @ + 1] ELSE c

\* Fault: the count never gets beyond its own limit.
timed_out_never(c) == c.timeout_count > MaxTimeout

\* inc_timeout closes the connection instead of counting any further.
timed_out(c) == c.timeout_count >= MaxTimeout

-----------------------------------------------------------------------------
(* What a timer finds: the segment it guards still waits for an answer *)

\* Fault: the segment that waits for the very next number is given up.
handshake_waits_less(c, next) == c.sequence_no < next - 1

\* handle_connection_timeout, with the next_seq_no bound to the timer
handshake_waits(c, next) == c.sequence_no < next

\* Fault: the segment the timer guards counts as acknowledged.
segment_waits_less(c, next) == c.send_sequence_no < next /\ c.valid

\* handle_send_timeout
segment_waits(c, next) == c.send_sequence_no <= next /\ c.valid

\* Fault: the latest acknowledgement counts as answered.
ack_waits_less(c, next) == c.valid /\ c.sequence_no < next

\* handle_ack_timeout
ack_waits(c, next) == c.valid /\ c.sequence_no <= next

-----------------------------------------------------------------------------
(* Receiving *)

\* How many of the n bytes of an in-sequence datagram the segment loop can
\* take.  The checksum of a segment shorter than Span reads past the end of
\* its buffer, so sender and receiver may compute different values for it.
accepted_lengths(n) ==
  {n} \cup {k \in 0..(n - 1) : k % MSS = 0 /\ n - k < Span}

\* Fault: the same data is expected again.
take_data_again(c, data) == [c EXCEPT !.rcv_window = @ \o data, !.timeout_count = 0]

take_data(c, data) ==
  [c EXCEPT !.rcv_window = @ \o data, !.sequence_no = @ + Len(data), !.timeout_count = 0]

\* The bytes call_rcv_handler gives the application, and what it leaves.
passed_back(c) == IF c.valid_rcv_handler THEN c.rcv_window ELSE <<>>

call_rcv_handler(c) ==
  IF c.valid_rcv_handler
  THEN [c EXCEPT !.rcv_window = <<>>, !.valid_rcv_handler = FALSE]
  ELSE c

set_rcv_handler(c) == [c EXCEPT !.valid_rcv_handler = TRUE]

=============================================================================
