-------------------------------- MODULE Link --------------------------------
(***************************************************************************)
(* What a connection is to the two programs that hold its ends, a client   *)
(* and a server: ByteStream in its first life, with what the programs see  *)
(* beyond it.  Every datagram that arrives, an acknowledgement or a        *)
(* repeated one too, ends in call_rcv_handler, so a handler is called with *)
(* whatever has been taken, often with nothing; and on an acknowledgement  *)
(* the send handler runs before the receive handler.                       *)
(*                                                                         *)
(* The unit of data is the segment.  The handlers of the programs (Fta,    *)
(* Db) are operators on a record w of the state they can reach, of which   *)
(* the field link is the connection; a handler maps such a record to a     *)
(* record.  The module declares no variables: Programs composes the        *)
(* handlers into steps.                                                    *)
(***************************************************************************)
EXTENDS Integers, Sequences

Side == {"client", "server"}
Other(s) == IF s = "client" THEN "server" ELSE "client"

\* The k-th segment of a message; n tells the messages of a kind apart.
Segment(kind, n, k) == [kind |-> kind, n |-> n, k |-> k]
Message(kind, n, size) == [k \in 1..size |-> Segment(kind, n, k)]

\* A receive handler and the arguments that are bound to it.
Handler(name, n, size, index) ==
  [name |-> name, n |-> n, size |-> size, current_index |-> index]
NoHandler == Handler("none", 0, 0, 0)

NewLink ==
  [ up |-> [s \in Side |-> TRUE],
    sent |-> [s \in Side |-> <<>>],      \* what has been given to async_send
    acked |-> [s \in Side |-> 0],        \* how much of it is acknowledged
    taken |-> [s \in Side |-> 0],        \* how much of the other's has arrived
    handed |-> [s \in Side |-> 0],       \* how much of that the program has
    send_handler |-> [s \in Side |-> "none"],
    valid_send_handler |-> [s \in Side |-> FALSE],
    rcv_handler |-> [s \in Side |-> NoHandler],
    valid_rcv_handler |-> [s \in Side |-> FALSE],
    garbled |-> FALSE ]                  \* see Garble

\* From here on the programs misread each other, and the model stops
\* following the connection.
Garble(w) == [w EXCEPT !.link.garbled = TRUE]

\* The rcv_window of a side.
unread(w, s) == SubSeq(w.link.sent[Other(s)], w.link.handed[s] + 1, w.link.taken[s])

\* async_rcv up to the test whether rcv_window holds something.  That is all
\* of it in a receive handler, which has just been handed the rcv_window.
register(w, s, h) ==
  [w EXCEPT !.link.rcv_handler[s] = h, !.link.valid_rcv_handler[s] = TRUE]

\* Fault: the rcv_window is not emptied.
hand_over_again(w, s) == [w EXCEPT !.link.valid_rcv_handler[s] = FALSE]

\* What call_rcv_handler does before it calls the handler.
hand_over(w, s) ==
  [w EXCEPT !.link.handed[s] = w.link.taken[s], !.link.valid_rcv_handler[s] = FALSE]

\* A send of nothing is complete at once.  One that starts before the last is
\* acknowledged replaces the buffer but not the numbers of the bytes sent.
async_send(w, s, segments, h) ==
  [w EXCEPT !.link.garbled = @ \/ w.link.acked[s] < Len(w.link.sent[s]),
            !.link.sent[s] = @ \o segments,
            !.link.send_handler[s] = h,
            !.link.valid_send_handler[s] = segments # <<>>]

\* The end of handle_fin, after both handlers have been told.
take_down(w, s) ==
  [w EXCEPT !.link.up[s] = FALSE, !.link.valid_send_handler[s] = FALSE,
            !.link.valid_rcv_handler[s] = FALSE]

\* Fault: the acknowledgement of any segment counts for all of them.
all_acked_any(w, s) == w.link.valid_send_handler[s]

\* Whether call_send_handler finds the send complete.
all_acked(w, s) ==
  w.link.valid_send_handler[s] /\ w.link.acked[s] = Len(w.link.sent[s])

=============================================================================
