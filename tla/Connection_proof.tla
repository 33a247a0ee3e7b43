----------------------------- MODULE Connection_proof -----------------------------
(***************************************************************************)
(* What the operators of Connection preserve and return, for every value   *)
(* of the constants.  Rtp_proof cites these lemmas by name.                *)
(***************************************************************************)
EXTENDS Connection, SequenceTheorems, TLAPS

\* Assigning a field a value of its type keeps a record a connection.
LEMMA FieldUpdate ==
  ASSUME NEW c \in ConnectionType
  PROVE  /\ \A n \in Int : /\ [c EXCEPT !.sequence_no = n] \in ConnectionType
                           /\ [c EXCEPT !.remote_window_size = n] \in ConnectionType
                           /\ [c EXCEPT !.old_sequence_no = n] \in ConnectionType
                           /\ [c EXCEPT !.send_sequence_no = n] \in ConnectionType
         /\ \A b \in BOOLEAN : /\ [c EXCEPT !.valid = b] \in ConnectionType
                               /\ [c EXCEPT !.valid_rcv_handler = b] \in ConnectionType
                               /\ [c EXCEPT !.valid_send_handler = b] \in ConnectionType
         /\ \A n \in Nat : /\ [c EXCEPT !.congestion_window = n] \in ConnectionType
                           /\ [c EXCEPT !.timeout_count = n] \in ConnectionType
             /\ [c EXCEPT !.write_index = n] \in ConnectionType
                           /\ [c EXCEPT !.write_index = n] \in ConnectionType
         /\ \A s \in Seq(Nat) : /\ [c EXCEPT !.rcv_window = s] \in ConnectionType
                                /\ [c EXCEPT !.write_buff = s] \in ConnectionType
<1>1. ASSUME NEW n \in Int
      PROVE  /\ [c EXCEPT !.sequence_no = n] \in ConnectionType
             /\ [c EXCEPT !.remote_window_size = n] \in ConnectionType
             /\ [c EXCEPT !.old_sequence_no = n] \in ConnectionType
             /\ [c EXCEPT !.send_sequence_no = n] \in ConnectionType
  BY DEF ConnectionType
<1>2. ASSUME NEW b \in BOOLEAN
      PROVE  /\ [c EXCEPT !.valid = b] \in ConnectionType
             /\ [c EXCEPT !.valid_rcv_handler = b] \in ConnectionType
             /\ [c EXCEPT !.valid_send_handler = b] \in ConnectionType
  BY DEF ConnectionType
<1>3. ASSUME NEW n \in Nat
      PROVE  /\ [c EXCEPT !.congestion_window = n] \in ConnectionType
             /\ [c EXCEPT !.timeout_count = n] \in ConnectionType
             /\ [c EXCEPT !.write_index = n] \in ConnectionType
  BY DEF ConnectionType
<1>4. ASSUME NEW s \in Seq(Nat)
      PROVE  /\ [c EXCEPT !.rcv_window = s] \in ConnectionType
             /\ [c EXCEPT !.write_buff = s] \in ConnectionType
  BY DEF ConnectionType
<1> QED BY <1>1, <1>2, <1>3, <1>4

LEMMA ZeroUpdate ==
  ASSUME NEW c \in ConnectionType
  PROVE  /\ [c EXCEPT !.write_index = 0] \in ConnectionType
         /\ [c EXCEPT !.remote_window_size = 0] \in ConnectionType
         /\ [c EXCEPT !.timeout_count = 0] \in ConnectionType
<1>1. 0 \in Int /\ 0 \in Nat
  OBVIOUS
<1> QED BY Zenon, <1>1, FieldUpdate

LEMMA NewConnectionType == NewConnection \in ConnectionType
BY DEF NewConnection, ConnectionType, Unset

\* establish starts the send at the connection's own number with nothing sent.
LEMMA EstablishFields ==
  ASSUME NEW c \in ConnectionType, NEW n \in Int, NEW d, d = establish(c, n)
  PROVE  /\ d \in ConnectionType
         /\ d.sequence_no = n /\ d.valid /\ d.write_index = 0
         /\ d.old_sequence_no = c.send_sequence_no
         /\ d.send_sequence_no = c.send_sequence_no
         /\ d.valid_send_handler = c.valid_send_handler
         /\ d.write_buff = c.write_buff
         /\ d.rcv_window = c.rcv_window
         /\ d.valid_rcv_handler = c.valid_rcv_handler
<1> DEFINE c1 == [c EXCEPT !.sequence_no = n]
           c2 == [c1 EXCEPT !.valid = TRUE]
           c3 == [c2 EXCEPT !.timeout_count = 0]
           c4 == [c3 EXCEPT !.write_index = 0]
           c5 == [c4 EXCEPT !.old_sequence_no = c.send_sequence_no]
<1>1. c1 \in ConnectionType
  BY FieldUpdate
<1>2. c2 \in ConnectionType
  <2> HIDE DEF c1
  <2> QED BY <1>1, FieldUpdate
<1>3. c3 \in ConnectionType
  <2> HIDE DEF c2
  <2> QED BY <1>2, FieldUpdate
<1>4. c4 \in ConnectionType
  <2> HIDE DEF c3
  <2> QED BY <1>3, ZeroUpdate
<1>5. c5 \in ConnectionType
  <2>1. c.send_sequence_no \in Int
    BY DEF ConnectionType
  <2> HIDE DEF c4
  <2> QED BY <1>4, <2>1, FieldUpdate
<1>6. d = c5
  BY DEF establish
<1>7. /\ d.sequence_no = n /\ d.valid /\ d.write_index = 0
      /\ d.old_sequence_no = c.send_sequence_no
      /\ d.send_sequence_no = c.send_sequence_no
      /\ d.valid_send_handler = c.valid_send_handler
      /\ d.write_buff = c.write_buff
      /\ d.rcv_window = c.rcv_window
      /\ d.valid_rcv_handler = c.valid_rcv_handler
  BY DEF establish, ConnectionType
<1> QED BY <1>5, <1>6, <1>7

LEMMA ResetFields ==
  ASSUME NEW c \in ConnectionType, NEW d, d = reset(c)
  PROVE  /\ d \in ConnectionType
         /\ ~d.valid /\ d.rcv_window = <<>>
         /\ d.send_sequence_no = 0 /\ d.old_sequence_no = 0 /\ ~d.valid_send_handler
<1> DEFINE c1 == [NewConnection EXCEPT !.write_buff = c.write_buff]
<1>1. c1 \in ConnectionType
  <2>1. c.write_buff \in Seq(Nat)
    BY DEF ConnectionType
  <2> QED BY <2>1, NewConnectionType, FieldUpdate
<1>2. [c1 EXCEPT !.remote_window_size = 0] \in ConnectionType
  <2> HIDE DEF c1
  <2> QED BY <1>1, ZeroUpdate
<1>3. d = [c1 EXCEPT !.remote_window_size = 0]
  BY DEF reset
<1>4. /\ ~d.valid /\ d.rcv_window = <<>> /\ ~d.valid_send_handler
      /\ d.send_sequence_no = 0 /\ d.old_sequence_no = 0
  BY DEF reset, NewConnection
<1> QED BY <1>2, <1>3, <1>4

LEMMA SetSendHandlerFields ==
  ASSUME NEW c \in ConnectionType, NEW buff \in Seq(Nat), NEW d, d = set_send_handler(c, buff)
  PROVE  /\ d \in ConnectionType
         /\ d.write_buff = buff /\ d.valid_send_handler
         /\ d.valid = c.valid /\ d.send_sequence_no = c.send_sequence_no
         /\ d.sequence_no = c.sequence_no /\ d.rcv_window = c.rcv_window
         /\ d.valid_rcv_handler = c.valid_rcv_handler
         /\ d.remote_window_size = c.remote_window_size
         /\ d.timeout_count = c.timeout_count
         /\ d.congestion_window = c.congestion_window
         /\ c.valid => d.write_index = 0 /\ d.old_sequence_no = c.send_sequence_no
         /\ ~c.valid => d.write_index = c.write_index /\ d.old_sequence_no = c.old_sequence_no
<1> DEFINE i == IF c.valid THEN 0 ELSE c.write_index
           o == IF c.valid THEN c.send_sequence_no ELSE c.old_sequence_no
           c1 == [c EXCEPT !.write_buff = buff]
           c2 == [c1 EXCEPT !.valid_send_handler = TRUE]
           c3 == [c2 EXCEPT !.write_index = i]
           c4 == [c3 EXCEPT !.old_sequence_no = o]
<1>0. i \in Nat /\ o \in Int
  BY DEF ConnectionType
<1>1. c1 \in ConnectionType
  BY FieldUpdate
<1>2. c2 \in ConnectionType
  <2> HIDE DEF c1
  <2> QED BY <1>1, FieldUpdate
<1>3. c3 \in ConnectionType
  <2> HIDE DEF c2, i
  <2> QED BY <1>0, <1>2, FieldUpdate
<1>4. c4 \in ConnectionType
  <2> HIDE DEF c3, o
  <2> QED BY <1>0, <1>3, FieldUpdate
<1>5. d = c4
  BY DEF set_send_handler
<1>6. /\ d.write_buff = buff /\ d.valid_send_handler
      /\ d.valid = c.valid /\ d.send_sequence_no = c.send_sequence_no
      /\ d.sequence_no = c.sequence_no /\ d.rcv_window = c.rcv_window
      /\ d.valid_rcv_handler = c.valid_rcv_handler
      /\ d.remote_window_size = c.remote_window_size
      /\ d.timeout_count = c.timeout_count
      /\ d.congestion_window = c.congestion_window
  BY DEF set_send_handler, ConnectionType
<1>7. d.write_index = i /\ d.old_sequence_no = o
  BY DEF set_send_handler, ConnectionType
<1> QED BY <1>4, <1>5, <1>6, <1>7

\* after_send ends a send whose last byte is acknowledged and touches no other.
LEMMA AfterSendFields ==
  ASSUME NEW c \in ConnectionType, NEW d, d = after_send(c)
  PROVE  /\ d \in ConnectionType
         /\ d.valid = c.valid /\ d.send_sequence_no = c.send_sequence_no
         /\ d.sequence_no = c.sequence_no /\ d.rcv_window = c.rcv_window
         /\ d.valid_rcv_handler = c.valid_rcv_handler
         /\ d.write_buff = c.write_buff /\ d.write_index = c.write_index
         /\ d.congestion_window = c.congestion_window
         /\ d.remote_window_size = c.remote_window_size
         /\ d.valid_send_handler <=>
              /\ c.valid_send_handler
              /\ c.valid => c.send_sequence_no < Len(c.write_buff) + c.old_sequence_no
         /\ d.valid_send_handler => d.old_sequence_no = c.old_sequence_no
         /\ d.old_sequence_no \in {c.old_sequence_no, c.send_sequence_no}
<1> DEFINE c1 == [c EXCEPT !.valid_send_handler = FALSE]
           c2 == [c1 EXCEPT !.old_sequence_no = c.send_sequence_no]
<1>0. /\ c.send_sequence_no \in Int /\ c.old_sequence_no \in Int
      /\ Len(c.write_buff) \in Nat
      /\ c.valid \in BOOLEAN /\ c.valid_send_handler \in BOOLEAN
  BY DEF ConnectionType
<1>1. c1 \in ConnectionType
  BY FieldUpdate
<1>2. c2 \in ConnectionType
  <2>1. \A n \in Int : [c1 EXCEPT !.old_sequence_no = n] \in ConnectionType
    <3> HIDE DEF c1
    <3> QED BY Zenon, <1>1, FieldUpdate
  <2> QED BY <1>0, <2>1
<1>3. CASE /\ c.valid /\ c.valid_send_handler
           /\ c.send_sequence_no >= Len(c.write_buff) + c.old_sequence_no
  <2>1. d = c2
    BY <1>3 DEF after_send, sending, call_send_handler
  <2>2. /\ d.valid = c.valid /\ d.send_sequence_no = c.send_sequence_no
        /\ d.sequence_no = c.sequence_no /\ d.rcv_window = c.rcv_window
        /\ d.valid_rcv_handler = c.valid_rcv_handler
        /\ d.write_buff = c.write_buff /\ d.write_index = c.write_index
        /\ d.congestion_window = c.congestion_window
        /\ d.remote_window_size = c.remote_window_size
        /\ ~d.valid_send_handler
        /\ d.old_sequence_no = c.send_sequence_no
    BY <2>1 DEF ConnectionType
  <2>3. d \in ConnectionType
    BY <1>2, <2>1
  <2>4. ~(c.send_sequence_no < Len(c.write_buff) + c.old_sequence_no)
    BY <1>0, <1>3
  <2> QED BY <1>3, <2>2, <2>3, <2>4
<1>4. CASE ~ (/\ c.valid /\ c.valid_send_handler
              /\ c.send_sequence_no >= Len(c.write_buff) + c.old_sequence_no)
  <2>1. d = c
    BY <1>4 DEF after_send, sending, call_send_handler
  <2> QED BY <1>0, <1>4, <2>1
<1> QED BY <1>3, <1>4

LEMMA IncCongestionFields ==
  ASSUME NEW c \in ConnectionType, NEW d, d = inc_congestion(c)
  PROVE  /\ d \in ConnectionType
         /\ d.valid = c.valid /\ d.send_sequence_no = c.send_sequence_no
         /\ d.sequence_no = c.sequence_no /\ d.rcv_window = c.rcv_window
         /\ d.valid_rcv_handler = c.valid_rcv_handler
         /\ d.write_buff = c.write_buff /\ d.write_index = c.write_index
         /\ d.valid_send_handler = c.valid_send_handler
         /\ d.old_sequence_no = c.old_sequence_no
         /\ d.remote_window_size = c.remote_window_size
<1>1. [c EXCEPT !.congestion_window = @ + 1] \in ConnectionType
  <2>1. c.congestion_window + 1 \in Nat
    BY DEF ConnectionType
  <2> QED BY <2>1, FieldUpdate
<1>2. CASE d = c
  BY <1>2
<1>3. CASE d = [c EXCEPT !.congestion_window = @ + 1]
  BY <1>1, <1>3 DEF ConnectionType
<1> QED BY <1>2, <1>3 DEF inc_congestion

\* An acknowledgement moves send_sequence_no to itself or not at all.
LEMMA TakeAckFields ==
  ASSUME NEW c \in ConnectionType, c.old_sequence_no <= c.send_sequence_no,
         NEW n \in Int, NEW d, d = take_ack(c, n)
  PROVE  /\ d \in ConnectionType
         /\ d.valid = c.valid
         /\ d.sequence_no = c.sequence_no /\ d.rcv_window = c.rcv_window
         /\ d.valid_rcv_handler = c.valid_rcv_handler
         /\ d.write_buff = c.write_buff
         /\ d.valid_send_handler = c.valid_send_handler
         /\ d.old_sequence_no = c.old_sequence_no
         /\ d.remote_window_size = c.remote_window_size
         /\ d.old_sequence_no <= d.send_sequence_no
         /\ n >= c.send_sequence_no =>
              d.send_sequence_no = n /\ d.write_index = n - c.old_sequence_no
         /\ ~(n >= c.send_sequence_no) =>
              d.send_sequence_no = c.send_sequence_no /\ d.write_index = c.write_index
<1> DEFINE c1 == [c EXCEPT !.send_sequence_no = n]
           c2 == [c1 EXCEPT !.write_index = n - c.old_sequence_no]
           a == IF n >= c.send_sequence_no THEN c2 ELSE c
           b == inc_congestion(a)
<1>1. c1 \in ConnectionType
  BY FieldUpdate
<1>2. ASSUME n >= c.send_sequence_no
      PROVE  c2 \in ConnectionType
  <2>1. n - c.old_sequence_no \in Nat
    BY <1>2 DEF ConnectionType
  <2> HIDE DEF c1
  <2> QED BY <1>1, <2>1, FieldUpdate
<1>3. /\ a \in ConnectionType
      /\ a.valid = c.valid
      /\ a.sequence_no = c.sequence_no /\ a.rcv_window = c.rcv_window
      /\ a.valid_rcv_handler = c.valid_rcv_handler
      /\ a.write_buff = c.write_buff
      /\ a.valid_send_handler = c.valid_send_handler
      /\ a.old_sequence_no = c.old_sequence_no
      /\ a.remote_window_size = c.remote_window_size
      /\ n >= c.send_sequence_no =>
           a.send_sequence_no = n /\ a.write_index = n - c.old_sequence_no
      /\ ~(n >= c.send_sequence_no) =>
           a.send_sequence_no = c.send_sequence_no /\ a.write_index = c.write_index
  <2>1. CASE n >= c.send_sequence_no
    BY <2>1, <1>2 DEF ConnectionType
  <2>2. CASE ~(n >= c.send_sequence_no)
    BY <2>2
  <2> QED BY <2>1, <2>2
<1> HIDE DEF a
<1>4. /\ b \in ConnectionType
      /\ b.valid = a.valid /\ b.send_sequence_no = a.send_sequence_no
      /\ b.sequence_no = a.sequence_no /\ b.rcv_window = a.rcv_window
      /\ b.valid_rcv_handler = a.valid_rcv_handler
      /\ b.write_buff = a.write_buff /\ b.write_index = a.write_index
      /\ b.valid_send_handler = a.valid_send_handler
      /\ b.old_sequence_no = a.old_sequence_no
      /\ b.remote_window_size = a.remote_window_size
  BY <1>3, IncCongestionFields
<1>5. d = [b EXCEPT !.timeout_count = 0]
  BY DEF take_ack, a
<1> HIDE DEF b
<1>6. /\ d \in ConnectionType
      /\ d.valid = b.valid /\ d.send_sequence_no = b.send_sequence_no
      /\ d.sequence_no = b.sequence_no /\ d.rcv_window = b.rcv_window
      /\ d.valid_rcv_handler = b.valid_rcv_handler
      /\ d.write_buff = b.write_buff /\ d.write_index = b.write_index
      /\ d.valid_send_handler = b.valid_send_handler
      /\ d.old_sequence_no = b.old_sequence_no
      /\ d.remote_window_size = b.remote_window_size
  <2>1. d \in ConnectionType
    BY <1>4, <1>5, ZeroUpdate
  <2> QED BY <1>4, <1>5, <2>1 DEF ConnectionType
<1>7. d.old_sequence_no <= d.send_sequence_no
  <2>1. c.old_sequence_no \in Int /\ c.send_sequence_no \in Int
    BY DEF ConnectionType
  <2> QED BY <1>3, <1>4, <1>6, <2>1
<1> QED BY <1>3, <1>4, <1>6, <1>7

LEMMA TimeoutFields ==
  ASSUME NEW c \in ConnectionType, NEW d, d = inc_timeout(c) \/ d = halve_congestion(c)
  PROVE  /\ d \in ConnectionType
         /\ d.valid = c.valid /\ d.send_sequence_no = c.send_sequence_no
         /\ d.sequence_no = c.sequence_no /\ d.rcv_window = c.rcv_window
         /\ d.valid_rcv_handler = c.valid_rcv_handler
         /\ d.write_buff = c.write_buff /\ d.write_index = c.write_index
         /\ d.valid_send_handler = c.valid_send_handler
         /\ d.old_sequence_no = c.old_sequence_no
         /\ d.remote_window_size = c.remote_window_size
<1>1. CASE d = c
  BY <1>1
<1>2. CASE d = [c EXCEPT !.timeout_count = @ + 1]
  <2>1. c.timeout_count + 1 \in Nat
    BY DEF ConnectionType
  <2>2. d \in ConnectionType
    BY <1>2, <2>1, FieldUpdate
  <2> QED BY <1>2, <2>2 DEF ConnectionType
<1>3. CASE d = [c EXCEPT !.congestion_window = @ \div 2]
  <2>1. c.congestion_window \div 2 \in Nat
    BY DEF ConnectionType
  <2>2. d \in ConnectionType
    BY <1>3, <2>1, FieldUpdate
  <2> QED BY <1>3, <2>2 DEF ConnectionType
<1> QED BY <1>1, <1>2, <1>3 DEF inc_timeout, halve_congestion

LEMMA AcceptedLengths ==
  ASSUME NEW n \in Nat
  PROVE  accepted_lengths(n) \subseteq 0..n
BY DEF accepted_lengths

LEMMA TakeDataFields ==
  ASSUME NEW c \in ConnectionType, NEW data \in Seq(Nat), NEW d, d = take_data(c, data)
  PROVE  /\ d \in ConnectionType
         /\ d.valid = c.valid /\ d.send_sequence_no = c.send_sequence_no
         /\ d.sequence_no = c.sequence_no + Len(data)
         /\ d.rcv_window = c.rcv_window \o data
         /\ d.valid_rcv_handler = c.valid_rcv_handler
         /\ d.write_buff = c.write_buff /\ d.write_index = c.write_index
         /\ d.valid_send_handler = c.valid_send_handler
         /\ d.old_sequence_no = c.old_sequence_no
         /\ d.remote_window_size = c.remote_window_size
<1> DEFINE w == c.rcv_window \o data
           n == c.sequence_no + Len(data)
           c1 == [c EXCEPT !.rcv_window = w]
           c2 == [c1 EXCEPT !.sequence_no = n]
<1>1. w \in Seq(Nat) /\ n \in Int
  BY DEF ConnectionType
<1>2. c1 \in ConnectionType
  <2> HIDE DEF w
  <2> QED BY <1>1, FieldUpdate
<1>3. c2 \in ConnectionType
  <2> HIDE DEF c1, n
  <2> QED BY Zenon, <1>1, <1>2, FieldUpdate
<1>4. d = [c2 EXCEPT !.timeout_count = 0]
  BY DEF take_data
<1>5. d \in ConnectionType
  <2> HIDE DEF c2
  <2> QED BY <1>3, <1>4, ZeroUpdate
<1>6. /\ d.valid = c.valid /\ d.send_sequence_no = c.send_sequence_no
      /\ d.valid_rcv_handler = c.valid_rcv_handler
      /\ d.write_buff = c.write_buff /\ d.write_index = c.write_index
      /\ d.valid_send_handler = c.valid_send_handler
      /\ d.old_sequence_no = c.old_sequence_no
      /\ d.remote_window_size = c.remote_window_size
  BY DEF take_data, ConnectionType
<1>7. d.sequence_no = n /\ d.rcv_window = w
  BY DEF take_data, ConnectionType
<1> QED BY <1>5, <1>6, <1>7

\* The receive callback empties the window into the application's buffer.
LEMMA ReceiveHandlerFields ==
  ASSUME NEW c \in ConnectionType, NEW d, d = call_rcv_handler(c)
  PROVE  /\ d \in ConnectionType
         /\ d.valid = c.valid /\ d.send_sequence_no = c.send_sequence_no
         /\ d.sequence_no = c.sequence_no
         /\ d.write_buff = c.write_buff /\ d.write_index = c.write_index
         /\ d.valid_send_handler = c.valid_send_handler
         /\ d.old_sequence_no = c.old_sequence_no
         /\ d.remote_window_size = c.remote_window_size
         /\ passed_back(c) \in Seq(Nat)
         /\ passed_back(c) \o d.rcv_window = c.rcv_window
<1>0. <<>> \in Seq(Nat) /\ c.rcv_window \in Seq(Nat)
  BY DEF ConnectionType
<1>1. CASE c.valid_rcv_handler
  <2> DEFINE c1 == [c EXCEPT !.rcv_window = <<>>]
             c2 == [c1 EXCEPT !.valid_rcv_handler = FALSE]
  <2>1. c1 \in ConnectionType
    BY <1>0, FieldUpdate
  <2>2. c2 \in ConnectionType
    <3> HIDE DEF c1
    <3> QED BY <2>1, FieldUpdate
  <2>3. d = c2
    BY <1>1 DEF call_rcv_handler
  <2>4. d \in ConnectionType
    BY <2>2, <2>3
  <2>5. /\ d.valid = c.valid /\ d.send_sequence_no = c.send_sequence_no
        /\ d.sequence_no = c.sequence_no
        /\ d.write_buff = c.write_buff /\ d.write_index = c.write_index
        /\ d.valid_send_handler = c.valid_send_handler
        /\ d.old_sequence_no = c.old_sequence_no
        /\ d.remote_window_size = c.remote_window_size
        /\ d.rcv_window = <<>>
    BY <2>3 DEF ConnectionType
  <2>6. passed_back(c) = c.rcv_window
    BY <1>1 DEF passed_back
  <2>7. c.rcv_window \o <<>> = c.rcv_window
    BY <1>0, ConcatEmptySeq
  <2> QED BY <1>0, <2>4, <2>5, <2>6, <2>7
<1>2. CASE ~c.valid_rcv_handler
  <2>1. d = c /\ passed_back(c) = <<>>
    BY <1>2 DEF call_rcv_handler, passed_back
  <2>2. <<>> \o c.rcv_window = c.rcv_window
    BY <1>0, ConcatEmptySeq
  <2> QED BY <1>0, <2>1, <2>2
<1> QED BY <1>1, <1>2

LEMMA SetRcvHandlerFields ==
  ASSUME NEW c \in ConnectionType, NEW d, d = set_rcv_handler(c)
  PROVE  /\ d \in ConnectionType
         /\ d.valid = c.valid /\ d.send_sequence_no = c.send_sequence_no
         /\ d.sequence_no = c.sequence_no /\ d.rcv_window = c.rcv_window
         /\ d.write_buff = c.write_buff /\ d.write_index = c.write_index
         /\ d.valid_send_handler = c.valid_send_handler
         /\ d.old_sequence_no = c.old_sequence_no
         /\ d.remote_window_size = c.remote_window_size
<1>1. d \in ConnectionType
  BY FieldUpdate DEF set_rcv_handler
<1> QED BY <1>1 DEF set_rcv_handler, ConnectionType

\* A datagram holds a slice of the write buffer that starts at write_index.
LEMMA PackageSlice ==
  ASSUME NEW c \in ConnectionType, NEW m, m = package_message(c)
  PROVE  /\ m \in Seq(Nat)
         /\ c.write_index >= Len(c.write_buff) => m = <<>>
         /\ m # <<>> =>
              /\ c.write_index + Len(m) <= Len(c.write_buff)
              /\ \A i \in 1..Len(m) : m[i] = c.write_buff[c.write_index + i]
<1> DEFINE last == c.write_index + c.congestion_window * MSS
           to == IF last < Len(c.write_buff) THEN last ELSE Len(c.write_buff)
<1>1. /\ c.write_index \in Nat /\ Len(c.write_buff) \in Nat /\ c.write_buff \in Seq(Nat)
      /\ c.congestion_window \in Nat /\ MSS \in Nat
  BY SegmentAssumption DEF ConnectionType
<1>2. last \in Nat /\ c.write_index <= last
  <2>1. c.congestion_window * MSS \in Nat
    BY <1>1
  <2> QED BY <1>1, <2>1
<1>3. to \in Nat /\ to <= Len(c.write_buff)
  BY <1>1, <1>2
<1>4. m = SubSeq(c.write_buff, c.write_index + 1, to)
  BY DEF package_message
<1> HIDE DEF to, last
<1> DEFINE from == c.write_index + 1
<1>5. /\ m \in Seq(Nat)
      /\ Len(m) = IF from <= to THEN to - from + 1 ELSE 0
      /\ \A i \in 1..(to - from + 1) : m[i] = c.write_buff[from + i - 1]
  <2>1. from \in Int /\ to \in Int /\ from >= 1
    BY <1>1, <1>3
  <2>2. \A i \in from..to : c.write_buff[i] \in Nat
    BY <1>1, <1>3, <2>1
  <2>3. m = SubSeq(c.write_buff, from, to)
    BY <1>4
  <2> HIDE DEF from
  <2>4. m \in Seq(Nat)
    BY <2>1, <2>2, <2>3, SubSeqProperties
  <2>5. Len(m) = IF from <= to THEN to - from + 1 ELSE 0
    BY <1>1, <2>1, <2>2, <2>3, SubSeqProperties
  <2>6. \A i \in 1..(to - from + 1) : m[i] = c.write_buff[from + i - 1]
    <3> DEFINE s == c.write_buff
    <3>1. s \in Seq(Nat) /\ m = SubSeq(s, from, to) /\ \A i \in from..to : s[i] \in Nat
      BY <1>1, <2>2, <2>3
    <3> HIDE DEF s
    <3>2. \A i \in 1..(to - from + 1) : m[i] = s[from + i - 1]
      BY <2>1, <3>1, SubSeqProperties
    <3> QED BY <3>2 DEF s
  <2> QED BY <2>4, <2>5, <2>6
<1>6. Len(m) = 0 => m = <<>>
  BY <1>5
<1>7. c.write_index >= Len(c.write_buff) => m = <<>>
  BY <1>1, <1>3, <1>5, <1>6
<1>8. ASSUME m # <<>>
      PROVE  /\ c.write_index + Len(m) <= Len(c.write_buff)
             /\ \A i \in 1..Len(m) : m[i] = c.write_buff[c.write_index + i]
  <2>1. Len(m) = to - from + 1
    BY <1>1, <1>3, <1>5, <1>6, <1>8
  <2>2. c.write_index + Len(m) <= Len(c.write_buff)
    BY <1>1, <1>3, <2>1
  <2>3. \A i \in 1..Len(m) : m[i] = c.write_buff[c.write_index + i]
    <3> SUFFICES ASSUME NEW i \in 1..Len(m)
                 PROVE  m[i] = c.write_buff[c.write_index + i]
      OBVIOUS
    <3>1. i \in 1..(to - from + 1)
      BY <2>1
    <3>2. m[i] = c.write_buff[from + i - 1]
      BY <1>5, <3>1
    <3>3. from + i - 1 = c.write_index + i
      BY <1>1
    <3> QED BY <3>2, <3>3
  <2> QED BY <2>2, <2>3
<1> QED BY <1>5, <1>7, <1>8

=============================================================================
