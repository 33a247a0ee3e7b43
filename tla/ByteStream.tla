----------------------------- MODULE ByteStream -----------------------------
(***************************************************************************)
(* What a connection promises the two programs that use it, said without   *)
(* datagrams, timers or sequence numbers: each endpoint writes one stream  *)
(* of bytes and is given a prefix of the stream the other one writes; a    *)
(* send is reported complete only when the other endpoint has taken all of *)
(* it; a connection that is down stays as it is and reports every          *)
(* outstanding send as failed.  RtpService shows that Rtp implements it.   *)
(* Byte k of a stream is the number k.                                     *)
(***************************************************************************)
EXTENDS Integers, Sequences

CONSTANTS
  Client, Server,  \* the two endpoints
  MessageSizes     \* sizes of the buffers applications send

VARIABLES
  written,    \* bytes the application of an endpoint has written
  taken,      \* bytes of the other's stream an endpoint has taken
  delivered,  \* the bytes of them its application has been given
  pending,    \* whether a send of the endpoint has not been reported yet
  phase       \* "new" before the connection is set up, "up", then "down"

service == <<written, taken, delivered, pending, phase>>

Endpoint == {Client, Server}
Peer(e) == IF e = Client THEN Server ELSE Client

\* The first n bytes of a stream.
First(n) == [i \in 1..n |-> i]

Init ==
  /\ written = [e \in Endpoint |-> 0]
  /\ taken = [e \in Endpoint |-> 0]
  /\ delivered = [e \in Endpoint |-> <<>>]
  /\ pending = [e \in Endpoint |-> FALSE]
  /\ phase = [e \in Endpoint |-> "new"]

\* A send starts; one of no bytes may be reported at once.
Write(e) ==
  /\ ~pending[e]
  /\ \E n \in MessageSizes :
       /\ written' = [written EXCEPT ![e] = @ + n]
       /\ \/ pending' = [pending EXCEPT ![e] = TRUE]
          \/ n = 0 /\ UNCHANGED pending
  /\ UNCHANGED <<taken, delivered, phase>>

\* The connection comes up or moves on.
Progress(e) ==
  /\ phase[e] # "down"
  /\ phase' = [phase EXCEPT ![e] = "up"]
  /\ \E n \in taken[e]..written[Peer(e)] :
       /\ taken' = [taken EXCEPT ![e] = n]
       /\ \/ UNCHANGED delivered
          \/ delivered' = [delivered EXCEPT ![e] = First(n)]
  /\ \/ UNCHANGED pending
     \/ /\ taken[Peer(e)] = written[e]
        /\ pending' = [pending EXCEPT ![e] = FALSE]
  /\ UNCHANGED written

GoDown(e) ==
  /\ phase' = [phase EXCEPT ![e] = "down"]
  /\ pending' = [pending EXCEPT ![e] = FALSE]
  /\ UNCHANGED <<written, taken, delivered>>

Next == \E e \in Endpoint : Write(e) \/ Progress(e) \/ GoDown(e)

Spec == Init /\ [][Next]_service

=============================================================================
