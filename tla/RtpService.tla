----------------------------- MODULE RtpService -----------------------------
(***************************************************************************)
(* Rtp implements ByteStream in the first life of a connection.            *)
(***************************************************************************)
EXTENDS RtpInvariant

\* A connection is new until it first becomes valid; once reset, it is down.
phase ==
  [e \in Endpoint |->
     IF conn[e].valid THEN "up" ELSE IF life[e] = 0 THEN "new" ELSE "down"]

pending == [e \in Endpoint |-> conn[e].valid_send_handler]

Service == INSTANCE ByteStream WITH taken <- accepted

\* Every behaviour of two endpoints, whatever the network and the timers do,
\* is one of the byte stream service: data arrives in order, once and only if
\* it was written, a send that is reported done has arrived, and nothing
\* happens on a connection that is down.
ImplementsByteStream == Service!Spec

=============================================================================
