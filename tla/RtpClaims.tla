------------------------------ MODULE RtpClaims ------------------------------
(***************************************************************************)
(* What comments in rtp.hpp say of the protocol and the code, as modelled  *)
(* by Rtp, does not do.  Each property is refuted by a run of its own;     *)
(* README.md tells the counterexamples.                                    *)
(***************************************************************************)
EXTENDS Rtp

\* rtp.hpp:170-171: on a send timeout "the congestion window is decreased and
\* data is resent from the current sequence number".  Halving a congestion
\* window of 1 leaves 0 segments to send.
ResendCarriesData ==
  [][\A e \in Endpoint : \A t \in timers[e] :
       SendTimeout(e, t) =>
         \E d \in net' : /\ d.kind = "data" /\ d.dst = Peer(e)
                         /\ d.seq = package_seq(conn[e])]_vars

\* rtp.hpp:107-108: "if there is a timeout in the connection establishment
\* process, resend the packet that was timed out".  The final ACK's timer
\* compares with the number the connection already has, and never resends.
HandshakeCompletes ==
  (conn[Client].valid /\ open[Server]) ~> (life[Server] > 0 \/ ~open[Server])

=============================================================================
