# A verification model of RTP and its programs

`rtp::Socket` and `rtp::Connection` (`src/socket.cpp`, `src/connection.cpp`,
`src/rtp.hpp`) implement a reliable, connection-oriented byte stream over UDP
with Boost.Asio: a three-way handshake, cumulative acknowledgements, go-back
retransmission on 200 ms timers, a congestion window, and FIN. Two pairs of
programs use it: a file-transfer client and server and a database query client
and engine. This directory holds TLA+ modules that model the protocol and the
programs as the code implements them, TLC configurations that check them on
small instances, and proofs checked by TLAPS.

## 1. Inventory

| Component | State it keeps | Operations | Modelled in |
|---|---|---|---|
| `Connection` (`connection.cpp`) | numbers of both directions, `valid`, `congestion_window`, `timeout_count`, `remote_window_size`, write buffer and index, receive window, the two handlers | `async_send`, `async_rcv`, `close_connection`, `handle_rcv`, `handle_send`/`_timeout`, `handle_ack`/`_timeout`, `handle_fin`, `inc_timeout`, `inc_congestion` | `Connection`, `Rtp` |
| timers (`timer_vec`, `new_timer`, `delete_timer`) | armed deadline timers, each bound to a `next_seq_no` | arm, fire, re-arm, drop | `Rtp`, without time |
| `Socket` handshake | `valid`, the map entry's numbers | `create_connection`, `connection_establishment`, `handle_connection_est`/`_timeout`, `close` | `Rtp` |
| `Socket` connection table | `connections` map, `is_server`, `receiver` | `multiplex`, `create_receiver`, `delete_connection` | partly: one entry in `Rtp`, a server with several clients in `Programs` |
| checksums, framing (`socket.cpp:411-499`, `packed_message.h`, the loops of `package_message` and `handle_rcv`) | none | pack, unpack, CRC of header and data | `Framing` |
| FTA server (`ftaserver.cpp`) | `not_sending`, `not_receiving` (globals of the process) | `rcv_respond`, `get`, `post`, `final_send` | `Fta`, `Programs` |
| FTA client (`ftaclient.cpp`) | the same two flags, the progress of a get | `accept_command`, `handle_req`, `client_get_handler`, `post`, `client_finish` | `Fta`, `Programs` |
| database engine and client | none beyond the connection | one query, one answer | `Db`, `Programs` |
| `*.pb.h`, `*.pb.cc`, `makefile` | | generated code, build rules | no |

Each process runs one `io_service::run()` thread, so a completion handler is
atomic within a process; the interleavings are those of several processes, of
the handlers and timers queued in each, and of the datagrams in flight. The
parts talk through

* calls: application → `Connection` (`async_send`, `async_rcv`,
  `close_connection`), `Connection` → `Socket` (`udp_send_to`);
* callbacks: `receiver` when a connection becomes valid, the send handler when
  the last byte is acknowledged, the receive handler when a datagram was
  processed; both handlers with `killed = true` from `handle_fin`;
* datagrams, which UDP loses, reorders and repeats;
* timers, which keep numbers from the time they were armed;
* in the file server, two flags shared by the connections of all clients.

What is hard here: acknowledgements, retransmissions and timers that arrive or
fire after the state they belong to is gone (a completed send, a finished
handshake, a closed connection); the handshake, in which each of three segments
may be lost or late and data may overtake the last; the congestion window, which
may shrink to 0; a shutdown whose only message is sent once; checksums that do
not cover what they seem to; and programs whose handlers see a stream in chunks
that end anywhere, and that must agree on where a command ends.

What makes the parts correct:

* the stream: what an application receives is a prefix of what the other one
  wrote; a send reported complete is complete; nothing achieved is undone;
* retransmission: as long as something is unacknowledged, a timer that will act
  on it is armed, and every send ends in success or failure if some of what is
  repeated arrives;
* flow control: a datagram respects the peer's advertised window, and that
  window is known before it is used;
* connection: a client that keeps trying gets connected; an endpoint whose peer
  died notices;
* framing: what the receiver takes of a datagram is a contiguous run of bytes
  under their own numbers, and damage does not turn one segment into another;
* programs: files and answers arrive whole, a request ends when both its halves
  are done, every command ends.

`PROJECT.json` lists the hazards one by one, with their lines.

## 2. Modules

    Connection ─┬─ Rtp ─┬─ RtpInvariant ─┬─ RtpService (INSTANCE ByteStream) ─┬─ MCRtp (TLC)
                │       │                │                                    │
                │       └─ RtpClaims ────┼────────────────────────────────────┘
                │                        └─ Connection_proof ── Rtp_proof ── Delivery_proof
                │                               ── Service_proof ── Flow_proof ── Guard_proof
                └─ Framing (TLC) ── Framing_proof

    Link ─┬─ Fta ─┬─ Programs ─┬─ MCPrograms (TLC)
          └─ Db ──┘            └─ Programs_proof

* **Connection**: the methods of `rtp::Connection` as operators on a record of
  its members, with the members' names; no variables. The operators marked
  *Fault*, here and elsewhere, are plausible mistakes in a method; nothing
  refers to them, and a run with a method replaced by its faulty form must
  violate the property it is paired with in `PROJECT.json`.
* **Rtp**: two endpoints and the network. An action is a completion handler or
  an application call, whole: `ReceiveAck`, for example, is `multiplex` →
  `handle_rcv` on an acknowledgement, with the `inc_congestion`,
  `reset_timeout`, `send`, `call_send_handler` and `call_rcv_handler` it runs.
* **ByteStream**: what a connection promises, without datagrams, timers or
  numbers: two streams, what has been taken and handed on of each, sends that
  are reported, a connection that is new, up, then down. **RtpService** maps
  the state of `Rtp` to it; `ImplementsByteStream` is `ByteStream`'s `Spec`.
* **RtpClaims**: what comments say and the code does not do.
* **RtpInvariant**: the inductive invariant `IInv`.
* **Framing**: one datagram, packed of frames, damaged or not, and read.
* **Link**: a connection as the programs see it. **Fta**, **Db**: their
  handlers, as operators on a record of the state they can reach.
  **Programs**: the steps made of them, two clients at one server.
* **MCRtp**, **MCPrograms**: instances for TLC. `Framing` needs none.
* The **_proof** modules: lemmas about the methods, type correctness, the byte
  stream, the refinement, windows, and timers; of `Framing`, the loop over the
  frames of a datagram; and of `Programs`, the handlers and the way of a file.

How the layers fit. `Rtp` treats a data datagram as one contiguous run of
bytes; `LoopTakesARun` of `Framing` is that this is what the loop of
`handle_rcv` makes of it. `Programs` does not repeat the protocol: a `Link` is
what `ByteStream` promises in one life (streams arrive in order, an
acknowledgement means that the peer's Connection has the bytes), which is
checked and proved of `Rtp`, plus two things the service does not mention and
the programs depend on: every datagram ends in `call_rcv_handler`, so a handler
may be called with nothing, and the send handler runs before the receive
handler. Where a program breaks the premise of that layer, by sending while
another send is outstanding, `Link` sets `garbled` and the model stops there;
`NeverGarbled` says that this does not happen.

### Rtp: state and code

| Variable | Code |
|---|---|
| `connections[e]` | whether `Socket::connections` has an entry for the peer |
| `open[e]` | `Socket::valid`; once `close()` clears it the `io_service` is stopped and no handler of `e` runs any more |
| `conn[e]` | the `Connection` object of the entry, field by field |
| `timers[e]` | armed timers: `kind` is the handler and segment, `next` the bound `next_seq_no` |
| `finishing[e]` | FINs passed to `udp_send_to` whose completion `handle_fin` has not run |
| `net` | datagrams in flight |
| `written`, `accepted`, `delivered`, `life` | history, read by properties, by the bounds and by `Holds` only |

Decisions a reader should know:

* **Data.** Byte *k* of an application's output is the number *k*, so a buffer
  is a sequence of consecutive numbers and a mixed-up byte is visible. A data
  datagram is the contiguous run of bytes of its segments.
* **Short segments.** `create_checksum` reads `sizeof(uint8_t*)` = 8 bytes
  whatever the segment's length. For a shorter segment the checksum depends on
  memory behind the buffer, so sender and receiver may disagree:
  `accepted_lengths` lets the loop stop before the last, short segment. `Span`
  stands for the 8, `MSS` for the 930.
* **End of a datagram.** `handle_rcv` walks a 50000-byte zero-filled buffer;
  behind the datagram it finds a segment of length 0 whose header checksum is
  wrong, and stops.
* **Uninitialised field.** `remote_window_size` is missing from the
  constructor's list; it starts as `Unset`, and `WindowKnownWhenValid` shows
  that it is not read before it is set.
* **Time.** All deadlines are 200 ms and network delay is unbounded, so an
  armed timer may fire at any time. A timer that acts is re-armed by the
  completion of its send; the model keeps it armed.
* **Send and arm are one step.** The completion handlers of data, ACK and
  handshake datagrams only arm a timer with values bound when the datagram was
  sent. The completion of a FIN runs `handle_fin`, and is a step of its own.
* **Sets of timers** forget how many timers of one kind guard one number; any
  of them may fire repeatedly, so the behaviours of several are included.
* **Callbacks** are the actions `AsyncSend`, `AsyncRcv`, `CloseConnection`,
  `CloseSocket`, which can follow at once or later. `Holds` says from when the
  application has the connection object: the client from `create_connection`,
  the server from the first call of `receiver`. Applications start a send only
  when none is outstanding; that the programs do is `NeverGarbled`.
* **A SYN-ACK at a valid connection** has `ack` set and the number -1, and is
  taken by `handle_rcv` for an acknowledgement of -1: old, but it still resets
  the timeout count and sends again (`ReceiveAck`).
* **Data in a handshake** (`ReceiveFirstData`): a server at number -1 takes the
  first data for the final ACK.
* **Empty datagrams**, which a timeout at window 0 sends, are dropped by
  `multiplex` (`bytes_transferred` = 0) and are not put on `net`.

### Framing: state and code

A behaviour is one datagram: `before` is the receiving `Connection`, `sent`
and `wire` the frames as packed by `package_message` (or one control segment)
and as they arrive, `outcome` what `multiplex` leaves. `same_memory` is the
heap behind a short segment: whether sender and receiver read the same there.
One field or one length may be damaged on the way. `turns` is the loop of
`handle_rcv`, a recursive function of the frame it is at.

* A CRC is taken to be what it is made of, so two that differ in one place
  differ. What the code covers is kept exactly: of the header the number and
  the flags (`size` is that of a pointer, `socket.cpp:447`), not
  `receive_window`; of the data its first 8 bytes (`Span`).
* A length that is damaged comes in four kinds: too small (the segment loses
  its tail and with it the header checksum), a little too large (it unpacks,
  but the next frame is not found), above 1000 and above what the buffer holds
  (not unpacked; in `connection_establishment` cut to 930 bytes).
* Left out: `send_ack` of the loop and the `call_rcv_handler` behind it, which
  `Rtp` has; and the wire format below the fields. Two facts of the generated
  code are relied on: a truncated message keeps the fields before the cut, and
  a zero tag ends a message.

### Programs: state and code

| Variable | Code |
|---|---|
| `server` | the globals `not_sending`, `not_receiving` of `ftaserver.cpp`, one pair for all clients |
| `client[i]` | the globals of `ftaclient.cpp`, which command it is at, whether it waits for its user, the file (or answer) it has |
| `link[i]` | the connection: what was sent, has arrived, was handed on and is acknowledged at each side, and the handlers installed |
| `posted[i]` | the file the server stores for client `i` |
| `script` | what the users will type |

* A step is a line typed, or a datagram's arrival with everything the program
  does in it. `accept_command` reads the terminal inside a handler, so a client
  that asks runs no handler; the server goes on. A datagram brings any number
  of new segments, or none.
* The unit of data is a segment, and chunks end between segments. A request is
  one segment; the 4 bytes of size in front of a file the server sends are in
  its first one. Sizes go through the code's conversions: `post_size` is a
  `uint32`, then an `int`, so that the -1 of an absent file becomes `Word` - 1
  and -1 again; `Word` is 2^32, 64 in the runs.
* The handler of a post's first chunk is bound with the value of `killed`
  instead of a placeholder (`ftaserver.cpp:223`), and is a handler of its own,
  `"first_post"`.
* `handle_fin` calls the handlers last installed, due or not, with `killed`.
  `prompt` becomes `"gone"` when the client closes its socket, `"stuck"` when
  no handler does (`ftaclient.cpp:115`).
* The table of the database and the texts are data; an answer is tagged with
  the length of the query that was answered.

## 3. Runs

Constants of `Rtp` are small stand-ins: a full segment is 1 or 2 bytes, windows
are a few bytes, the timeout limit is 0 to 2 instead of `MAX_TIMEOUT_COUNT`.
Bounds: `WriteBudget` (bytes written), `MaxInFlight` (datagrams in flight,
through `Room`), `MaxFins` (pending FIN completions), `MaxLives` (how often a
connection becomes valid). `handshake`, `connects` and `final_ack_claim`
start from new sockets. The others start from a state of a run of the code, written down in
`MCRtp`:

* `Established` (`transfer`, `duplex`, `resend_claim`): both connections are valid, the timers of the handshake have fired
  and been dropped;
* `BothWrite` (`resolves`): then the client's first message has arrived, its
  second and the server's first have been sent and lost;
* `BetweenLives` (`reopen`): the client's first message has arrived, then both
  sides have closed. The SYN's timer, the segment's and the acknowledgement's
  are still armed, and a repeated acknowledgement may be in flight.

| Run | States | Question | Properties |
|---|---|---|---|
| `handshake` | 3.3 M | connection set-up, a 2-byte transfer, and a client that closes, over a lossy network; every segment of the handshake can be lost, late or overtaken; every step is one of the abstract service | `TypeOK`, `DeliveredIsPrefix`, `NoFalseCompletion`, `IInv`, `WindowKnownWhenValid`, `ImplementsByteStream` |
| `transfer` | 3.5 M | 7 bytes as 3 full segments and a short one: a window of 2 spans datagram borders, grows, halves to 0 and recovers; the peer's window of 5 bytes is no multiple of a segment; the short segment's checksum may fail | `DeliveredIsPrefix`, `UnackedIsGuarded`, `AckIsGuarded`, `DatagramFitsWindow`, `ProgressIsKept` |
| `duplex` | 2.4 M | two messages one way and one the other on one connection, datagrams repeated and reordered; numbers and indices carry over from one send to the next | `NoFalseCompletion`, `UnackedIsGuarded`, `AckIsGuarded` |
| `reopen` | 2.5 M | a second life among the timers and datagrams of the first, in which both applications write, before, during or after the handshake | `SendStartsBeforeNext`, `WindowKnownWhenValid`, `AckIsGuarded`, `ProgressIsKept`, `GuardIsKept` |
| `connects` | 277 | a client gets connected | `ClientConnects` |
| `resolves` | 74 k | both ends send: when does a send complete or fail; a dead peer is noticed | `SendResolves`, `SendResolvesIfDataArrives`, `PeerNoticesDeath` |
| `framing` | 46 k | datagrams of up to three segments and every control segment, whole or with one field or length damaged, at a receiver with any number or none | `TypeOK`, `LoopTakesARun`, `ControlIsAllOrNothing`, `DamageIsContained` |
| `programs` | 17 k | two clients at one server, seven pairs of scripts | `TypeOK`, `PostedIsPrefix`, `GotIsPrefix`, `RequestEndsWhenIdle`, `NeverGarbled`, `AnswerIsPrinted`, `CommandsEnd` |

Why the sizes are enough. `Rtp`: two segments in one datagram, a partly
acknowledged datagram, overlapping retransmissions, a second send while
acknowledgements of the first are in flight, a window at 0, at 1, at the peer's
limit and at the cap, a timeout count at its limit. Two datagrams in flight,
one of them as old as one likes, overtake each other; what bounded sizes leave
open, the proofs close where section 4 lists them. `Framing`: segments of 3
bytes with 2 covered, buffers of up to 7 bytes and a congestion window of up to
3 give a full segment with an uncovered byte, a short one that is covered whole,
one below the coverage, a damaged segment with whole ones on both sides, and a
next datagram that starts in the middle of the buffer. `Programs` (`Sessions`
in `MCPrograms`): consecutive gets of different sizes next to another client's;
a get of three chunks and then one of two, ended by the `disconnect` command; a
post beside another client's get; a get-post whose halves end in either order;
a get-post with an empty file to post; an empty post and one of an absent file;
a query beside a get. These are the scripts of which every property holds.
Scripts for which one fails are `post_end_claim`, `shared_flags_claim` and the cases
under *Observations*; they are not in `Sessions` because a property
that fails for one script says nothing of the others.

`CHECK_DEADLOCK FALSE`: the systems may really stop, when both sockets are
closed, when a transfer is complete and every bound is used up, when a datagram
is read, or when the users have typed all their commands.

`DeliveredIsPrefix`, `NoFalseCompletion` and the stream part of `IInv` are
stated for the first life of the connections (`FirstLife`): numbers restart at 0
after a close, there is no identifier of a connection in the datagrams, and an
old datagram then means something else.

### Fairness

Safety is checked without fairness. For liveness, `Rtp` assumes

* `NetworkMoves` (weak): a datagram in flight arrives or is lost in the end;
* `TimersFire` and `HandleFin`: a running `io_service` thread runs the timers
  that are due and the completions that are queued. Strong fairness where a
  step sends: the bound on datagrams in flight disables sending now and then,
  which the code's network does not;
* for `ClientConnects` only, strong fairness of receiving a SYN, SYN-ACK and
  ACK: a segment that is repeated for ever gets through in the end.
  `SendResolves` and `PeerNoticesDeath` need no such assumption; they hold on
  a network that loses everything. `SendResolves` is the weaker for it: it
  excepts two ends that have both received data (see the *Observations*);
* for `SendResolvesIfDataArrives` only, and as its premise `DataGetsThrough`,
  strong fairness of receiving data, which removes that exception.

No fairness is assumed of applications in `Rtp`. `Programs` assumes (weakly)
that a user who is asked types the next command of the script, and that while a
connection is up, data that was sent and acknowledgements of data that was
taken arrive in the end. The latter is what the timers are for: data and
acknowledgements are guarded (`UnackedIsGuarded`, `AckIsGuarded`), so they are
repeated until they arrive or the connection goes down, on a network that does
not lose a repeated datagram for ever (`SendResolvesIfDataArrives`). No fairness is assumed of connections going down or of datagrams that bring
nothing new: a command must not depend on them. (`post_end_claim` does not hang on
that: in its counterexample the request has been taken and dropped.)

### Where code and comments disagree

Each run checks one property, and TLC refutes it.

* `resend_claim` (rtp.hpp:170-171 against connection.cpp:255). The first data
  datagram is sent with a congestion window of 1 and its timer fires: 1/2 = 0
  segments are packaged, and an empty datagram is sent. If the datagram was
  lost, nothing is ever sent again and the sender times out. If it was only
  late, its acknowledgement brings the window back to 1.
* `final_ack_claim` (rtp.hpp:107-108 against socket.cpp:245). The final ACK is
  lost. Its timer compares 0 < 0 and is dropped; the SYN-ACKs the server
  repeats are taken by the valid client for old acknowledgements and not
  answered. If the client writes, its first data completes the handshake; if
  it waits for the server to speak, as nothing forbids, it waits for ever.
* `post_end_claim` (ftaserver.cpp:112, ftaclient.cpp:103-104 against
  ftaserver.cpp:113). A post, then a get. The server stores the last byte, and
  waits for a handler call without data to end the request. The client has the
  acknowledgement of that byte and prompts; its next request is the next
  datagram at the server. `post` is called with it, finds the file complete,
  drops it and installs no handler. The client waits for ever. Only a datagram that
  brings nothing new, if it comes first, ends the post.
* `shared_flags_claim` (ftaserver.cpp:25-26 against ftaserver.cpp:27). One
  client runs a get-post, another a get. The get of the other ends, by its
  acknowledgement or with its connection, and sets `not_sending`, although the
  first client's file is still on its way. Now its post ends, finds both flags
  set, and the server waits for a request on a connection that is in the middle
  of one.

### Observations

What else the code does, met while modelling; no comment promises otherwise, or
a run above already shows the like, so these have no run of their own.

* The advertised receive window is not enforced: the receiver acknowledges and
  stores whatever is in sequence, read or not (connection.cpp:437; rtp.hpp:47
  calls it the size of the receive window).
* If the peer's window is below one segment, a congestion window that a timeout
  took to 0 stays there (0 < 0 fails, connection.cpp:643): a late
  acknowledgement advances the number, nothing is sent or armed, and the old
  timer is dropped. Hence the premise of `UnackedIsGuarded` and `GuardIsKept`.
* Both kinds of timeout count on one `timeout_count`, which any acknowledgement
  puts back (connection.cpp:421). Two ends that have both received data repeat
  their acknowledgements to each other; if the network loses only data, both
  sends stay outstanding and neither end gives up. `SendResolves` excepts it;
  without the exception TLC finds that behaviour in `resolves`.
* A late ACK of 0 makes a connection valid that has been closed or has never
  seen a SYN (socket.cpp:263), and `receiver` is called for it.
* A SYN-ACK timer that has not fired when `handle_fin` puts the number to -2
  finds -2 < 0 and repeats the SYN-ACK of a closed connection without a limit
  (socket.cpp:348, connection.cpp:111).
* A SYN or SYN-ACK with a damaged window is accepted (socket.cpp:447), and so
  are damaged data bytes behind a segment's first 8 (socket.cpp:413). That is
  the exception in `ControlIsAllOrNothing` and in `DamageIsContained`.
* In a second life an acknowledgement of the first can complete a send of the
  second.
* If the server's application calls `async_send` on a connection while it is
  closed, and first data then makes it valid, nothing sends the buffer:
  `connection_establishment` does not call `send()` in that branch
  (socket.cpp:277-287), and no timer is armed. Hence `UnackedIsGuarded` is
  about the first life. `GuardIsKept` is about every life, and names that step
  as the only one that leaves a send without a guard.
* A command the client does not know, or with a word too many, matches no branch
  of `accept_command` (ftaclient.cpp:138-206): nothing is sent and nobody
  prompts again.
* A get-post client whose file arrives before the acknowledgement of its
  request prompts before it has posted (ftaclient.cpp:123); `"ask_then_post"`
  is that state. If the user types a command there, its request is replaced by
  the file.
* A get and then a post: the client sends its file when the request is
  acknowledged; a server that was between two handlers finds request and file
  in one chunk, parses the request and drops the beginning of the file
  (ftaserver.cpp:205). `PostedIsPrefix` does not hold of that script.
* A post of an empty or absent file creates no file at the server: `post` opens
  it only when there are bytes (ftaserver.cpp:84). The post of an absent one
  never ends there, since `current_index >= request->post_size()` compares 0 with
  4294967295 (ftaserver.cpp:113), and drops the client's next request.
* A get of an empty or absent file never ends: the client installs no handler
  after it (ftaclient.cpp:231).
* While another client's post is under way, and for ever after a posting client
  that disappears before its first byte (the bound `killed` of
  ftaserver.cpp:223), `not_receiving` is FALSE in the server; a client whose get
  ends then is not listened to any more, and its next command hangs.
  `CommandsEnd` does not hold of a post beside two gets.
* The engine answers the first chunk of a query, and the client prints the
  first chunk of an answer (dbenginertp.cpp:132): with more than one segment
  `AnswerIsPrinted` does not hold.
* When a connection is given up while a request is outstanding, the client
  program ignores `killed` and stays, with no handler (ftaclient.cpp:115);
  the model keeps it as `"stuck"`.

## 4. Proofs

`tlapm` on the `_proof` modules. They use the named assumptions of the modules
they are about (`SegmentAssumption`, `LimitAssumption`, `EndpointAssumption`,
`BoundAssumption`, `MaxBytesAssumption`, `WordAssumption`, `ScriptAssumption`),
which only give the constants their types, make a segment non-empty and the
endpoints distinct, let the size of a file fit in half of a `Word`, and say that
a database client sends one query and is sent an answer; TLC evaluates them in
every run. The theorems about `Rtp` hold for every segment and window size,
message size and bound, with or without duplication; those about `Framing` for
every segment size, checksum coverage, buffer, number of segments in a datagram
and state of the receiver; those about `Programs` for any number of clients, any
scripts, and files of any size, absent ones included.

| Theorem | Module | States |
|---|---|---|
| `TypeCorrect`, `SendStarts` | Rtp_proof | `TypeOK`, `SendStartsBeforeNext` |
| `StreamInvariant` | Delivery_proof | `IInv` |
| `Delivery`, `Completion` | Delivery_proof | `DeliveredIsPrefix`, `NoFalseCompletion` |
| `Refinement` | Service_proof | `ImplementsByteStream`, if `MaxLives = 1` |
| `WindowKnown`, `FlowControl` | Flow_proof | `WindowKnownWhenValid`, `DatagramFitsWindow` |
| `AckGuarded`, `Progress` | Guard_proof | `AckIsGuarded`, `ProgressIsKept` |
| `GuardKept` | Guard_proof | `GuardIsKept` |
| `UnackedGuarded` | Guard_proof | `UnackedIsGuarded`, if `MaxLives = 1` |
| `LoopTakesWhatRtpTakes` | Framing_proof | `LoopTakesARun` |
| `DamagedControl`, `DamagedData` | Framing_proof | `ControlIsAllOrNothing`, `DamageIsContained` |
| `FramingTypes` | Framing_proof | `TypeOK` of `Framing` |
| `ProgramTypes` | Programs_proof | `TypeOK` of `Programs` |
| `GotIsRight` | Programs_proof | `NeverGarbled => GotIsPrefix` |
| `PlainNeverGarbled`, `PlainPostIsPrefix` | Programs_proof | `NeverGarbled`, `PostedIsPrefix`, if `PlainScripts` |
| `PlainRequestEnds`, `PlainGotIsRight` | Programs_proof | `RequestEndsWhenIdle`, `GotIsPrefix`, if `PlainScripts` |
| `ShortAnswerIsPrinted` | Programs_proof | `AnswerIsPrinted`, if `ShortQueries` |

**Types.** The type of `write_index`, `Nat`, is not inductive alone: `take_ack`
assigns it `n - old_sequence_no` for an `n` from the network, which is guarded
only by `n >= send_sequence_no`. Hence `SendStartsBeforeNext`, which every
method keeps: each assignment of `old_sequence_no` copies `send_sequence_no`,
which only grows until `handle_fin` puts both to 0.

**The stream.** `DeliveredIsPrefix` is not inductive: it says nothing of the
datagrams that will be delivered next. `IInv` adds, as named parts,

* `NetInv`: a data datagram carries bytes of its sender's stream under their own
  numbers, an acknowledgement names bytes the receiver has taken. This is what
  makes loss, repetition and reordering harmless: it does not depend on order.
* `ReceiverInv`: a valid receiver's number is the count of bytes taken, and what
  is delivered followed by what waits in `rcv_window` is exactly those bytes. An
  in-sequence datagram extends both by the same bytes.
* `SenderInv`: a sender's acknowledged number is at most what the peer has
  taken, `old_sequence_no` is where the current buffer starts in the stream,
  and `write_index` is the difference. Hence `package_message` numbers bytes
  correctly (`NetInv` is kept), and completion, `send_sequence_no` at the end
  of the buffer, means that the peer has taken everything.
* `TimerInv`: a send timer that would still act on a valid connection guards a
  byte that is not acknowledged. Otherwise it could fire after its send has
  completed and repeat bytes of an old buffer under new numbers: `call_send_handler`
  moves `old_sequence_no` but neither `write_index` nor the buffer.
* `UnusedInv` and `FreshInv`: a connection that was never valid has not moved,
  so that what is written before the handshake starts the stream at 0.

All but `TypeOK`, `SendStartsBeforeNext` and `FreshInv` is conditional on
`FirstLife`; `life` never decreases, so a step into `FirstLife` starts there.

**The service.** `Refinement` maps `taken` to `accepted`, `pending` to
`valid_send_handler` and `phase` to `valid` and `life`. Each action changes what
the service sees of one endpoint only, and is a `Write`, `Progress` or `GoDown`
of it, or a stutter; `IInv` supplies what a `Progress` asks: everything handed
on is everything taken (`ReceiverInv`), nothing unwritten is taken (`NetInv`),
and a send that is over has been taken (`SenderInv`).

**Windows.** Whether a connection knows its window when it becomes valid
depends on what reaches it, which depends on what the other side knew when it
sent. `FlowInv` follows that: a SYN or SYN-ACK carries its sender's window
(`DatagramFlow`); who has sent a SYN-ACK or data knows the window of its peer,
and an acknowledgement only goes to an endpoint that knows its sender's; a timer
that repeats such a segment is armed by one that knew (`TimerFlow`). Hence a
connection that is valid, or at -1, knows (`RecordFlow`), although an
acknowledgement of an earlier life can make it valid. A congestion window is at
most 1, or fits the peer's window, and never exceeds the cap; what
`package_message` puts on the wire is bounded by it.

**Timers.** `AckIsGuarded` is inductive: data that is taken arms a timer at the
new number, and a timer that fires is dropped only when the number has passed
it. A guard of a send is not: an acknowledgement that completes a datagram must
lead to a new one, so the congestion window must not be 0 then. `WindowInv` says
that it is not: in every life, a valid connection that can send a segment to its
peer has a window of at least 1, or a live send timer (`WindowOpen`; only a
timeout of an outstanding send takes the window to 0, and every acknowledgement
raises it again), and `write_index` is where the acknowledged part of the buffer
ends (`AlignedInv`), so that what is packaged is what the timer then guards.
From it, `AllKept` follows each step: it leaves a guarded send guarded, or is a
`ReceiveFirstData`. That is `GuardKept`, with no condition on lives. For
`UnackedGuarded`, `RolesInv` adds who may be in which state of the handshake:
only the client sends SYNs, and the server's application has no connection
before its first life, so that no buffer waits where first data makes a
connection valid. That needs one life: see the *Observations*.

**Framing.** The behaviours are three steps long; what is hard is the loop, which
may turn any number of times. `FramingInv` says that at most one frame differs
from what was sent, in one of the `DamageKinds`, and that an outcome is what
`multiplex` makes of the frames. The loop is then followed frame by frame: `Turns`
describes one turn of it for a whole, a shortened, an unreadable and a damaged
frame, and `WholeLoop`, `DataLoop` and `WrongNumberLoop` what all of them together
take. Those three are inductions over the position in the datagram. The
induction rule itself is a consequence of `<` on `Nat` being well-founded
(`SetInduction`: a set of numbers that contains a number whenever it contains all
smaller ones is all of `Nat`), stated of sets, so that no operator has to be
passed to a theorem. `DamagedControl` needs no induction, but a case for every
field of every segment of the handshake. `FramingTypes` puts both kinds of
datagram together: a control segment that passes its checksum is the one sent but
for the window, which is a number, damaged or not, so that `take_ack` and
`establish` leave a connection of `ConnectionType`; and what the loop takes of a
data datagram goes to `rcv_window`, the one field where a damaged byte may be.

**Programs.** A handler is an operator on the record of what it can reach, so the
lemmas follow such a record from one handler into the next, say of each what it
changes and leaves alone (`Listens`, `Serves`, `Hears`, `Acts`), and only
`StepKeeps` comes back to the variables, where a step of one client changes no
more of another than the globals of the server. `Typed` says that a handler that
is due is one of its program's and finds the arguments it needs; it is what makes
the `CASE` of `call_rcv_handler` exhaustive.

`GotIsPrefix` is not inductive: it says nothing of where the rest of the file is.
`OnTrack` is a case distinction that does. No file is on its way (`Quiet`); one
request for it is, and the server has not read it (`Requested`); the whole file is
in the stream behind what the client has read (`Coming`); or the client has the
first segments, its handler knows how many and how many there are, and exactly the
others follow (`Midst`). `Rules` relates that to the client's flags: while it
prompts, nothing waits and it has all of its last file. A request that overtakes
another one, or a chunk of a file that is read as a request, would break this, and
both are what `garbled` records; hence the hypothesis `NeverGarbled`, which a run
checks for its scripts and which does not hold of all of them (see the
*Observations*: a command typed in `"ask_then_post"`). The first half of a
get-post that ends before the other is covered, as are all interleavings with
other clients, who share the server's flags: what the client stores does not
depend on them.

`PlainScripts` is the condition under which nothing is garbled, for every length
of a script and every size of a file: no command gets and posts at once, and
none posts after one that got (a post and then a get is allowed, and is safe,
although the get may never end: `post_end_claim`), or the script is a query. The
invariant of such a connection says more than `OnTrack`, for the server too:

* `Stream`: what the client has sent is requests, each followed by its file, and
  each sent when all before it was acknowledged. A file starts only after the
  acknowledgement of its request.
* `ServerFits`: what the server has read ends with a whole command when it waits
  for the next (`Ends`), with a request to post or inside its file when `post` is
  due, and then exactly that part of the file is stored (`Storing`), and with a
  request for a file while it sends one, with at most one more request behind it
  (`Sending`).
* `ClientFits`: the client waits for one thing at a time, and has a send handler
  exactly when something it sent is unacknowledged.
* `QueryNeat`, for a connection to a database server: one query, one answer, and
  nothing posted.

The shared flags occur in none of this. They decide only whether `final_send`
registers `rcv_respond`, and in a plain script it is called only at the end of a
command; what the other clients do to the flags can keep a server from listening,
but cannot make it listen too early. With a get-post the flags matter, and
`shared_flags_claim` shows that `RequestEndsWhenIdle` then fails.

`ShortAnswerIsPrinted` is about a query and an answer of one segment each, the
case the programs are written for (`AnswerFits`: nothing but these is ever sent,
and what there is to read is the answer). With more, the property is false.

**Only model-checked.** The liveness properties `ClientConnects`, `SendResolves`,
`SendResolvesIfDataArrives`, `PeerNoticesDeath` and `CommandsEnd`: TLAPS handles neither fairness nor ENABLED
here. Of `Programs`, also `PostedIsPrefix`, `RequestEndsWhenIdle` and
`NeverGarbled` for scripts that are not plain: `programs` checks two get-posts,
each of a client that has the server to itself; the *Observations* and
`shared_flags_claim` show scripts for which they fail.

## 5. Not modelled

* Errors of the UDP socket (`async_send_to` and `async_receive_from` failing).
* A second `create_connection` to one endpoint, two endpoints that connect to
  each other at once, and `delete_connection`: no program calls them.
* Overlapping sends on one connection in `Rtp` (`Programs` shows that no
  program of `Sessions` starts one).
* Overflow of the `int` numbers after 2^31 bytes on a connection.
* A process that restarts on the same port; elapsed time.
* In the programs: the terminal's line splitting, file system errors other than
  an absent file, the text of queries and answers.
* The generated protocol buffer code and the build.
