------------------------------ MODULE Programs ------------------------------
(***************************************************************************)
(* The programs of the repository at work: the file transfer server and    *)
(* the database engine, and clients with one connection each.  A step is   *)
(* a line typed by a user, or a datagram that arrives at one end of a      *)
(* connection with all the handlers that are called for it; a process that *)
(* waits for its user is blocked, its connection's other end is not.       *)
(***************************************************************************)
EXTENDS Fta, Db

CONSTANTS
  Clients,  \* the client processes
  Scripts   \* what their users may type: functions from clients to commands

CommandNames == {"get", "post", "get-post", "disconnect", "unknown", "query"}
Command == [name : CommandNames, get : Int, post : Int]

\* A database client sends one query; a file transfer client sends none.
ASSUME ScriptAssumption ==
  \A typed \in Scripts :
    /\ typed \in [Clients -> Seq(Command)]
    /\ \A i \in Clients : \A n \in 1..Len(typed[i]) :
         LET c == typed[i][n] IN
         /\ c.get >= Absent /\ c.post >= Absent
         /\ 2 * c.get < Word /\ 2 * c.post < Word
         /\ c.name = "query" => Len(typed[i]) = 1 /\ c.get > 0 /\ c.post >= 0

VARIABLES
  script,  \* the commands the users type
  server,  \* the globals not_sending and not_receiving of the file server
  client,  \* what Fta says of a client, for each of them
  link,    \* the connection of each client
  posted   \* the file the file server stores for each client

vars == <<script, server, client, link, posted>>

Queries(i) == script[i] # <<>> /\ script[i][1].name = "query"

\* The state a handler on client i's connection can reach, and the step that
\* leaves it as w.
At(i) == [server |-> server, client |-> client[i], link |-> link[i],
          posted |-> posted[i], script |-> script[i]]
Becomes(i, w) ==
  /\ server' = w.server
  /\ client' = [client EXCEPT ![i] = w.client]
  /\ link' = [link EXCEPT ![i] = w.link]
  /\ posted' = [posted EXCEPT ![i] = w.posted]
  /\ UNCHANGED script

\* The receiver callback has run for every connection, and each client's start
\* timer has fired.
Init ==
  /\ script \in Scripts
  /\ server = [not_sending |-> TRUE, not_receiving |-> TRUE]
  /\ client = [i \in Clients |-> [not_sending |-> TRUE, not_receiving |-> TRUE,
                                  prompt |-> "ask", commands |-> 0, got |-> <<>>]]
  /\ link = [i \in Clients |->
       LET w == [link |-> NewLink]
       IN  IF Queries(i) THEN dba_rcv_handler(w).link ELSE fta_rcv_handler(w).link]
  /\ posted = [i \in Clients |-> <<>>]

-----------------------------------------------------------------------------
(* The handlers a connection calls *)

call_rcv_handler(w, s) ==
  LET h == w.link.rcv_handler[s]
      data == unread(w, s)
      x == hand_over(w, s)
  IN  IF ~w.link.valid_rcv_handler[s] THEN w
      ELSE CASE h.name = "rcv_respond" -> rcv_respond(x, data)
             [] h.name \in {"first_post", "post"} -> post(x, h, data)
             [] h.name = "get" -> client_get_handler(x, h, data)
             [] h.name = "handle_query" -> handle_query(x, data)
             [] h.name = "handle_response" -> handle_response(x, h, data)

call_send_handler(w, s) ==
  LET h == w.link.send_handler[s]
      x == [w EXCEPT !.link.valid_send_handler[s] = FALSE]
  IN  CASE h = "final_send" -> file_sent(x)
        [] h = "handle_req" -> handle_req(x)
        [] h = "client_finish" -> client_finish(x, FALSE)
        [] h = "await_response" -> await_response(x)
        [] h = "close_connection" -> x

-----------------------------------------------------------------------------
(* Steps *)

Asking(i) == client[i].prompt \in {"ask", "ask_then_post"}

Types(i) ==
  /\ Asking(i) /\ ~link[i].garbled
  /\ client[i].commands < Len(script[i])
  /\ Becomes(i, IF Queries(i) THEN query(At(i)) ELSE command(At(i), client[i].commands + 1))

\* A process that waits for its user calls no handler.
Runs(i, s) ==
  /\ link[i].up[s] /\ ~link[i].garbled
  /\ s = "client" => client[i].prompt = "busy"

\* Data arrives that continues what has been taken.
TakeData(i, s) ==
  \E n \in link[i].taken[s] + 1 .. Len(link[i].sent[Other(s)]) :
    /\ Runs(i, s)
    /\ Becomes(i, call_rcv_handler([At(i) EXCEPT !.link.taken[s] = n], s))

\* An acknowledgement arrives that is newer than the last.
TakeAck(i, s) ==
  \E n \in link[i].acked[s] + 1 .. link[i].taken[Other(s)] :
    LET w == [At(i) EXCEPT !.link.acked[s] = n] IN
    /\ Runs(i, s)
    /\ Becomes(i, call_rcv_handler(IF all_acked(w, s) THEN call_send_handler(w, s) ELSE w, s))

\* A datagram arrives that brings nothing new.
TakeNothing(i, s) ==
  /\ Runs(i, s)
  /\ Becomes(i, call_rcv_handler(At(i), s))

\* A FIN has been answered, or the timeouts were too many.
GoDown(i, s) ==
  /\ Runs(i, s)
  /\ Becomes(i, take_down(
       CASE s = "client" /\ Queries(i) -> db_client_fin(At(i))
         [] s = "client" /\ ~Queries(i) -> fta_client_fin(At(i))
         [] s = "server" /\ Queries(i) -> At(i)
         [] s = "server" /\ ~Queries(i) -> fta_server_fin(At(i)), s))

Step(i, s) ==
  \/ TakeData(i, s)
  \/ TakeAck(i, s)
  \/ TakeNothing(i, s)
  \/ GoDown(i, s)

Next == \E i \in Clients : Types(i) \/ \E s \in Side : Step(i, s)

Spec == Init /\ [][Next]_vars

\* Users type, and while a connection is up what is sent arrives and is
\* acknowledged in the end, since timers guard data and acknowledgements.
Fairness ==
  \A i \in Clients :
    /\ WF_vars(Types(i))
    /\ \A s \in Side : WF_vars(TakeData(i, s)) /\ WF_vars(TakeAck(i, s))

FairSpec == Spec /\ Fairness

-----------------------------------------------------------------------------
\* What a program has been given, what has arrived and what is acknowledged stay
\* in step, and a handler that waits has nothing to read.
TypeOK ==
  /\ server \in [not_sending : BOOLEAN, not_receiving : BOOLEAN]
  /\ \A i \in Clients :
       /\ client[i].prompt \in {"ask", "ask_then_post", "busy", "gone", "stuck"}
       /\ client[i].commands \in 0..Len(script[i])
       /\ \A s \in Side :
            /\ link[i].taken[s] \in 0..Len(link[i].sent[Other(s)])
            /\ link[i].handed[s] \in 0..link[i].taken[s]
            /\ link[i].acked[Other(s)] \in 0..link[i].taken[s]
            /\ link[i].valid_rcv_handler[s] => link[i].handed[s] = link[i].taken[s]

\* Segment p is the last request that the server's program has been given.
LastRequest(i, p) ==
  LET sent == link[i].sent["client"]
      last == link[i].handed["server"]
  IN  p \in 1..last /\ sent[p].kind = "request" /\ \A q \in p + 1..last : sent[q].kind # "request"

\* The file the server stores is the beginning of a file the client posted,
\* wherever the chunks of the stream end.
PostedIsPrefix ==
  \A i \in Clients :
    \E n \in 0..Len(script[i]) : posted[i] = Message("post", n, Len(posted[i]))

\* What a client stores is the beginning of a file it asked for, and a client
\* that asks for a new command has all of the last one.
GotIsPrefix ==
  \A i \in Clients :
    LET n == client[i].commands IN
    ~Queries(i) =>
      /\ \E k \in 0..n : client[i].got = Message("get", k, Len(client[i].got))
      /\ Asking(i) /\ n > 0 /\ Gets(script[i][n]) =>
           client[i].got = Message("get", n, script[i][n].get)

\* When the server waits for a request on a connection it is done with the last
\* one: the file it sent is acknowledged, and the posted file, if it is not empty,
\* is stored.
RequestEndsWhenIdle ==
  \A i \in Clients :
    /\ link[i].valid_rcv_handler["server"]
    /\ link[i].rcv_handler["server"].name = "rcv_respond"
    => /\ ~link[i].valid_send_handler["server"]
       /\ \A p \in 1..link[i].handed["server"] :
            LET n == link[i].sent["client"][p].n
                c == script[i][n]
            IN  LastRequest(i, p) /\ Posts(c) /\ c.post > 0 =>
                  posted[i] = Message("post", n, c.post)

\* While a client runs, no send replaces an unacknowledged one and no request
\* is read from the bytes of a file.
NeverGarbled == \A i \in Clients : link[i].up["client"] => ~link[i].garbled

\* A database client that ends has printed the answer to its query.
AnswerIsPrinted ==
  \A i \in Clients :
    Queries(i) /\ client[i].prompt = "gone" =>
      client[i].got = Message("answer", script[i][1].post, script[i][1].get)

\* A command ends: the client asks for the next one, or its connection ends.
CommandsEnd ==
  \A i \in Clients :
    client[i].prompt = "busy" ~>
      \/ client[i].prompt # "busy"
      \/ link[i].garbled \/ \E s \in Side : ~link[i].up[s]

=============================================================================
