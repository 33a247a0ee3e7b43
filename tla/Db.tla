---------------------------------- MODULE Db ----------------------------------
(***************************************************************************)
(* The handlers of the database programs, the engine (dbenginertp.cpp) and *)
(* the client (dbclientrtp.cpp): one query and one answer.  They work on   *)
(* the same record as those of Fta; the client's printed line is in got,   *)
(* and the sizes of query and answer are the command's post and get.  An   *)
(* answer is tagged with the length of the query it answers.               *)
(***************************************************************************)
EXTENDS Link

dba_rcv_handler(w) == register(w, "server", Handler("handle_query", 0, 0, 0))

\* Whatever the first chunk holds is the query.
handle_query(w, data) ==
  IF data = <<>> THEN dba_rcv_handler(w)
  ELSE async_send(w, "server", Message("answer", Len(data), w.script[1].get), "close_connection")

\* Fault: the client prints whatever it is called with.
handle_response_any(w, h, data) ==
  [w EXCEPT !.client.got = data, !.client.prompt = "gone"]

\* Whatever the first chunk holds is the answer: close_connection and close.
handle_response(w, h, data) ==
  IF data = <<>> THEN register(w, "client", h)
  ELSE [w EXCEPT !.client.got = data, !.client.prompt = "gone"]

await_response(w) ==
  LET h == Handler("handle_response", 0, 0, 0)
      x == register(w, "client", h)
  IN  IF unread(x, "client") # <<>>
      THEN handle_response(hand_over(x, "client"), h, unread(x, "client")) ELSE x

\* main: the arguments are the query; without any, the send is complete at once.
query(w) ==
  LET x == async_send([w EXCEPT !.client.commands = 1, !.client.prompt = "busy"], "client",
                      Message("query", 1, w.script[1].post), "await_response")
  IN  IF w.script[1].post > 0 THEN x ELSE await_response(x)

\* await_response does not look at killed, and handle_response does nothing then.
db_client_fin(w) ==
  LET x == await_response(w)
  IN  IF x.client.prompt = "gone" THEN x ELSE [x EXCEPT !.client.prompt = "stuck"]

=============================================================================
