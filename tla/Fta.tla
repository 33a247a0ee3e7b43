--------------------------------- MODULE Fta ---------------------------------
(***************************************************************************)
(* The handlers of the file transfer programs, the server (ftaserver.cpp)  *)
(* and the client (ftaclient.cpp).  A command of a client's user asks for  *)
(* a file (get), stores one (post) or does both at once (get-post).        *)
(*                                                                         *)
(* A handler works on a record w with the fields                           *)
(*   server  the server's globals, shared by all its connections           *)
(*   client  the client's globals, the number of commands it was given,    *)
(*           whether it asks for another one (prompt) and the file it gets *)
(*   link    the connection (module Link)                                  *)
(*   posted  the file the server stores for this client                    *)
(*   script  the commands of this client                                   *)
(* Sizes of files are in segments.  The 4-byte size that precedes a file   *)
(* the server sends is in its first segment; of an empty or absent file    *)
(* that segment, number 0, is all there is.  Absent is what tellg()        *)
(* returns for a file that cannot be opened.                               *)
(***************************************************************************)
EXTENDS Link

CONSTANT Word  \* 2^32: post_size of fta_request is a uint32

ASSUME WordAssumption == Word \in Nat \ {0}

Absent == -1

Gets(c) == c.name \in {"get", "get-post"}
Posts(c) == c.name \in {"post", "get-post"}

as_uint(n) == n % Word
as_int(n) == IF 2 * n >= Word THEN n - Word ELSE n

-----------------------------------------------------------------------------
(* The server *)

fta_rcv_handler(w) == register(w, "server", Handler("rcv_respond", 0, 0, 0))

\* Fault: a request ends although the other half of it goes on.
final_send_always(w, is_get, killed) ==
  LET x == IF is_get THEN [w EXCEPT !.server.not_sending = TRUE]
                     ELSE [w EXCEPT !.server.not_receiving = TRUE]
  IN  IF ~killed THEN fta_rcv_handler(x) ELSE x

\* Fault: not_sending stays FALSE when the file is sent.
final_send_forgets(w, is_get, killed) ==
  IF w.server.not_sending /\ w.server.not_receiving /\ ~killed THEN fta_rcv_handler(w) ELSE w

final_send(w, is_get, killed) ==
  LET x == IF is_get THEN [w EXCEPT !.server.not_sending = TRUE]
                     ELSE [w EXCEPT !.server.not_receiving = TRUE]
  IN  IF x.server.not_sending /\ x.server.not_receiving /\ ~killed
      THEN fta_rcv_handler(x) ELSE x

\* Fault: every chunk is taken for the first one of a file.
post_afresh(w, h, data) ==
  LET size == as_int(as_uint(w.script[h.n].post))
  IN  CASE data # <<>> ->
             register([w EXCEPT !.posted = data], "server",
                      Handler("post", h.n, size, h.current_index + Len(data)))
        [] data = <<>> /\ h.current_index >= size -> final_send(w, FALSE, FALSE)
        [] OTHER -> register(w, "server", [h EXCEPT !.name = "post"])

\* Called with data, or with nothing.  Bytes that arrive when the file is
\* complete are dropped and no handler is registered again.
post(w, h, data) ==
  LET request_size == as_uint(w.script[h.n].post)
      first == h.size <= 0
      size == IF first THEN as_int(request_size) ELSE h.size
      kept == IF first THEN <<>> ELSE w.posted
  IN  CASE data # <<>> /\ h.current_index < size ->
             register([w EXCEPT !.posted = kept \o data], "server",
                      Handler("post", h.n, size, h.current_index + Len(data)))
        [] data # <<>> /\ ~(h.current_index < size) ->
             [w EXCEPT !.posted = kept,
                       !.link.rcv_handler["server"].name = IF @ = "first_post" THEN "spent" ELSE @]
        [] data = <<>> /\ h.current_index >= request_size -> final_send(w, FALSE, FALSE)
        [] OTHER -> register(w, "server", [h EXCEPT !.name = "post"])

get(w, n) ==
  LET size == w.script[n].get
  IN  async_send(w, "server",
                 IF size > 0 THEN Message("get", n, size) ELSE <<Segment("get", n, 0)>>,
                 "final_send")

\* A request is parsed from the front of the buffer and the rest is dropped.
\* The post handler registered here has killed bound to it as FALSE.
rcv_respond(w, data) ==
  LET n == data[1].n
      c == w.script[n]
      x == IF Posts(c)
           THEN register([w EXCEPT !.server.not_receiving = FALSE], "server",
                         Handler("first_post", n, 0, 0))
           ELSE w
  IN  CASE data = <<>> -> fta_rcv_handler(w)
        [] data # <<>> /\ data[1].kind # "request" -> Garble(w)
        [] OTHER -> IF Gets(c) THEN get([x EXCEPT !.server.not_sending = FALSE], n) ELSE x

\* final_send as send handler, with the async_rcv at its end.
file_sent(w) ==
  LET x == final_send(w, TRUE, FALSE)
  IN  IF x.link.valid_rcv_handler["server"] /\ unread(x, "server") # <<>>
      THEN rcv_respond(hand_over(x, "server"), unread(x, "server")) ELSE x

\* handle_fin calls the last handlers, whether or not they are still due.
fta_server_fin(w) ==
  LET h == w.link.rcv_handler["server"]
      x == IF w.link.send_handler["server"] = "final_send" THEN final_send(w, TRUE, TRUE) ELSE w
  IN  CASE h.name = "post" -> final_send(x, FALSE, TRUE)
        [] h.name = "first_post" -> post(x, h, <<>>)
        [] OTHER -> x

-----------------------------------------------------------------------------
(* The client *)

\* accept_command blocks the process until the user has typed a line.
accept_command(w) == [w EXCEPT !.client.prompt = "ask"]

client_finish(w, is_get) ==
  LET x == IF is_get THEN [w EXCEPT !.client.not_receiving = TRUE]
                     ELSE [w EXCEPT !.client.not_sending = TRUE]
  IN  IF x.client.not_sending /\ x.client.not_receiving THEN accept_command(x) ELSE x

\* The size in front of a file, as the client reads it.
decode_header(w, data) == as_int(as_uint(w.script[data[1].n].get))

\* Fault: the file is thought to be complete one segment early.
client_get_handler_short(w, h, data) ==
  LET size == IF h.size > 0 \/ data = <<>> THEN h.size ELSE decode_header(w, data)
      index == h.current_index + Len(data)
      x == [w EXCEPT !.client.got = IF h.size > 0 THEN @ \o data ELSE data]
  IN  CASE data = <<>> -> register(w, "client", h)
        [] data # <<>> /\ index + 1 < size ->
             register(x, "client", Handler("get", h.n, size, index))
        [] OTHER -> client_finish(x, TRUE)

\* A file of size 0 or less is created, and no handler is registered again.
client_get_handler(w, h, data) ==
  LET size == IF h.size > 0 \/ data = <<>> THEN h.size ELSE decode_header(w, data)
      index == h.current_index + Len(data)
      x == [w EXCEPT !.client.got = IF h.size > 0 THEN @ \o data ELSE data]
  IN  CASE data = <<>> -> register(w, "client", h)
        [] data # <<>> /\ ~(h.current_index < size) -> [w EXCEPT !.client.got = <<>>]
        [] data # <<>> /\ h.current_index < size /\ index < size ->
             register(x, "client", Handler("get", h.n, size, index))
        [] OTHER -> client_finish(x, TRUE)

\* The client's post(): sends the file of command n.
client_post(w, n) ==
  LET size == w.script[n].post
      x == async_send([w EXCEPT !.client.not_sending = FALSE], "client",
                      IF size > 0 THEN Message("post", n, size) ELSE <<>>, "client_finish")
  IN  IF size > 0 THEN x ELSE client_finish(x, FALSE)

\* The server has the request.  If its file has arrived before that, async_rcv
\* completes the get here: the client may ask for a new command, and posts its
\* file when the user has answered.
handle_req(w) ==
  LET n == w.client.commands
      c == w.script[n]
      h == Handler("get", n, 0, 0)
      x == register([w EXCEPT !.client.not_receiving = FALSE], "client", h)
      y == CASE ~Gets(c) -> w
             [] Gets(c) /\ unread(x, "client") = <<>> -> x
             [] OTHER -> client_get_handler(hand_over(x, "client"), h, unread(x, "client"))
  IN  CASE ~Posts(c) -> y
        [] Posts(c) /\ y.client.prompt = "ask" -> [y EXCEPT !.client.prompt = "ask_then_post"]
        [] OTHER -> client_post(y, n)

\* accept_command with the line typed: command n of the script.  While handle_req
\* still waits to post, its file replaces the request just sent.
command(w, n) ==
  LET c == w.script[n]
      x == [w EXCEPT !.client.commands = n, !.client.prompt = "busy"]
      y == IF Gets(c) \/ Posts(c)
           THEN async_send(x, "client", <<Segment("request", n, 0)>>, "handle_req") ELSE x
  IN  CASE c.name = "disconnect" -> [x EXCEPT !.client.prompt = "gone"]
        [] c.name # "disconnect" /\ w.client.prompt = "ask" -> y
        [] OTHER -> client_post(y, n - 1)

\* handle_req does not look at killed; the other handlers do, and close the
\* socket, which ends the process.
fta_client_fin(w) ==
  LET requesting == w.link.send_handler["client"] = "handle_req"
      x == IF requesting THEN handle_req(w) ELSE w
      told == ~requesting \/ x.link.rcv_handler["client"] # NoHandler
  IN  [x EXCEPT !.client.prompt = IF told THEN "gone" ELSE "stuck"]

=============================================================================
