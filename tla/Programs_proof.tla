---------------------------- MODULE Programs_proof ----------------------------
(***************************************************************************)
(* Proofs about Programs, for any number of clients, any scripts and files *)
(* of any size.  A handler is an operator on the record w of what it can   *)
(* reach; the lemmas follow such records through the handlers, and only at *)
(* the end come back to the variables.                                     *)
(***************************************************************************)
EXTENDS Programs, SequenceTheorems, TLAPS

-----------------------------------------------------------------------------
(* Types *)

Flags == [not_sending : BOOLEAN, not_receiving : BOOLEAN]
Prompts == {"ask", "ask_then_post", "busy", "gone", "stuck"}
Kinds == {"request", "post", "query", "get", "answer"}
RcvNames == {"none", "rcv_respond", "first_post", "post", "spent", "get",
             "handle_query", "handle_response"}
SendNames == {"none", "final_send", "handle_req", "client_finish", "await_response",
              "close_connection"}
Unit == [kind : Kinds, n : Nat, k : Nat]
Client == [not_sending : BOOLEAN, not_receiving : BOOLEAN, prompt : Prompts,
           commands : Nat, got : Seq(Unit)]
RcvHandler == [name : RcvNames, n : Nat, size : Int, current_index : Nat]
LinkType ==
  [ up : [Side -> BOOLEAN],
    sent : [Side -> Seq(Unit)],
    acked : [Side -> Nat],
    taken : [Side -> Nat],
    handed : [Side -> Nat],
    send_handler : [Side -> SendNames],
    valid_send_handler : [Side -> BOOLEAN],
    rcv_handler : [Side -> RcvHandler],
    valid_rcv_handler : [Side -> BOOLEAN],
    garbled : BOOLEAN ]
World == [server : Flags, client : Client, link : LinkType, posted : Seq(Unit),
          script : Seq(Command)]

LEMMA Sides == Side = {"client", "server"} /\ Other("client") = "server" /\ Other("server") = "client"
BY DEF Side, Other

LEMMA RegisterIs ==
  ASSUME NEW w \in World, NEW s \in Side, NEW h \in RcvHandler
  PROVE  LET x == register(w, s, h) IN
         /\ x \in World
         /\ x.server = w.server /\ x.client = w.client /\ x.posted = w.posted /\ x.script = w.script
         /\ x.link = [w.link EXCEPT !.rcv_handler = [w.link.rcv_handler EXCEPT ![s] = h],
                                    !.valid_rcv_handler = [w.link.valid_rcv_handler EXCEPT ![s] = TRUE]]
BY DEF register, World, LinkType

LEMMA HandOverIs ==
  ASSUME NEW w \in World, NEW s \in Side
  PROVE  LET x == hand_over(w, s) IN
         /\ x \in World
         /\ x.server = w.server /\ x.client = w.client /\ x.posted = w.posted /\ x.script = w.script
         /\ x.link = [w.link EXCEPT !.handed = [w.link.handed EXCEPT ![s] = w.link.taken[s]],
                                    !.valid_rcv_handler = [w.link.valid_rcv_handler EXCEPT ![s] = FALSE]]
BY DEF hand_over, World, LinkType

SendsAs(w, s, data, h, g, v, x) ==
  /\ x \in World
  /\ x.server = w.server /\ x.client = w.client /\ x.posted = w.posted /\ x.script = w.script
  /\ x.link = [w.link EXCEPT !.garbled = g, !.sent = [w.link.sent EXCEPT ![s] = data],
                             !.send_handler = [w.link.send_handler EXCEPT ![s] = h],
                             !.valid_send_handler = [w.link.valid_send_handler EXCEPT ![s] = v]]

Sends(w, s, data, more, h, x) ==
  /\ x \in World
  /\ x.server = w.server /\ x.client = w.client /\ x.posted = w.posted /\ x.script = w.script
  /\ x.link.garbled <=> w.link.garbled \/ w.link.acked[s] < Len(w.link.sent[s])
  /\ x.link.valid_send_handler[s] <=> more
  /\ \E g, v \in BOOLEAN :
       x.link = [w.link EXCEPT !.garbled = g, !.sent = [w.link.sent EXCEPT ![s] = data],
                             !.send_handler = [w.link.send_handler EXCEPT ![s] = h],
                             !.valid_send_handler = [w.link.valid_send_handler EXCEPT ![s] = v]]

LEMMA AsyncSendIs ==
  ASSUME NEW w \in World, NEW s \in Side, NEW segments \in Seq(Unit), NEW h \in SendNames
  PROVE  Sends(w, s, w.link.sent[s] \o segments, segments # <<>>, h, async_send(w, s, segments, h))
<1> DEFINE g == w.link.garbled \/ w.link.acked[s] < Len(w.link.sent[s])
           data == w.link.sent[s] \o segments
           v == segments # <<>>
           as(a, b) == [w EXCEPT !.link.garbled = a, !.link.sent[s] = data,
                                 !.link.send_handler[s] = h, !.link.valid_send_handler[s] = b]
<1>1. data \in Seq(Unit)
  BY DEF World, LinkType
<1>2. async_send(w, s, segments, h) = as(g, v)
  BY Zenon DEF async_send
<1>3. g \in BOOLEAN /\ v \in BOOLEAN
  OBVIOUS
<1> HIDE DEF g, v, data
<1>5. ASSUME NEW a \in BOOLEAN, NEW b \in BOOLEAN
      PROVE  SendsAs(w, s, data, h, a, b, as(a, b))
  BY <1>1 DEF SendsAs, World, LinkType
<1>6. SendsAs(w, s, data, h, g, v, as(g, v))
  BY <1>3, <1>5, Zenon
<1>7. \E a, b \in BOOLEAN : (a <=> g) /\ (b <=> v) /\ SendsAs(w, s, data, h, a, b, async_send(w, s, segments, h))
  BY <1>2, <1>3, <1>6, Zenon
<1>8. PICK a \in BOOLEAN, b \in BOOLEAN :
        (a <=> g) /\ (b <=> v) /\ SendsAs(w, s, data, h, a, b, async_send(w, s, segments, h))
  BY <1>7, Zenon
<1>9. /\ async_send(w, s, segments, h).link.garbled = a
      /\ async_send(w, s, segments, h).link.valid_send_handler[s] = b
  BY <1>8 DEF SendsAs, World, LinkType
<1> QED
  BY <1>8, <1>9, Zenon DEF SendsAs, Sends, g, v, data

LEMMA TakeDownIs ==
  ASSUME NEW w \in World, NEW s \in Side
  PROVE  LET x == take_down(w, s) IN
         /\ x \in World
         /\ x.server = w.server /\ x.client = w.client /\ x.posted = w.posted /\ x.script = w.script
         /\ x.link = [w.link EXCEPT !.up = [w.link.up EXCEPT ![s] = FALSE],
                                    !.valid_send_handler = [w.link.valid_send_handler EXCEPT ![s] = FALSE],
                                    !.valid_rcv_handler = [w.link.valid_rcv_handler EXCEPT ![s] = FALSE]]
BY DEF take_down, World, LinkType

LEMMA UnreadIs ==
  ASSUME NEW w \in World, NEW s \in Side,
         w.link.handed[s] <= w.link.taken[s], w.link.taken[s] <= Len(w.link.sent[Other(s)])
  PROVE  /\ unread(w, s) \in Seq(Unit)
         /\ Len(unread(w, s)) = w.link.taken[s] - w.link.handed[s]
         /\ \A k \in 1..Len(unread(w, s)) :
              unread(w, s)[k] = w.link.sent[Other(s)][w.link.handed[s] + k]
         /\ unread(w, s) = <<>> <=> w.link.taken[s] = w.link.handed[s]
<1>1. Other(s) \in Side
  BY DEF Side, Other
<1>2. w.link.sent[Other(s)] \in Seq(Unit) /\ w.link.handed[s] \in Nat /\ w.link.taken[s] \in Nat
  BY <1>1 DEF World, LinkType
<1> DEFINE sent == w.link.sent[Other(s)]
           a == w.link.handed[s]
           b == w.link.taken[s]
<1> HIDE DEF sent, a, b
<1>3. /\ SubSeq(sent, a + 1, b) \in Seq(Unit)
      /\ Len(SubSeq(sent, a + 1, b)) = b - a
      /\ \A k \in 1..b - a : SubSeq(sent, a + 1, b)[k] = sent[a + k]
  <2>1. sent \in Seq(Unit) /\ a \in Nat /\ b \in Nat /\ a <= b /\ b <= Len(sent)
    BY <1>2 DEF sent, a, b
  <2> QED
    BY <2>1
<1>4. unread(w, s) = SubSeq(sent, a + 1, b)
  BY Zenon DEF unread, sent, a, b
<1>5. unread(w, s) = <<>> <=> b = a
  <2>1. \A q \in Seq(Unit) : q # <<>> => Len(q) \in Nat \ {0}
    BY EmptySeq
  <2>2. unread(w, s) \in Seq(Unit) /\ Len(unread(w, s)) = b - a /\ a \in Nat /\ b \in Nat
    BY <1>2, <1>3, <1>4 DEF a, b
  <2>3. unread(w, s) = <<>> => Len(unread(w, s)) = 0
    BY EmptySeq
  <2>4. unread(w, s) # <<>> => Len(unread(w, s)) # 0
    BY <2>1, <2>2
  <2> QED
    BY <2>2, <2>3, <2>4
<1> QED
  BY <1>3, <1>4, <1>5 DEF sent, a, b

LEMMA MessageIs ==
  ASSUME NEW kind \in Kinds, NEW n \in Nat, NEW size \in Int
  PROVE  LET m == Message(kind, n, size) IN
         /\ m \in Seq(Unit)
         /\ Len(m) = IF size > 0 THEN size ELSE 0
         /\ \A k \in 1..size : m[k] = [kind |-> kind, n |-> n, k |-> k]
<1>1. CASE size > 0
  BY <1>1 DEF Message, Segment, Unit
<1>2. CASE ~(size > 0)
  <2>1. Message(kind, n, size) \in Seq(Unit) /\ Len(Message(kind, n, size)) = 0
    <3>1. 1..size = 1..0
      BY <1>2
    <3>2. Message(kind, n, size) \in [1..0 -> Unit]
      BY <3>1 DEF Message, Segment, Unit
    <3> QED
      BY <3>2
  <2> QED
    BY <1>2, <2>1
<1> QED
  BY <1>1, <1>2

LEMMA ConvertIs ==
  ASSUME NEW n \in Int, n >= Absent, 2 * n < Word
  PROVE  /\ as_uint(n) \in Nat
         /\ as_int(as_uint(n)) \in Int
         /\ n >= 0 => as_uint(n) = n /\ as_int(as_uint(n)) = n
         /\ n < 0 => as_int(as_uint(n)) <= 0
<1>1. Word \in Nat \ {0}
  BY WordAssumption
<1>2. CASE n >= 0
  <2>1. n % Word = n
    BY <1>1, <1>2
  <2> QED
    BY <1>1, <1>2, <2>1 DEF as_uint, as_int
<1>3. CASE n = -1
  <2>1. n % Word = Word - 1
    BY <1>1, <1>3
  <2> QED
    BY <1>1, <1>3, <2>1 DEF as_uint, as_int
<1> QED
  BY <1>2, <1>3 DEF Absent

-----------------------------------------------------------------------------
(* What a handler finds *)

Querying(w) == w.script # <<>> /\ w.script[1].name = "query"

\* The script is one that ScriptAssumption allows.
ScriptFits(w) ==
  \A n \in 1..Len(w.script) :
    LET c == w.script[n] IN
    /\ c.get >= Absent /\ c.post >= Absent
    /\ 2 * c.get < Word /\ 2 * c.post < Word
    /\ c.name = "query" => Len(w.script) = 1 /\ c.get > 0 /\ c.post >= 0

\* Segments say which command they belong to.
SegmentsFit(w) ==
  /\ \A p \in 1..Len(w.link.sent["client"]) : w.link.sent["client"][p].n \in 1..Len(w.script)
  /\ ~Querying(w) =>
       \A p \in 1..Len(w.link.sent["server"]) : w.link.sent["server"][p].n \in 1..Len(w.script)

\* The counts of the two sides are in step.
CountsFit(w) ==
  \A s \in Side :
    /\ w.link.taken[s] <= Len(w.link.sent[Other(s)])
    /\ w.link.handed[s] <= w.link.taken[s]
    /\ w.link.acked[Other(s)] <= w.link.taken[s]

\* A handler that is due is one of the program's, with the arguments it needs.
HandlersFit(w) ==
  LET due(s) == w.link.rcv_handler[s].name
      sends(s) == w.link.send_handler[s]
  IN  /\ w.link.valid_rcv_handler["server"] =>
           IF Querying(w) THEN due("server") = "handle_query"
                          ELSE due("server") \in {"rcv_respond", "first_post", "post"}
      /\ w.link.valid_rcv_handler["client"] =>
           IF Querying(w) THEN due("client") = "handle_response" ELSE due("client") = "get"
      /\ w.link.valid_send_handler["server"] =>
           IF Querying(w) THEN sends("server") = "close_connection"
                          ELSE sends("server") = "final_send"
      /\ w.link.valid_send_handler["client"] =>
           IF Querying(w) THEN sends("client") = "await_response"
                          ELSE sends("client") \in {"handle_req", "client_finish"}
      /\ due("server") \in {"first_post", "post"} =>
           w.link.rcv_handler["server"].n \in 1..Len(w.script)

\* There is a command that a request or a post that waits belongs to.
CommandsFit(w) ==
  /\ w.link.send_handler["client"] = "handle_req" => w.client.commands > 0
  /\ w.client.prompt = "ask_then_post" => w.client.commands > 0

Typed(w) ==
  /\ w \in World /\ w.client.commands <= Len(w.script)
  /\ ScriptFits(w) /\ SegmentsFit(w) /\ CountsFit(w) /\ HandlersFit(w) /\ CommandsFit(w)

\* A handler that waits has nothing to read.
Drained(w, s) == w.link.valid_rcv_handler[s] => w.link.handed[s] = w.link.taken[s]

\* What no handler changes: the script and what the network has done.
Same(w, x) ==
  /\ x.script = w.script /\ x.link.up = w.link.up
  /\ x.link.taken = w.link.taken /\ x.link.acked = w.link.acked

HandlerFits(w, s, h) ==
  /\ h \in RcvHandler
  /\ s = "server" => IF Querying(w) THEN h.name = "handle_query"
                      ELSE h.name \in {"rcv_respond", "first_post", "post"}
  /\ s = "client" => IF Querying(w) THEN h.name = "handle_response" ELSE h.name = "get"
  /\ h.name \in {"first_post", "post"} => h.n \in 1..Len(w.script)

Registers(w, s, h, x) ==
  /\ Typed(x) /\ Same(w, x)
  /\ x.server = w.server /\ x.client = w.client /\ x.posted = w.posted
  /\ x.link.handed = w.link.handed /\ x.link.sent = w.link.sent
  /\ x.link.garbled = w.link.garbled
  /\ x.link.send_handler = w.link.send_handler
  /\ x.link.valid_send_handler = w.link.valid_send_handler
  /\ x.link.rcv_handler = [w.link.rcv_handler EXCEPT ![s] = h]
  /\ x.link.valid_rcv_handler = [w.link.valid_rcv_handler EXCEPT ![s] = TRUE]

LEMMA TypedRegister ==
  ASSUME NEW w, Typed(w), NEW s \in Side, NEW h, HandlerFits(w, s, h)
  PROVE  Registers(w, s, h, register(w, s, h))
<1> DEFINE x == register(w, s, h)
<1>1. w \in World /\ h \in RcvHandler
  BY DEF Typed, HandlerFits
<1>2. /\ x \in World
      /\ x.server = w.server /\ x.client = w.client /\ x.posted = w.posted /\ x.script = w.script
      /\ x.link = [w.link EXCEPT !.rcv_handler = [w.link.rcv_handler EXCEPT ![s] = h],
                                 !.valid_rcv_handler = [w.link.valid_rcv_handler EXCEPT ![s] = TRUE]]
  BY <1>1, RegisterIs
<1> HIDE DEF x
<1>3. /\ Same(w, x)
      /\ x.link.handed = w.link.handed /\ x.link.sent = w.link.sent
      /\ x.link.garbled = w.link.garbled
      /\ x.link.send_handler = w.link.send_handler
      /\ x.link.valid_send_handler = w.link.valid_send_handler
      /\ x.link.rcv_handler = [w.link.rcv_handler EXCEPT ![s] = h]
      /\ x.link.valid_rcv_handler = [w.link.valid_rcv_handler EXCEPT ![s] = TRUE]
  BY <1>1, <1>2 DEF Same, World, LinkType
<1>4. Querying(x) <=> Querying(w)
  BY <1>2 DEF Querying
<1>5. HandlersFit(x)
  <2>1. /\ w.link.rcv_handler \in [Side -> RcvHandler]
        /\ w.link.valid_rcv_handler \in [Side -> BOOLEAN]
    BY <1>1 DEF World, LinkType
  <2>2. CASE s = "server"
    BY <1>2, <1>3, <1>4, <2>1, <2>2, Sides DEF Typed, HandlersFit, HandlerFits
  <2>3. CASE s = "client"
    BY <1>2, <1>3, <1>4, <2>1, <2>3, Sides DEF Typed, HandlersFit, HandlerFits
  <2> QED
    BY <2>2, <2>3, Sides
<1>6. ScriptFits(x) /\ SegmentsFit(x) /\ CountsFit(x) /\ CommandsFit(x)
  BY <1>2, <1>3, <1>4 DEF Typed, CommandsFit, ScriptFits, SegmentsFit, CountsFit, Same
<1> QED
  BY <1>2, <1>3, <1>5, <1>6 DEF Typed, Registers, x

HandsOver(w, s, x) ==
  /\ Typed(x) /\ Same(w, x)
  /\ x.server = w.server /\ x.client = w.client /\ x.posted = w.posted
  /\ x.link.sent = w.link.sent /\ x.link.garbled = w.link.garbled
  /\ x.link.send_handler = w.link.send_handler
  /\ x.link.valid_send_handler = w.link.valid_send_handler
  /\ x.link.rcv_handler = w.link.rcv_handler
  /\ x.link.handed = [w.link.handed EXCEPT ![s] = w.link.taken[s]]
  /\ x.link.valid_rcv_handler = [w.link.valid_rcv_handler EXCEPT ![s] = FALSE]

LEMMA TypedHandOver ==
  ASSUME NEW w, Typed(w), NEW s \in Side
  PROVE  HandsOver(w, s, hand_over(w, s))
<1> DEFINE x == hand_over(w, s)
<1>1. w \in World
  BY DEF Typed
<1>2. /\ x \in World
      /\ x.server = w.server /\ x.client = w.client /\ x.posted = w.posted /\ x.script = w.script
      /\ x.link = [w.link EXCEPT !.handed = [w.link.handed EXCEPT ![s] = w.link.taken[s]],
                                 !.valid_rcv_handler = [w.link.valid_rcv_handler EXCEPT ![s] = FALSE]]
  BY <1>1, HandOverIs
<1> HIDE DEF x
<1>3. /\ Same(w, x)
      /\ x.link.sent = w.link.sent /\ x.link.garbled = w.link.garbled
      /\ x.link.send_handler = w.link.send_handler
      /\ x.link.valid_send_handler = w.link.valid_send_handler
      /\ x.link.rcv_handler = w.link.rcv_handler
      /\ x.link.handed = [w.link.handed EXCEPT ![s] = w.link.taken[s]]
      /\ x.link.valid_rcv_handler = [w.link.valid_rcv_handler EXCEPT ![s] = FALSE]
  BY <1>1, <1>2 DEF Same, World, LinkType
<1>4. Querying(x) <=> Querying(w)
  BY <1>2 DEF Querying
<1>5. /\ w.link.handed \in [Side -> Nat] /\ w.link.taken \in [Side -> Nat]
      /\ w.link.valid_rcv_handler \in [Side -> BOOLEAN]
  BY <1>1 DEF World, LinkType
<1>6. HandlersFit(x)
  BY <1>2, <1>3, <1>4, <1>5, Sides DEF Typed, HandlersFit
<1>7. ScriptFits(x) /\ SegmentsFit(x) /\ CommandsFit(x)
  BY <1>2, <1>3, <1>4 DEF Typed, CommandsFit, ScriptFits, SegmentsFit, Same
<1>8. CountsFit(x)
  BY <1>3, <1>5 DEF Typed, CountsFit, Same
<1> QED
  BY <1>2, <1>3, <1>6, <1>7, <1>8 DEF Typed, HandsOver, x

SendFits(w, s, h) ==
  /\ s = "server" => IF Querying(w) THEN h = "close_connection" ELSE h = "final_send"
  /\ s = "client" => IF Querying(w) THEN h = "await_response"
                      ELSE \/ h = "client_finish"
                           \/ h = "handle_req" /\ w.client.commands > 0

SendsMore(w, s, segments, h, x) ==
  /\ Typed(x) /\ Same(w, x)
  /\ x.server = w.server /\ x.client = w.client /\ x.posted = w.posted
  /\ x.link.handed = w.link.handed
  /\ x.link.sent = [w.link.sent EXCEPT ![s] = w.link.sent[s] \o segments]
  /\ x.link.garbled <=> w.link.garbled \/ w.link.acked[s] < Len(w.link.sent[s])
  /\ x.link.send_handler = [w.link.send_handler EXCEPT ![s] = h]
  /\ x.link.valid_send_handler[s] <=> segments # <<>>
  /\ \A r \in Side : r # s =>
       x.link.valid_send_handler[r] = w.link.valid_send_handler[r]
  /\ x.link.rcv_handler = w.link.rcv_handler
  /\ x.link.valid_rcv_handler = w.link.valid_rcv_handler

LEMMA TypedSend ==
  ASSUME NEW w, Typed(w), NEW s \in Side, NEW segments \in Seq(Unit), NEW h \in SendNames,
         SendFits(w, s, h),
         s = "client" \/ ~Querying(w) =>
           \A k \in 1..Len(segments) : segments[k].n \in 1..Len(w.script)
  PROVE  SendsMore(w, s, segments, h, async_send(w, s, segments, h))
<1> DEFINE x == async_send(w, s, segments, h)
           data == w.link.sent[s] \o segments
<1>1. w \in World
  BY DEF Typed
<1>2. /\ x \in World
      /\ x.server = w.server /\ x.client = w.client /\ x.posted = w.posted /\ x.script = w.script
      /\ x.link.garbled <=> w.link.garbled \/ w.link.acked[s] < Len(w.link.sent[s])
      /\ x.link.valid_send_handler[s] <=> segments # <<>>
      /\ \E g, v \in BOOLEAN :
           x.link = [w.link EXCEPT !.garbled = g, !.sent = [w.link.sent EXCEPT ![s] = data],
                                 !.send_handler = [w.link.send_handler EXCEPT ![s] = h],
                                 !.valid_send_handler = [w.link.valid_send_handler EXCEPT ![s] = v]]
  <2>1. Sends(w, s, data, segments # <<>>, h, x)
    BY <1>1, AsyncSendIs, Zenon
  <2> QED
    BY <2>1, Zenon DEF Sends
<1>3. /\ w.link.sent \in [Side -> Seq(Unit)]
      /\ w.link.valid_send_handler \in [Side -> BOOLEAN] /\ w.link.send_handler \in [Side -> SendNames]
      /\ w.link.taken \in [Side -> Nat]
  BY <1>1 DEF World, LinkType
<1>4. /\ data \in Seq(Unit) /\ Len(data) = Len(w.link.sent[s]) + Len(segments)
      /\ \A p \in 1..Len(data) :
           \/ p <= Len(w.link.sent[s]) /\ data[p] = w.link.sent[s][p]
           \/ p - Len(w.link.sent[s]) \in 1..Len(segments)
              /\ data[p] = segments[p - Len(w.link.sent[s])]
  <2>1. w.link.sent[s] \in Seq(Unit)
    BY <1>3
  <2>2. /\ data \in Seq(Unit) /\ Len(data) = Len(w.link.sent[s]) + Len(segments)
        /\ \A p \in 1..Len(w.link.sent[s]) + Len(segments) :
             data[p] = IF p <= Len(w.link.sent[s]) THEN w.link.sent[s][p]
                                                   ELSE segments[p - Len(w.link.sent[s])]
    BY <2>1, ConcatProperties
  <2> DEFINE a == Len(w.link.sent[s])
             b == Len(segments)
  <2>3. a \in Nat /\ b \in Nat
    BY <2>1, LenProperties
  <2> HIDE DEF data, a, b
  <2>4. ASSUME NEW p \in 1..Len(data)
        PROVE  \/ p <= a /\ data[p] = w.link.sent[s][p]
               \/ p - a \in 1..b /\ data[p] = segments[p - a]
    <3>1. p \in 1..a + b /\ p \in Int /\ p >= 1 /\ p <= a + b
      BY <2>2, <2>3 DEF a, b
    <3>2. data[p] = IF p <= a THEN w.link.sent[s][p] ELSE segments[p - a]
      BY <2>2, <3>1 DEF a, b
    <3>3. ~(p <= a) => p - a \in 1..b
      BY <2>3, <3>1
    <3> QED
      BY <3>2, <3>3
  <2> QED
    BY <2>2, <2>4 DEF a, b
<1> HIDE DEF x, data
<1>5. PICK g \in BOOLEAN, v \in BOOLEAN :
           x.link = [w.link EXCEPT !.garbled = g, !.sent = [w.link.sent EXCEPT ![s] = data],
                                 !.send_handler = [w.link.send_handler EXCEPT ![s] = h],
                                 !.valid_send_handler = [w.link.valid_send_handler EXCEPT ![s] = v]]
  BY <1>2
<1>6. /\ Same(w, x)
      /\ x.link.handed = w.link.handed
      /\ x.link.sent = [w.link.sent EXCEPT ![s] = data]
      /\ x.link.send_handler = [w.link.send_handler EXCEPT ![s] = h]
      /\ x.link.valid_send_handler = [w.link.valid_send_handler EXCEPT ![s] = v]
      /\ x.link.rcv_handler = w.link.rcv_handler
      /\ x.link.valid_rcv_handler = w.link.valid_rcv_handler
  BY <1>1, <1>2, <1>5 DEF Same, World, LinkType
<1>7. Querying(x) <=> Querying(w)
  BY <1>2 DEF Querying
<1>8. HandlersFit(x)
  <2>1. CASE s = "server"
    BY <1>2, <1>3, <1>6, <1>7, <2>1, Sides DEF Typed, HandlersFit, SendFits
  <2>2. CASE s = "client"
    BY <1>2, <1>3, <1>6, <1>7, <2>2, Sides DEF Typed, HandlersFit, SendFits
  <2> QED
    BY <2>1, <2>2, Sides
<1>9. ScriptFits(x) /\ CommandsFit(x)
  <2>1. x.link.send_handler["client"] = IF s = "client" THEN h ELSE w.link.send_handler["client"]
    BY <1>3, <1>6, Sides
  <2> QED
    BY <1>2, <2>1 DEF Typed, ScriptFits, CommandsFit, SendFits
<1>10. SegmentsFit(x)
  <2>1. ASSUME s = "client" \/ ~Querying(w), NEW p \in 1..Len(data)
        PROVE  data[p].n \in 1..Len(w.script)
    <3>1. \A q \in 1..Len(w.link.sent[s]) : w.link.sent[s][q].n \in 1..Len(w.script)
      BY <2>1, Sides DEF Typed, SegmentsFit
    <3>2. \A k \in 1..Len(segments) : segments[k].n \in 1..Len(w.script)
      BY <2>1
    <3>3. CASE p <= Len(w.link.sent[s]) /\ data[p] = w.link.sent[s][p]
      <4>1. p \in 1..Len(w.link.sent[s])
        BY <1>3, <2>1, <3>3
      <4> QED
        BY <3>1, <3>3, <4>1
    <3>4. CASE /\ p - Len(w.link.sent[s]) \in 1..Len(segments)
               /\ data[p] = segments[p - Len(w.link.sent[s])]
      BY <3>2, <3>4
    <3> QED
      BY <1>4, <2>1, <3>3, <3>4
  <2>2. x.link.sent[s] = data /\ \A r \in Side : r # s => x.link.sent[r] = w.link.sent[r]
    BY <1>3, <1>6
  <2>3. CASE s = "server"
    BY <1>2, <1>7, <2>1, <2>2, <2>3, Sides DEF Typed, SegmentsFit
  <2>4. CASE s = "client"
    BY <1>2, <1>7, <2>1, <2>2, <2>4, Sides DEF Typed, SegmentsFit
  <2> QED
    BY <2>3, <2>4, Sides
<1>11. CountsFit(x)
  <2> SUFFICES ASSUME NEW r \in Side
               PROVE  Len(w.link.sent[Other(r)]) <= Len(x.link.sent[Other(r)])
    BY <1>3, <1>4, <1>6, Sides DEF Typed, CountsFit, Same
  <2> QED
    BY <1>3, <1>4, <1>6, Sides
<1>12. \A r \in Side : r # s => x.link.valid_send_handler[r] = w.link.valid_send_handler[r]
  BY <1>3, <1>6
<1> QED
  BY <1>2, <1>6, <1>8, <1>9, <1>10, <1>11, <1>12 DEF Typed, SendsMore, x, data

\* A change that leaves the connection alone.
LEMMA TypedRest ==
  ASSUME NEW w, Typed(w), NEW x \in World, x.link = w.link, x.script = w.script,
         x.client.commands <= Len(w.script), w.client.commands <= x.client.commands,
         x.client.prompt = "ask_then_post" => x.client.commands > 0
  PROVE  Typed(x) /\ Same(w, x)
<1>1. w \in World
  BY DEF Typed
<1>2. Querying(x) <=> Querying(w)
  BY DEF Querying
<1>3. w.client.commands \in Nat /\ x.client.commands \in Nat
  BY <1>1 DEF World, Client
<1>4. w.link.send_handler["client"] = "handle_req" => x.client.commands > 0
  <2>1. CommandsFit(w)
    BY DEF Typed
  <2> SUFFICES ASSUME w.link.send_handler["client"] = "handle_req"
               PROVE  x.client.commands > 0
    OBVIOUS
  <2>2. w.client.commands > 0
    BY <2>1 DEF CommandsFit
  <2> QED
    BY <1>3, <2>2
<1>5. CommandsFit(x)
  BY <1>4 DEF CommandsFit
<1>6. HandlersFit(x)
  BY <1>2 DEF Typed, HandlersFit
<1> QED
  BY <1>2, <1>5, <1>6 DEF Typed, Same, ScriptFits, SegmentsFit, CountsFit

-----------------------------------------------------------------------------
(* The handlers of the file server *)

\* A handler of the server ran: the client's side is as it was.
Serves(w, x) ==
  /\ Typed(x) /\ Same(w, x) /\ x.client = w.client
  /\ w.link.garbled => x.link.garbled
  /\ x.link.sent["client"] = w.link.sent["client"]
  /\ x.link.handed["client"] = w.link.handed["client"]
  /\ x.link.rcv_handler["client"] = w.link.rcv_handler["client"]
  /\ x.link.valid_rcv_handler["client"] = w.link.valid_rcv_handler["client"]
  /\ x.link.send_handler["client"] = w.link.send_handler["client"]
  /\ x.link.valid_send_handler["client"] = w.link.valid_send_handler["client"]

\* And it sent nothing, nor did it read.
Listens(w, x) ==
  /\ Serves(w, x)
  /\ x.link.sent = w.link.sent /\ x.link.handed = w.link.handed
  /\ x.link.garbled = w.link.garbled
  /\ x.link.valid_send_handler = w.link.valid_send_handler
  /\ x.link.send_handler = w.link.send_handler

LEMMA ServesSelf ==
  ASSUME NEW w, Typed(w)
  PROVE  Serves(w, w) /\ Listens(w, w)
BY DEF Serves, Listens, Same

LEMMA ServesAgain ==
  ASSUME NEW w, NEW x, NEW y, Serves(w, x), Serves(x, y)
  PROVE  Serves(w, y)
BY DEF Serves, Same

LEMMA ListensAgain ==
  ASSUME NEW w, NEW x, NEW y, Listens(w, x), Listens(x, y)
  PROVE  Listens(w, y)
BY ServesAgain DEF Listens

LEMMA ListensRest ==
  ASSUME NEW w, Typed(w), NEW x \in World,
         x.link = w.link, x.script = w.script, x.client = w.client
  PROVE  Listens(w, x)
<1>1. w \in World /\ w.client.commands <= Len(w.script) /\ CommandsFit(w)
  BY DEF Typed
<1>2. w.client.commands <= w.client.commands
  BY <1>1 DEF World, Client
<1>3. Typed(x) /\ Same(w, x)
  BY <1>1, <1>2, TypedRest DEF CommandsFit
<1> QED
  BY <1>3 DEF Listens, Serves

LEMMA ListensRegister ==
  ASSUME NEW w, Typed(w), NEW h, HandlerFits(w, "server", h)
  PROVE  Listens(w, register(w, "server", h))
<1> DEFINE x == register(w, "server", h)
<1>1. w.link.rcv_handler \in [Side -> RcvHandler] /\ w.link.valid_rcv_handler \in [Side -> BOOLEAN]
  BY DEF Typed, World, LinkType
<1>2. Registers(w, "server", h, x)
  BY TypedRegister, Sides
<1> HIDE DEF x
<1>3. /\ x.link.rcv_handler["client"] = w.link.rcv_handler["client"]
      /\ x.link.valid_rcv_handler["client"] = w.link.valid_rcv_handler["client"]
  BY <1>1, <1>2, Sides DEF Registers
<1> QED
  BY <1>2, <1>3 DEF Listens, Serves, Registers, x

LEMMA HandlerIs ==
  ASSUME NEW name \in RcvNames, NEW n \in Nat, NEW size \in Int, NEW index \in Nat
  PROVE  LET h == Handler(name, n, size, index) IN
         /\ h \in RcvHandler
         /\ h.name = name /\ h.n = n /\ h.size = size /\ h.current_index = index
BY DEF Handler, RcvHandler

LEMMA FtaListens ==
  ASSUME NEW w, Typed(w), ~Querying(w)
  PROVE  Listens(w, fta_rcv_handler(w))
<1> DEFINE h == Handler("rcv_respond", 0, 0, 0)
<1>1. HandlerFits(w, "server", h)
  <2>1. h \in RcvHandler /\ h.name = "rcv_respond"
    BY DEF Handler, RcvHandler, RcvNames
  <2> HIDE DEF h
  <2> QED
    BY <2>1 DEF HandlerFits
<1> QED
  BY <1>1, ListensRegister DEF fta_rcv_handler

LEMMA FinalSend ==
  ASSUME NEW w, Typed(w), ~Querying(w), NEW is_get, NEW killed
  PROVE  Listens(w, final_send(w, is_get, killed))
<1> DEFINE x == IF is_get THEN [w EXCEPT !.server.not_sending = TRUE]
                          ELSE [w EXCEPT !.server.not_receiving = TRUE]
<1>1. x \in World /\ x.link = w.link /\ x.script = w.script /\ x.client = w.client
  BY DEF Typed, World, Flags
<1>2. Listens(w, x)
  BY <1>1, ListensRest
<1> HIDE DEF x
<1>3. Listens(x, fta_rcv_handler(x))
  BY <1>1, <1>2, FtaListens DEF Listens, Serves, Querying
<1>4. Listens(w, fta_rcv_handler(x))
  BY <1>2, <1>3, ListensAgain
<1>5. final_send(w, is_get, killed) \in {x, fta_rcv_handler(x)}
  BY Zenon DEF final_send, x
<1> QED
  BY <1>2, <1>4, <1>5

\* The size a post is told, from a script or bound to a handler.
LEMMA PostSize ==
  ASSUME NEW w, Typed(w), NEW n \in 1..Len(w.script)
  PROVE  /\ w.script[n] \in Command
         /\ w.script[n].get \in Int /\ w.script[n].post \in Int
         /\ as_uint(w.script[n].post) \in Nat /\ as_int(as_uint(w.script[n].post)) \in Int
         /\ as_uint(w.script[n].get) \in Nat /\ as_int(as_uint(w.script[n].get)) \in Int
         /\ w.script[n].post >= 0 =>
              /\ as_uint(w.script[n].post) = w.script[n].post
              /\ as_int(as_uint(w.script[n].post)) = w.script[n].post
         /\ w.script[n].post < 0 => as_int(as_uint(w.script[n].post)) <= 0
         /\ w.script[n].get >= 0 => as_int(as_uint(w.script[n].get)) = w.script[n].get
         /\ w.script[n].get < 0 => as_int(as_uint(w.script[n].get)) <= 0
<1>1. w.script \in Seq(Command)
  BY DEF Typed, World
<1>2. w.script[n] \in Command
  BY <1>1
<1>3. w.script[n].get \in Int /\ w.script[n].post \in Int
  BY <1>2 DEF Command
<1>4. /\ w.script[n].get >= Absent /\ w.script[n].post >= Absent
      /\ 2 * w.script[n].get < Word /\ 2 * w.script[n].post < Word
  BY DEF Typed, ScriptFits
<1> QED
  BY <1>2, <1>3, <1>4, ConvertIs

LEMMA HandlerFitsIs ==
  ASSUME NEW w, Typed(w), ~Querying(w), NEW name \in {"first_post", "post"},
         NEW n \in 1..Len(w.script), NEW size \in Int, NEW index \in Nat
  PROVE  HandlerFits(w, "server", Handler(name, n, size, index))
<1> DEFINE h == Handler(name, n, size, index)
<1>1. n \in Nat
  OBVIOUS
<1>2. h \in RcvHandler /\ h.name = name /\ h.n = n
  BY <1>1 DEF Handler, RcvHandler, RcvNames
<1> HIDE DEF h
<1>3. HandlerFits(w, "server", h)
  BY <1>2 DEF HandlerFits
<1> QED
  BY <1>3 DEF h

\* The handler of a post drops what arrives when the file is complete.
PostSpent(w, kept) ==
  [w EXCEPT !.posted = kept,
            !.link.rcv_handler["server"].name = IF @ = "first_post" THEN "spent" ELSE @]

LEMMA SpentListens ==
  ASSUME NEW w, Typed(w), NEW kept \in Seq(Unit), ~w.link.valid_rcv_handler["server"]
  PROVE  LET x == PostSpent(w, kept) IN
         /\ Listens(w, x) /\ x.posted = kept
         /\ x.link.valid_rcv_handler = w.link.valid_rcv_handler
<1> DEFINE x == PostSpent(w, kept)
           h == w.link.rcv_handler["server"]
           g == [h EXCEPT !.name = IF h.name = "first_post" THEN "spent" ELSE h.name]
<1>1. w \in World /\ w.link.rcv_handler \in [Side -> RcvHandler] /\ h \in RcvHandler
  BY Sides DEF Typed, World, LinkType
<1>2. g \in RcvHandler /\ g.n = h.n /\ g.name \in {"spent", h.name}
  BY <1>1 DEF RcvHandler, RcvNames
<1>3. /\ x = [w EXCEPT !.posted = kept,
                       !.link = [w.link EXCEPT !.rcv_handler = [w.link.rcv_handler EXCEPT !["server"] = g]]]
  BY <1>1, Sides DEF PostSpent, World, LinkType
<1> HIDE DEF x, g
<1>4. /\ x \in World
      /\ x.server = w.server /\ x.client = w.client /\ x.posted = kept /\ x.script = w.script
      /\ x.link = [w.link EXCEPT !.rcv_handler = [w.link.rcv_handler EXCEPT !["server"] = g]]
  BY <1>1, <1>2, <1>3 DEF World, LinkType
<1>5. /\ Same(w, x)
      /\ x.link.handed = w.link.handed /\ x.link.sent = w.link.sent
      /\ x.link.garbled = w.link.garbled
      /\ x.link.send_handler = w.link.send_handler
      /\ x.link.valid_send_handler = w.link.valid_send_handler
      /\ x.link.rcv_handler = [w.link.rcv_handler EXCEPT !["server"] = g]
      /\ x.link.valid_rcv_handler = w.link.valid_rcv_handler
  BY <1>1, <1>4 DEF Same, World, LinkType
<1>6. x.link.rcv_handler["server"] = g /\ x.link.rcv_handler["client"] = w.link.rcv_handler["client"]
  BY <1>1, <1>5, Sides
<1>7. Querying(x) <=> Querying(w)
  BY <1>4 DEF Querying
<1>8. HandlersFit(x)
  BY <1>2, <1>4, <1>5, <1>6, <1>7 DEF Typed, HandlersFit
<1>9. ScriptFits(x) /\ SegmentsFit(x) /\ CountsFit(x) /\ CommandsFit(x)
  BY <1>4, <1>5, <1>7 DEF Typed, ScriptFits, SegmentsFit, CountsFit, CommandsFit, Same
<1> QED
  BY <1>4, <1>5, <1>6, <1>8, <1>9 DEF Typed, Listens, Serves, x

LEMMA PostListens ==
  ASSUME NEW w, Typed(w), ~Querying(w), NEW h \in RcvHandler, NEW data \in Seq(Unit),
         h.n \in 1..Len(w.script), h.name \in {"first_post", "post"},
         data # <<>> => ~w.link.valid_rcv_handler["server"]
  PROVE  Listens(w, post(w, h, data))
<1> DEFINE request_size == as_uint(w.script[h.n].post)
           first == h.size <= 0
           size == IF first THEN as_int(request_size) ELSE h.size
           kept == IF first THEN <<>> ELSE w.posted
           more == [w EXCEPT !.posted = kept \o data]
           next == Handler("post", h.n, size, h.current_index + Len(data))
           again == [h EXCEPT !.name = "post"]
<1>1. w \in World /\ w.posted \in Seq(Unit)
  BY DEF Typed, World
<1>2. size \in Int /\ request_size \in Nat /\ kept \in Seq(Unit)
  BY <1>1, PostSize, EmptySeq DEF RcvHandler
<1>3. h.current_index \in Nat /\ Len(data) \in Nat
  BY LenProperties DEF RcvHandler
<1> HIDE DEF size, request_size, kept
<1>4. Listens(w, register(more, "server", next))
  <2>1. /\ more \in World /\ more.link = w.link /\ more.script = w.script /\ more.client = w.client
    <3> DEFINE stored == kept \o data
    <3>1. stored \in Seq(Unit)
      BY <1>2, ConcatProperties
    <3> HIDE DEF stored
    <3>2. LET x == [w EXCEPT !.posted = stored] IN
          x \in World /\ x.link = w.link /\ x.script = w.script /\ x.client = w.client
      BY <1>1, <3>1 DEF World
    <3> QED
      BY <3>2 DEF stored
  <2>2. Listens(w, more)
    BY <2>1, ListensRest
  <2> HIDE DEF more
  <2>3. Typed(more) /\ ~Querying(more) /\ h.n \in 1..Len(more.script)
    BY <2>1, <2>2 DEF Listens, Serves, Querying
  <2>4. h.current_index + Len(data) \in Nat
    BY <1>3
  <2>5. HandlerFits(more, "server", next)
    BY <1>2, <2>3, <2>4, HandlerFitsIs
  <2> HIDE DEF next
  <2>6. Listens(more, register(more, "server", next))
    BY <2>3, <2>5, ListensRegister
  <2> QED
    BY <2>2, <2>6, ListensAgain
<1>5. data # <<>> => Listens(w, PostSpent(w, kept))
  BY <1>2, SpentListens
<1>6. Listens(w, final_send(w, FALSE, FALSE))
  BY FinalSend
<1>7. Listens(w, register(w, "server", again))
  <2>1. again \in RcvHandler /\ again.name = "post" /\ again.n = h.n
    BY DEF RcvHandler, RcvNames
  <2> HIDE DEF again
  <2>2. HandlerFits(w, "server", again)
    BY <2>1 DEF HandlerFits
  <2> QED
    BY <2>2, ListensRegister
<1> HIDE DEF more, next, again
<1>8. post(w, h, data) =
        CASE data # <<>> /\ h.current_index < size -> register(more, "server", next)
          [] data # <<>> /\ ~(h.current_index < size) -> PostSpent(w, kept)
          [] data = <<>> /\ h.current_index >= request_size -> final_send(w, FALSE, FALSE)
          [] OTHER -> register(w, "server", again)
  BY Zenon DEF post, PostSpent, request_size, first, size, kept, more, next, again
<1>9. \/ post(w, h, data) = register(more, "server", next)
      \/ post(w, h, data) = PostSpent(w, kept) /\ data # <<>>
      \/ post(w, h, data) = final_send(w, FALSE, FALSE)
      \/ post(w, h, data) = register(w, "server", again)
  BY <1>8
<1> QED
  BY <1>4, <1>5, <1>6, <1>7, <1>9

\* The file of command n as the server sends it.
FileOf(w, n) ==
  IF w.script[n].get > 0 THEN Message("get", n, w.script[n].get) ELSE <<Segment("get", n, 0)>>

\* A handler of the server read data, and answered the request it begins with.
Responds(w, data, x) ==
  /\ Serves(w, x) /\ x.link.handed = w.link.handed
  /\ \/ x.link.garbled
     \/ x.link.sent = w.link.sent /\ x.link.garbled = w.link.garbled
     \/ /\ data # <<>> /\ data[1].kind = "request" /\ Gets(w.script[data[1].n])
        /\ x.link.sent["server"] = w.link.sent["server"] \o FileOf(w, data[1].n)

LEMMA RespondsListens ==
  ASSUME NEW w, NEW x, NEW data, Listens(w, x)
  PROVE  Responds(w, data, x)
BY DEF Responds, Listens

LEMMA FileIs ==
  ASSUME NEW w, Typed(w), NEW n \in 1..Len(w.script)
  PROVE  /\ FileOf(w, n) \in Seq(Unit) /\ FileOf(w, n) # <<>>
         /\ \A k \in 1..Len(FileOf(w, n)) : FileOf(w, n)[k].n = n
         /\ w.script[n].get > 0 =>
              /\ Len(FileOf(w, n)) = w.script[n].get
              /\ \A k \in 1..w.script[n].get : FileOf(w, n)[k] = Segment("get", n, k)
         /\ ~(w.script[n].get > 0) =>
              Len(FileOf(w, n)) = 1 /\ FileOf(w, n)[1] = Segment("get", n, 0)
<1>1. w.script[n].get \in Int /\ n \in Nat /\ "get" \in Kinds
  BY PostSize DEF Kinds
<1>2. CASE w.script[n].get > 0
  <2>1. /\ FileOf(w, n) \in Seq(Unit) /\ Len(FileOf(w, n)) = w.script[n].get
        /\ \A k \in 1..w.script[n].get : FileOf(w, n)[k] = [kind |-> "get", n |-> n, k |-> k]
    <3> DEFINE m == Message("get", n, w.script[n].get)
    <3>1. FileOf(w, n) = m
      BY <1>2, Zenon DEF FileOf
    <3>2. /\ m \in Seq(Unit) /\ Len(m) = IF w.script[n].get > 0 THEN w.script[n].get ELSE 0
          /\ \A k \in 1..w.script[n].get : m[k] = [kind |-> "get", n |-> n, k |-> k]
      BY <1>1, MessageIs
    <3> HIDE DEF m
    <3> QED
      BY <1>2, <3>1, <3>2
  <2>2. FileOf(w, n) # <<>>
    BY <1>2, <2>1, EmptySeq
  <2>3. \A k \in 1..Len(FileOf(w, n)) : FileOf(w, n)[k].n = n
    <3> SUFFICES ASSUME NEW k \in 1..w.script[n].get PROVE FileOf(w, n)[k].n = n
      BY <2>1
    <3>1. FileOf(w, n)[k] = [kind |-> "get", n |-> n, k |-> k]
      BY <2>1
    <3> QED
      BY <3>1
  <2>4. \A k \in 1..w.script[n].get : FileOf(w, n)[k] = Segment("get", n, k)
    BY <2>1 DEF Segment
  <2> QED
    BY <1>2, <2>1, <2>2, <2>3, <2>4
<1>3. CASE ~(w.script[n].get > 0)
  <2>1. Segment("get", n, 0) \in Unit /\ Segment("get", n, 0).n = n
    BY <1>1 DEF Segment, Unit
  <2>2. FileOf(w, n) = <<Segment("get", n, 0)>>
    BY <1>3 DEF FileOf
  <2> QED
    BY <1>1, <1>3, <2>1, <2>2
<1> QED
  BY <1>2, <1>3

LEMMA GarbleServes ==
  ASSUME NEW w, Typed(w), NEW data
  PROVE  Responds(w, data, Garble(w))
<1> DEFINE x == Garble(w)
<1>1. w \in World
  BY DEF Typed
<1>2. /\ x \in World
      /\ x.server = w.server /\ x.client = w.client /\ x.posted = w.posted /\ x.script = w.script
      /\ x.link = [w.link EXCEPT !.garbled = TRUE]
  BY <1>1 DEF Garble, World, LinkType
<1> HIDE DEF x
<1>3. /\ Same(w, x) /\ x.link.garbled
      /\ x.link.handed = w.link.handed /\ x.link.sent = w.link.sent
      /\ x.link.send_handler = w.link.send_handler
      /\ x.link.valid_send_handler = w.link.valid_send_handler
      /\ x.link.rcv_handler = w.link.rcv_handler
      /\ x.link.valid_rcv_handler = w.link.valid_rcv_handler
  BY <1>1, <1>2 DEF Same, World, LinkType
<1>4. Querying(x) <=> Querying(w)
  BY <1>2 DEF Querying
<1>5. HandlersFit(x)
  BY <1>2, <1>3, <1>4 DEF Typed, HandlersFit
<1>6. ScriptFits(x) /\ SegmentsFit(x) /\ CountsFit(x) /\ CommandsFit(x)
  BY <1>2, <1>3, <1>4 DEF Typed, ScriptFits, SegmentsFit, CountsFit, CommandsFit, Same
<1> QED
  BY <1>2, <1>3, <1>5, <1>6 DEF Typed, Responds, Serves, x

LEMMA GetServes ==
  ASSUME NEW w, Typed(w), ~Querying(w), NEW n \in 1..Len(w.script)
  PROVE  /\ Serves(w, get(w, n)) /\ get(w, n).link.handed = w.link.handed
         /\ get(w, n).link.sent["server"] = w.link.sent["server"] \o FileOf(w, n)
<1> DEFINE f == FileOf(w, n)
           x == async_send(w, "server", f, "final_send")
<1>1. f \in Seq(Unit) /\ \A k \in 1..Len(f) : f[k].n \in 1..Len(w.script)
  BY FileIs
<1>2. "server" \in Side /\ "final_send" \in SendNames /\ SendFits(w, "server", "final_send")
  BY Sides DEF SendNames, SendFits
<1>3. get(w, n) = x
  BY Zenon DEF get, FileOf
<1> HIDE DEF f
<1>4. SendsMore(w, "server", f, "final_send", x)
  BY <1>1, <1>2, TypedSend
<1> HIDE DEF x
<1>5. /\ w.link.sent \in [Side -> Seq(Unit)] /\ w.link.send_handler \in [Side -> SendNames]
  BY DEF Typed, World, LinkType
<1>6. /\ x.link.sent["client"] = w.link.sent["client"]
      /\ x.link.sent["server"] = w.link.sent["server"] \o f
      /\ x.link.send_handler["client"] = w.link.send_handler["client"]
      /\ x.link.valid_send_handler["client"] = w.link.valid_send_handler["client"]
  BY <1>4, <1>5, Sides DEF SendsMore
<1> QED
  BY <1>3, <1>4, <1>6 DEF SendsMore, Serves, f

LEMMA RcvRespondServes ==
  ASSUME NEW w, Typed(w), ~Querying(w), NEW data \in Seq(Unit),
         data # <<>> => data[1].n \in 1..Len(w.script)
  PROVE  Responds(w, data, rcv_respond(w, data))
<1> DEFINE n == data[1].n
           c == w.script[n]
           waits == [w EXCEPT !.server.not_receiving = FALSE]
           h == Handler("first_post", n, 0, 0)
           x == IF Posts(c) THEN register(waits, "server", h) ELSE w
           y == [x EXCEPT !.server.not_sending = FALSE]
<1>1. CASE data = <<>>
  <2>1. rcv_respond(w, data) = fta_rcv_handler(w)
    BY <1>1, Zenon DEF rcv_respond
  <2> QED
    BY <2>1, FtaListens, RespondsListens
<1>2. CASE data # <<>> /\ data[1].kind # "request"
  <2>1. rcv_respond(w, data) = Garble(w)
    BY <1>2 DEF rcv_respond
  <2> QED
    BY <2>1, GarbleServes
<1>3. CASE data # <<>> /\ data[1].kind = "request"
  <2>1. n \in 1..Len(w.script)
    BY <1>3
  <2> HIDE DEF n
  <2>2. Listens(w, x)
    <3>1. CASE ~Posts(c)
      BY <3>1, ServesSelf
    <3>2. CASE Posts(c)
      <4>1. waits \in World /\ waits.link = w.link /\ waits.script = w.script /\ waits.client = w.client
        BY DEF Typed, World, Flags
      <4>2. Listens(w, waits)
        BY <4>1, ListensRest
      <4> HIDE DEF waits
      <4>3. Typed(waits) /\ ~Querying(waits) /\ n \in 1..Len(waits.script)
        BY <2>1, <4>1, <4>2 DEF Listens, Serves, Querying
      <4>4. HandlerFits(waits, "server", h)
        <5>1. "first_post" \in {"first_post", "post"} /\ 0 \in Int /\ 0 \in Nat
          OBVIOUS
        <5> QED
          BY <4>3, <5>1, HandlerFitsIs, Zenon
      <4> HIDE DEF h
      <4>5. Listens(waits, register(waits, "server", h))
        BY <4>3, <4>4, ListensRegister
      <4>6. Listens(w, register(waits, "server", h))
        BY <4>2, <4>5, ListensAgain
      <4> QED
        BY <3>2, <4>6
    <3> QED
      BY <3>1, <3>2
  <2> HIDE DEF x
  <2>3. Typed(x) /\ x.script = w.script /\ Listens(x, y)
    <3>1. Typed(x) /\ x.script = w.script
      BY <2>2 DEF Listens, Serves, Same
    <3>2. y \in World /\ y.link = x.link /\ y.script = x.script /\ y.client = x.client
      BY <3>1 DEF Typed, World, Flags
    <3> QED
      BY <3>1, <3>2, ListensRest
  <2> HIDE DEF y
  <2>4. rcv_respond(w, data) = IF Gets(c) THEN get(y, n) ELSE x
    <3>1. rcv_respond(w, data) =
            CASE data = <<>> -> fta_rcv_handler(w)
              [] data # <<>> /\ data[1].kind # "request" -> Garble(w)
              [] OTHER -> IF Gets(c) THEN get(y, n) ELSE x
      BY Zenon DEF rcv_respond, n, c, x, y, waits, h
    <3> QED
      BY <1>3, <3>1
  <2>5. CASE ~Gets(c)
    BY <2>2, <2>4, <2>5, RespondsListens
  <2>6. CASE Gets(c)
    <3>1. Listens(w, y)
      BY <2>2, <2>3, ListensAgain
    <3>2. Typed(y) /\ ~Querying(y) /\ n \in 1..Len(y.script) /\ y.script = w.script
      BY <2>1, <3>1 DEF Listens, Serves, Same, Querying
    <3>3. /\ Serves(y, get(y, n)) /\ get(y, n).link.handed = y.link.handed
          /\ get(y, n).link.sent["server"] = y.link.sent["server"] \o FileOf(y, n)
      BY <3>2, GetServes
    <3>4. FileOf(y, n) = FileOf(w, n)
      BY <3>2 DEF FileOf
    <3>5. Serves(w, get(y, n))
      BY <3>1, <3>3, ServesAgain DEF Listens
    <3>6. rcv_respond(w, data) = get(y, n)
      BY <2>4, <2>6
    <3> QED
      BY <1>3, <2>6, <3>1, <3>3, <3>4, <3>5, <3>6 DEF Responds, Listens, n
  <2> QED
    BY <2>5, <2>6
<1> QED
  BY <1>1, <1>2, <1>3

\* The server read a request, and answers it.
Answers(w, x) ==
  LET p == w.link.handed["server"] + 1
      u == w.link.sent["client"][p]
  IN  /\ p <= w.link.taken["server"] /\ x.link.handed["server"] = w.link.taken["server"]
      /\ u.kind = "request" /\ Gets(w.script[u.n])
      /\ x.link.sent["server"] = w.link.sent["server"] \o FileOf(w, u.n)

\* The server took what there was to read, or left it, and perhaps answered.
Reads(w, x) ==
  /\ Serves(w, x) /\ Drained(x, "server")
  /\ x.link.handed["server"] \in {w.link.handed["server"], w.link.taken["server"]}
  /\ \/ x.link.garbled
     \/ x.link.sent = w.link.sent /\ x.link.garbled = w.link.garbled
     \/ Answers(w, x)

LEMMA ListensReads ==
  ASSUME NEW w, NEW x, Listens(w, x), Drained(x, "server")
  PROVE  Reads(w, x)
BY DEF Reads, Listens

\* What there is to read.
LEMMA UnreadByServer ==
  ASSUME NEW w, Typed(w)
  PROVE  LET data == unread(w, "server")
             a == w.link.handed["server"]
         IN  /\ data \in Seq(Unit)
             /\ Len(data) = w.link.taken["server"] - a
             /\ data = <<>> <=> w.link.taken["server"] = a
             /\ data # <<>> => /\ a + 1 <= w.link.taken["server"]
                               /\ data[1] = w.link.sent["client"][a + 1]
                               /\ data[1].n \in 1..Len(w.script)
<1> DEFINE data == unread(w, "server")
           a == w.link.handed["server"]
           b == w.link.taken["server"]
           sent == w.link.sent["client"]
<1>1. w \in World /\ "server" \in Side /\ a <= b /\ b <= Len(sent)
  BY Sides DEF Typed, CountsFit
<1>2. a \in Nat /\ b \in Nat /\ sent \in Seq(Unit)
  BY <1>1, Sides DEF World, LinkType
<1>3. /\ data \in Seq(Unit) /\ Len(data) = b - a
      /\ \A k \in 1..Len(data) : data[k] = sent[a + k]
      /\ data = <<>> <=> b = a
  BY <1>1, UnreadIs, Sides
<1>4. \A p \in 1..Len(sent) : sent[p].n \in 1..Len(w.script)
  BY DEF Typed, SegmentsFit
<1> HIDE DEF data, a, b, sent
<1>5. ASSUME data # <<>> PROVE a + 1 <= b /\ data[1] = sent[a + 1] /\ data[1].n \in 1..Len(w.script)
  <2>1. a <= b /\ b <= Len(sent) /\ Len(data) = b - a /\ a # b
    BY <1>1, <1>3, <1>5, Zenon DEF a, b, sent, data
  <2>2. a + 1 <= b /\ a + 1 \in 1..Len(sent) /\ 1 \in 1..Len(data)
    <3>1. Len(sent) \in Nat
      BY <1>2
    <3> QED
      BY <1>2, <2>1, <3>1
  <2>3. data[1] = sent[a + 1]
    BY <1>3, <2>2 DEF a, b, sent, data
  <2> QED
    BY <1>4, <2>2, <2>3
<1> QED
  BY <1>3, <1>5 DEF data, a, b, sent

LEMMA HandOverServes ==
  ASSUME NEW w, Typed(w)
  PROVE  LET y == hand_over(w, "server") IN
         /\ Serves(w, y)
         /\ y.link.handed["server"] = w.link.taken["server"]
         /\ y.link.sent = w.link.sent /\ y.link.garbled = w.link.garbled
         /\ ~y.link.valid_rcv_handler["server"]
         /\ y.link.rcv_handler = w.link.rcv_handler
         /\ y.link.send_handler = w.link.send_handler
         /\ y.link.valid_send_handler = w.link.valid_send_handler
         /\ y.posted = w.posted /\ y.server = w.server
<1> DEFINE y == hand_over(w, "server")
<1>1. HandsOver(w, "server", y)
  BY TypedHandOver, Sides
<1>2. w.link.handed \in [Side -> Nat] /\ w.link.valid_rcv_handler \in [Side -> BOOLEAN]
  BY DEF Typed, World, LinkType
<1> HIDE DEF y
<1>3. /\ y.link.handed["server"] = w.link.taken["server"]
      /\ y.link.handed["client"] = w.link.handed["client"]
      /\ y.link.valid_rcv_handler["client"] = w.link.valid_rcv_handler["client"]
      /\ ~y.link.valid_rcv_handler["server"]
  BY <1>1, <1>2, Sides DEF HandsOver
<1> QED
  BY <1>1, <1>3 DEF HandsOver, Serves, y

LEMMA ReadRespond ==
  ASSUME NEW w, Typed(w), ~Querying(w)
  PROVE  Reads(w, rcv_respond(hand_over(w, "server"), unread(w, "server")))
<1> DEFINE data == unread(w, "server")
           y == hand_over(w, "server")
           x == rcv_respond(y, data)
<1>1. /\ Serves(w, y)
      /\ y.link.handed["server"] = w.link.taken["server"]
      /\ y.link.sent = w.link.sent /\ y.link.garbled = w.link.garbled
  BY HandOverServes
<1>2. /\ data \in Seq(Unit)
      /\ data # <<>> => /\ w.link.handed["server"] + 1 <= w.link.taken["server"]
                        /\ data[1] = w.link.sent["client"][w.link.handed["server"] + 1]
                        /\ data[1].n \in 1..Len(w.script)
  BY UnreadByServer
<1> HIDE DEF data, y
<1>3. Typed(y) /\ ~Querying(y) /\ y.script = w.script /\ y.link.taken = w.link.taken
  BY <1>1 DEF Serves, Same, Querying
<1>4. Responds(y, data, x)
  BY <1>2, <1>3, RcvRespondServes
<1> HIDE DEF x
<1>5. Serves(w, x)
  BY <1>1, <1>4, ServesAgain DEF Responds
<1>6. x.link.handed["server"] = w.link.taken["server"] /\ Drained(x, "server")
  BY <1>1, <1>3, <1>4 DEF Responds, Serves, Same, Drained
<1>7. \A n : FileOf(y, n) = FileOf(w, n)
  BY <1>3 DEF FileOf
<1>8. \/ x.link.garbled
      \/ x.link.sent = w.link.sent /\ x.link.garbled = w.link.garbled
      \/ /\ data # <<>> /\ data[1].kind = "request" /\ Gets(w.script[data[1].n])
         /\ x.link.sent["server"] = w.link.sent["server"] \o FileOf(w, data[1].n)
  BY <1>1, <1>3, <1>4, <1>7 DEF Responds
<1>9. Reads(w, x)
  BY <1>2, <1>5, <1>6, <1>8 DEF Reads, Answers
<1> QED
  BY <1>9 DEF x, y, data

LEMMA ReadPost ==
  ASSUME NEW w, Typed(w), ~Querying(w),
         w.link.rcv_handler["server"].name \in {"first_post", "post"}
  PROVE  Reads(w, post(hand_over(w, "server"), w.link.rcv_handler["server"], unread(w, "server")))
<1> DEFINE data == unread(w, "server")
           h == w.link.rcv_handler["server"]
           y == hand_over(w, "server")
           x == post(y, h, data)
<1>1. /\ Serves(w, y)
      /\ y.link.handed["server"] = w.link.taken["server"]
      /\ y.link.sent = w.link.sent /\ y.link.garbled = w.link.garbled
      /\ ~y.link.valid_rcv_handler["server"]
  BY HandOverServes
<1>2. data \in Seq(Unit)
  BY UnreadByServer
<1>3. h \in RcvHandler /\ h.n \in 1..Len(w.script)
  BY Sides DEF Typed, World, LinkType, HandlersFit
<1> HIDE DEF data, y
<1>4. Typed(y) /\ ~Querying(y) /\ y.script = w.script /\ y.link.taken = w.link.taken
  BY <1>1 DEF Serves, Same, Querying
<1>5. Listens(y, x)
  BY <1>1, <1>2, <1>3, <1>4, PostListens
<1> HIDE DEF x
<1>6. Serves(w, x)
  BY <1>1, <1>5, ServesAgain DEF Listens
<1>7. /\ x.link.handed["server"] = w.link.taken["server"] /\ Drained(x, "server")
      /\ x.link.sent = w.link.sent /\ x.link.garbled = w.link.garbled
  BY <1>1, <1>4, <1>5 DEF Listens, Serves, Same, Drained
<1>8. Reads(w, x)
  BY <1>6, <1>7 DEF Reads
<1> QED
  BY <1>8 DEF x, y, data

\* call_rcv_handler at the file server.
LEMMA ServerCalled ==
  ASSUME NEW w, Typed(w), ~Querying(w)
  PROVE  Reads(w, call_rcv_handler(w, "server"))
<1> DEFINE h == w.link.rcv_handler["server"]
<1>1. CASE ~w.link.valid_rcv_handler["server"]
  <2>1. call_rcv_handler(w, "server") = w
    BY <1>1 DEF call_rcv_handler
  <2> QED
    BY <1>1, <2>1, ServesSelf, ListensReads DEF Drained
<1>2. CASE w.link.valid_rcv_handler["server"] /\ h.name = "rcv_respond"
  <2>1. call_rcv_handler(w, "server") = rcv_respond(hand_over(w, "server"), unread(w, "server"))
    BY <1>2 DEF call_rcv_handler
  <2> QED
    BY <2>1, ReadRespond
<1>3. CASE w.link.valid_rcv_handler["server"] /\ h.name \in {"first_post", "post"}
  <2>1. call_rcv_handler(w, "server") = post(hand_over(w, "server"), h, unread(w, "server"))
    BY <1>3 DEF call_rcv_handler
  <2> QED
    BY <1>3, <2>1, ReadPost
<1> QED
  BY <1>1, <1>2, <1>3 DEF Typed, HandlersFit

LEMMA FileSent ==
  ASSUME NEW w, Typed(w), ~Querying(w)
  PROVE  Reads(w, file_sent(w))
<1> DEFINE x == final_send(w, TRUE, FALSE)
<1>1. Listens(w, x)
  BY FinalSend
<1> HIDE DEF x
<1>2. Typed(x) /\ ~Querying(x) /\ x.script = w.script
  BY <1>1 DEF Listens, Serves, Same, Querying
<1>3. unread(x, "server") = unread(w, "server")
  BY <1>1 DEF unread, Listens, Serves, Same
<1>4. CASE x.link.valid_rcv_handler["server"] /\ unread(x, "server") # <<>>
  <2>1. file_sent(w) = rcv_respond(hand_over(x, "server"), unread(x, "server"))
    BY <1>4, Zenon DEF file_sent, x
  <2>2. Reads(x, file_sent(w))
    BY <1>2, <2>1, ReadRespond
  <2>3. \A n : FileOf(x, n) = FileOf(w, n)
    BY <1>2 DEF FileOf
  <2>4. Serves(w, file_sent(w))
    BY <1>1, <2>2, ServesAgain DEF Listens, Reads
  <2> QED
    BY <1>1, <1>2, <2>2, <2>3, <2>4 DEF Reads, Answers, Listens, Serves, Same
<1>5. CASE ~(x.link.valid_rcv_handler["server"] /\ unread(x, "server") # <<>>)
  <2>1. file_sent(w) = x
    BY <1>5, Zenon DEF file_sent, x
  <2>2. Drained(x, "server")
    BY <1>2, <1>5, UnreadByServer DEF Drained
  <2> QED
    BY <1>1, <2>1, <2>2, ListensReads
<1> QED
  BY <1>4, <1>5

\* handle_fin at the file server, up to the end of the two handlers.
LEMMA ServerFin ==
  ASSUME NEW w, Typed(w), ~Querying(w)
  PROVE  Listens(w, fta_server_fin(w))
<1> DEFINE h == w.link.rcv_handler["server"]
           x == IF w.link.send_handler["server"] = "final_send"
                THEN final_send(w, TRUE, TRUE) ELSE w
<1>1. Listens(w, x)
  BY FinalSend, ServesSelf
<1> HIDE DEF x
<1>2. Typed(x) /\ ~Querying(x) /\ x.script = w.script
  BY <1>1 DEF Listens, Serves, Same, Querying
<1>3. h \in RcvHandler
  BY Sides DEF Typed, World, LinkType
<1>4. \/ fta_server_fin(w) = final_send(x, FALSE, TRUE)
      \/ h.name = "first_post" /\ fta_server_fin(w) = post(x, h, <<>>)
      \/ fta_server_fin(w) = x
  <2>1. fta_server_fin(w) =
          CASE h.name = "post" -> final_send(x, FALSE, TRUE)
            [] h.name = "first_post" -> post(x, h, <<>>)
            [] OTHER -> x
    BY Zenon DEF fta_server_fin, x
  <2> HIDE DEF h
  <2> QED
    BY <2>1
<1>5. CASE h.name = "first_post" /\ fta_server_fin(w) = post(x, h, <<>>)
  <2>1. h.n \in 1..Len(x.script)
    BY <1>2, <1>5 DEF Typed, HandlersFit
  <2>2. Listens(x, post(x, h, <<>>))
    BY <1>2, <1>3, <1>5, <2>1, EmptySeq, PostListens
  <2> QED
    BY <1>1, <1>5, <2>2, ListensAgain
<1>6. CASE fta_server_fin(w) = final_send(x, FALSE, TRUE)
  <2>1. Listens(x, final_send(x, FALSE, TRUE))
    BY <1>2, FinalSend
  <2> QED
    BY <1>1, <1>6, <2>1, ListensAgain
<1> QED
  BY <1>1, <1>4, <1>5, <1>6

-----------------------------------------------------------------------------
(* What the network does to a connection *)

TakesDown(w, s, x) ==
  /\ Typed(x)
  /\ x.script = w.script /\ x.server = w.server /\ x.client = w.client /\ x.posted = w.posted
  /\ x.link.sent = w.link.sent /\ x.link.taken = w.link.taken /\ x.link.acked = w.link.acked
  /\ x.link.handed = w.link.handed /\ x.link.garbled = w.link.garbled
  /\ x.link.rcv_handler = w.link.rcv_handler /\ x.link.send_handler = w.link.send_handler
  /\ ~x.link.up[s] /\ ~x.link.valid_rcv_handler[s] /\ ~x.link.valid_send_handler[s]
  /\ x.link.up[Other(s)] = w.link.up[Other(s)]
  /\ x.link.valid_rcv_handler[Other(s)] = w.link.valid_rcv_handler[Other(s)]
  /\ x.link.valid_send_handler[Other(s)] = w.link.valid_send_handler[Other(s)]

LEMMA TypedDown ==
  ASSUME NEW w, Typed(w), NEW s \in Side
  PROVE  TakesDown(w, s, take_down(w, s))
<1> DEFINE x == take_down(w, s)
<1>1. w \in World
  BY DEF Typed
<1>2. /\ x \in World
      /\ x.server = w.server /\ x.client = w.client /\ x.posted = w.posted /\ x.script = w.script
      /\ x.link = [w.link EXCEPT !.up = [w.link.up EXCEPT ![s] = FALSE],
                             !.valid_send_handler = [w.link.valid_send_handler EXCEPT ![s] = FALSE],
                             !.valid_rcv_handler = [w.link.valid_rcv_handler EXCEPT ![s] = FALSE]]
  BY <1>1, TakeDownIs
<1> HIDE DEF x
<1>3. /\ x.link.sent = w.link.sent /\ x.link.taken = w.link.taken /\ x.link.acked = w.link.acked
      /\ x.link.handed = w.link.handed /\ x.link.garbled = w.link.garbled
      /\ x.link.rcv_handler = w.link.rcv_handler /\ x.link.send_handler = w.link.send_handler
      /\ x.link.up = [w.link.up EXCEPT ![s] = FALSE]
      /\ x.link.valid_send_handler = [w.link.valid_send_handler EXCEPT ![s] = FALSE]
      /\ x.link.valid_rcv_handler = [w.link.valid_rcv_handler EXCEPT ![s] = FALSE]
  BY <1>1, <1>2 DEF World, LinkType
<1>4. /\ w.link.up \in [Side -> BOOLEAN] /\ w.link.valid_rcv_handler \in [Side -> BOOLEAN]
      /\ w.link.valid_send_handler \in [Side -> BOOLEAN]
  BY <1>1 DEF World, LinkType
<1>5. /\ ~x.link.up[s] /\ ~x.link.valid_rcv_handler[s] /\ ~x.link.valid_send_handler[s]
      /\ x.link.up[Other(s)] = w.link.up[Other(s)]
      /\ x.link.valid_rcv_handler[Other(s)] = w.link.valid_rcv_handler[Other(s)]
      /\ x.link.valid_send_handler[Other(s)] = w.link.valid_send_handler[Other(s)]
  <2>1. Other(s) \in Side /\ Other(s) # s
    BY Sides
  <2>2. ~x.link.up[s] /\ x.link.up[Other(s)] = w.link.up[Other(s)]
    BY <1>3, <1>4, <2>1
  <2>3. /\ ~x.link.valid_rcv_handler[s]
        /\ x.link.valid_rcv_handler[Other(s)] = w.link.valid_rcv_handler[Other(s)]
    BY <1>3, <1>4, <2>1
  <2>4. /\ ~x.link.valid_send_handler[s]
        /\ x.link.valid_send_handler[Other(s)] = w.link.valid_send_handler[Other(s)]
    BY <1>3, <1>4, <2>1
  <2> QED
    BY <2>2, <2>3, <2>4
<1>6. Querying(x) <=> Querying(w)
  BY <1>2 DEF Querying
<1>7. HandlersFit(x)
  <2>1. CASE s = "server"
    BY <1>2, <1>3, <1>5, <1>6, <2>1, Sides DEF Typed, HandlersFit
  <2>2. CASE s = "client"
    BY <1>2, <1>3, <1>5, <1>6, <2>2, Sides DEF Typed, HandlersFit
  <2> QED
    BY <2>1, <2>2, Sides
<1>8. ScriptFits(x) /\ SegmentsFit(x) /\ CountsFit(x) /\ CommandsFit(x)
  BY <1>2, <1>3, <1>6 DEF Typed, ScriptFits, SegmentsFit, CountsFit, CommandsFit
<1> QED
  BY <1>2, <1>3, <1>5, <1>7, <1>8 DEF Typed, TakesDown, x

\* A datagram moves the counts only.
Moves(w, x) ==
  /\ Typed(x)
  /\ x.script = w.script /\ x.server = w.server /\ x.client = w.client /\ x.posted = w.posted
  /\ x.link.up = w.link.up /\ x.link.sent = w.link.sent /\ x.link.handed = w.link.handed
  /\ x.link.garbled = w.link.garbled
  /\ x.link.rcv_handler = w.link.rcv_handler /\ x.link.send_handler = w.link.send_handler
  /\ x.link.valid_rcv_handler = w.link.valid_rcv_handler
  /\ x.link.valid_send_handler = w.link.valid_send_handler

LEMMA TypedTake ==
  ASSUME NEW w, Typed(w), NEW s \in Side,
         NEW n \in w.link.taken[s] + 1 .. Len(w.link.sent[Other(s)])
  PROVE  LET x == [w EXCEPT !.link.taken[s] = n] IN
         /\ Moves(w, x) /\ x.link.taken[s] = n
         /\ x.link.taken[Other(s)] = w.link.taken[Other(s)]
<1> DEFINE x == [w EXCEPT !.link.taken[s] = n]
<1>1. /\ w \in World /\ w.link.taken \in [Side -> Nat] /\ w.link.handed \in [Side -> Nat]
      /\ w.link.acked \in [Side -> Nat] /\ w.link.sent \in [Side -> Seq(Unit)]
  BY DEF Typed, World, LinkType
<1>2. n \in Nat /\ w.link.taken[s] < n /\ n <= Len(w.link.sent[Other(s)])
  BY <1>1
<1>3. /\ x \in World
      /\ x.server = w.server /\ x.client = w.client /\ x.posted = w.posted /\ x.script = w.script
      /\ x.link = [w.link EXCEPT !.taken = [w.link.taken EXCEPT ![s] = n]]
  BY <1>1, <1>2 DEF World, LinkType
<1> HIDE DEF x
<1>4. /\ x.link.up = w.link.up /\ x.link.sent = w.link.sent /\ x.link.handed = w.link.handed
      /\ x.link.garbled = w.link.garbled /\ x.link.acked = w.link.acked
      /\ x.link.rcv_handler = w.link.rcv_handler /\ x.link.send_handler = w.link.send_handler
      /\ x.link.valid_rcv_handler = w.link.valid_rcv_handler
      /\ x.link.valid_send_handler = w.link.valid_send_handler
      /\ x.link.taken = [w.link.taken EXCEPT ![s] = n]
  BY <1>1, <1>3 DEF World, LinkType
<1>5. Querying(x) <=> Querying(w)
  BY <1>3 DEF Querying
<1>6. ScriptFits(x) /\ SegmentsFit(x) /\ CommandsFit(x) /\ HandlersFit(x)
  BY <1>3, <1>4, <1>5 DEF Typed, ScriptFits, SegmentsFit, CommandsFit, HandlersFit
<1>7. x.link.taken[s] = n /\ x.link.taken[Other(s)] = w.link.taken[Other(s)]
  BY <1>1, <1>4, Sides
<1>8. CountsFit(x)
  <2> SUFFICES ASSUME NEW r \in Side
               PROVE  /\ x.link.taken[r] <= Len(x.link.sent[Other(r)])
                      /\ x.link.handed[r] <= x.link.taken[r]
                      /\ x.link.acked[Other(r)] <= x.link.taken[r]
    BY DEF CountsFit
  <2>1. /\ w.link.taken[r] <= Len(w.link.sent[Other(r)])
        /\ w.link.handed[r] <= w.link.taken[r]
        /\ w.link.acked[Other(r)] <= w.link.taken[r]
    BY DEF Typed, CountsFit
  <2>2. /\ w.link.handed[r] \in Nat /\ w.link.acked[Other(r)] \in Nat /\ w.link.taken[r] \in Nat
    BY <1>1, Sides
  <2>3. CASE r = s
    BY <1>2, <1>4, <1>7, <2>1, <2>2, <2>3
  <2>4. CASE r # s
    BY <1>1, <1>4, <2>1, <2>4
  <2> QED
    BY <2>3, <2>4
<1> QED
  BY <1>3, <1>4, <1>6, <1>7, <1>8 DEF Typed, Moves, x

LEMMA TypedAck ==
  ASSUME NEW w, Typed(w), NEW s \in Side,
         NEW n \in w.link.acked[s] + 1 .. w.link.taken[Other(s)]
  PROVE  LET x == [w EXCEPT !.link.acked[s] = n] IN
         /\ Moves(w, x) /\ x.link.taken = w.link.taken
         /\ x.link.acked[s] = n /\ x.link.acked[Other(s)] = w.link.acked[Other(s)]
<1> DEFINE x == [w EXCEPT !.link.acked[s] = n]
<1>1. /\ w \in World /\ w.link.taken \in [Side -> Nat] /\ w.link.handed \in [Side -> Nat]
      /\ w.link.acked \in [Side -> Nat]
  BY DEF Typed, World, LinkType
<1>2. n \in Nat /\ n <= w.link.taken[Other(s)]
  BY <1>1, Sides
<1>3. /\ x \in World
      /\ x.server = w.server /\ x.client = w.client /\ x.posted = w.posted /\ x.script = w.script
      /\ x.link = [w.link EXCEPT !.acked = [w.link.acked EXCEPT ![s] = n]]
  BY <1>1, <1>2 DEF World, LinkType
<1> HIDE DEF x
<1>4. /\ x.link.up = w.link.up /\ x.link.sent = w.link.sent /\ x.link.handed = w.link.handed
      /\ x.link.garbled = w.link.garbled /\ x.link.taken = w.link.taken
      /\ x.link.rcv_handler = w.link.rcv_handler /\ x.link.send_handler = w.link.send_handler
      /\ x.link.valid_rcv_handler = w.link.valid_rcv_handler
      /\ x.link.valid_send_handler = w.link.valid_send_handler
      /\ x.link.acked = [w.link.acked EXCEPT ![s] = n]
  BY <1>1, <1>3 DEF World, LinkType
<1>5. Querying(x) <=> Querying(w)
  BY <1>3 DEF Querying
<1>6. ScriptFits(x) /\ SegmentsFit(x) /\ CommandsFit(x) /\ HandlersFit(x)
  BY <1>3, <1>4, <1>5 DEF Typed, ScriptFits, SegmentsFit, CommandsFit, HandlersFit
<1>7. x.link.acked[s] = n /\ x.link.acked[Other(s)] = w.link.acked[Other(s)]
  BY <1>1, <1>4, Sides
<1>8. CountsFit(x)
  <2> SUFFICES ASSUME NEW r \in Side PROVE x.link.acked[Other(r)] <= x.link.taken[r]
    BY <1>4 DEF Typed, CountsFit
  <2>1. CASE Other(r) = s
    BY <1>2, <1>4, <1>7, <2>1, Sides
  <2>2. CASE Other(r) = Other(s)
    BY <1>4, <1>7, <2>2 DEF Typed, CountsFit
  <2> QED
    BY <2>1, <2>2, Sides
<1> QED
  BY <1>3, <1>4, <1>6, <1>7, <1>8 DEF Typed, Moves, x

\* What call_send_handler does before it calls the handler.
Clear(w, s) == [w EXCEPT !.link.valid_send_handler[s] = FALSE]

Clears(w, s, x) ==
  /\ Typed(x) /\ Same(w, x)
  /\ x.server = w.server /\ x.client = w.client /\ x.posted = w.posted
  /\ x.link.sent = w.link.sent /\ x.link.handed = w.link.handed
  /\ x.link.garbled = w.link.garbled
  /\ x.link.rcv_handler = w.link.rcv_handler /\ x.link.send_handler = w.link.send_handler
  /\ x.link.valid_rcv_handler = w.link.valid_rcv_handler
  /\ ~x.link.valid_send_handler[s]
  /\ x.link.valid_send_handler[Other(s)] = w.link.valid_send_handler[Other(s)]

LEMMA TypedClear ==
  ASSUME NEW w, Typed(w), NEW s \in Side
  PROVE  Clears(w, s, Clear(w, s))
<1> DEFINE x == Clear(w, s)
<1>1. w \in World /\ w.link.valid_send_handler \in [Side -> BOOLEAN]
  BY DEF Typed, World, LinkType
<1>2. /\ x \in World
      /\ x.server = w.server /\ x.client = w.client /\ x.posted = w.posted /\ x.script = w.script
      /\ x.link = [w.link EXCEPT !.valid_send_handler = [w.link.valid_send_handler EXCEPT ![s] = FALSE]]
  BY <1>1 DEF Clear, World, LinkType
<1> HIDE DEF x
<1>3. /\ Same(w, x)
      /\ x.link.sent = w.link.sent /\ x.link.handed = w.link.handed
      /\ x.link.garbled = w.link.garbled
      /\ x.link.rcv_handler = w.link.rcv_handler /\ x.link.send_handler = w.link.send_handler
      /\ x.link.valid_rcv_handler = w.link.valid_rcv_handler
      /\ x.link.valid_send_handler = [w.link.valid_send_handler EXCEPT ![s] = FALSE]
  BY <1>1, <1>2 DEF Same, World, LinkType
<1>4. /\ ~x.link.valid_send_handler[s]
      /\ x.link.valid_send_handler[Other(s)] = w.link.valid_send_handler[Other(s)]
  BY <1>1, <1>3, Sides
<1>5. Querying(x) <=> Querying(w)
  BY <1>2 DEF Querying
<1>6. HandlersFit(x)
  <2>1. CASE s = "server"
    BY <1>2, <1>3, <1>4, <1>5, <2>1, Sides DEF Typed, HandlersFit
  <2>2. CASE s = "client"
    BY <1>2, <1>3, <1>4, <1>5, <2>2, Sides DEF Typed, HandlersFit
  <2> QED
    BY <2>1, <2>2, Sides
<1>7. ScriptFits(x) /\ SegmentsFit(x) /\ CountsFit(x) /\ CommandsFit(x)
  BY <1>2, <1>3, <1>5 DEF Typed, ScriptFits, SegmentsFit, CountsFit, CommandsFit, Same
<1> QED
  BY <1>2, <1>3, <1>4, <1>6, <1>7 DEF Typed, Clears, x

LEMMA AnswersSame ==
  ASSUME NEW w, NEW x, NEW y, Answers(x, y), x.script = w.script,
         x.link.handed["server"] = w.link.handed["server"],
         x.link.taken["server"] = w.link.taken["server"],
         x.link.sent["client"] = w.link.sent["client"],
         x.link.sent["server"] = w.link.sent["server"]
  PROVE  Answers(w, y)
<1>1. \A n : FileOf(x, n) = FileOf(w, n)
  BY DEF FileOf
<1>2. FileOf(x, x.link.sent["client"][x.link.handed["server"] + 1].n)
        = FileOf(w, w.link.sent["client"][w.link.handed["server"] + 1].n)
  BY <1>1, Zenon
<1> QED
  BY <1>2, Zenon DEF Answers

LEMMA ReadsAgain ==
  ASSUME NEW w, NEW x, NEW y, Typed(w), Reads(w, x), Reads(x, y)
  PROVE  Reads(w, y)
<1>1. Serves(w, y)
  BY ServesAgain DEF Reads
<1>2. x.script = w.script /\ x.link.taken = w.link.taken /\ x.link.sent["client"] = w.link.sent["client"]
  BY DEF Reads, Serves, Same
<1>4. w.link.handed["server"] \in Nat /\ w.link.taken["server"] \in Nat
  BY Sides DEF Typed, World, LinkType
<1>5. x.link.garbled => y.link.garbled
  BY DEF Reads, Serves
<1>6. /\ x.link.handed["server"] \in {w.link.handed["server"], w.link.taken["server"]}
      /\ y.link.handed["server"] \in {x.link.handed["server"], x.link.taken["server"]}
      /\ Drained(y, "server")
  BY DEF Reads
<1>7. CASE x.link.garbled
  BY <1>1, <1>2, <1>5, <1>6, <1>7 DEF Reads
<1>8. CASE Answers(w, x) /\ ~x.link.garbled
  <2>1. ~Answers(x, y) /\ y.link.handed["server"] = w.link.taken["server"]
    <3>1. x.link.handed["server"] = w.link.taken["server"]
      BY <1>8 DEF Answers
    <3>2. ~(x.link.handed["server"] + 1 <= x.link.taken["server"])
      BY <1>2, <1>4, <3>1
    <3> QED
      BY <1>2, <1>6, <3>1, <3>2 DEF Answers
  <2>2. y.link.garbled \/ y.link.sent = x.link.sent
    BY <2>1 DEF Reads
  <2>3. y.link.garbled \/ Answers(w, y)
    BY <1>8, <2>1, <2>2 DEF Answers
  <2> QED
    BY <1>1, <1>2, <1>6, <2>1, <2>3 DEF Reads
<1>9. CASE x.link.sent = w.link.sent /\ x.link.garbled = w.link.garbled
  <2>1. Answers(x, y) => Answers(w, y)
    <3>1. CASE x.link.handed["server"] = w.link.handed["server"]
      BY <1>2, <1>9, <3>1, AnswersSame
    <3>2. CASE x.link.handed["server"] = w.link.taken["server"]
      <4>1. ~(x.link.handed["server"] + 1 <= x.link.taken["server"])
        BY <1>2, <1>4, <3>2
      <4> QED
        BY <4>1 DEF Answers
    <3> QED
      BY <1>6, <3>1, <3>2
  <2>2. y.link.garbled \/ (y.link.sent = x.link.sent /\ y.link.garbled = x.link.garbled) \/ Answers(x, y)
    BY DEF Reads
  <2> QED
    BY <1>1, <1>2, <1>6, <1>9, <2>1, <2>2 DEF Reads
<1> QED
  BY <1>7, <1>8, <1>9 DEF Reads

\* call_send_handler at the file server.
LEMMA ServerAcked ==
  ASSUME NEW w, Typed(w), ~Querying(w), w.link.valid_send_handler["server"]
  PROVE  Reads(w, call_send_handler(w, "server"))
<1> DEFINE x == Clear(w, "server")
<1>1. Clears(w, "server", x)
  BY TypedClear, Sides
<1>2. call_send_handler(w, "server") = file_sent(x)
  BY DEF Typed, HandlersFit, call_send_handler, Clear
<1> HIDE DEF x
<1>3. Typed(x) /\ ~Querying(x) /\ Serves(w, x)
  BY <1>1, Sides DEF Clears, Same, Querying, Serves
<1>4. Reads(x, file_sent(x))
  BY <1>3, FileSent
<1>5. Serves(w, file_sent(x))
  BY <1>3, <1>4, ServesAgain DEF Reads
<1> QED
  <2>1. /\ w.link.handed = x.link.handed /\ w.link.taken = x.link.taken
        /\ w.link.sent = x.link.sent /\ w.link.garbled = x.link.garbled /\ w.script = x.script
    BY <1>1 DEF Clears, Same
  <2>2. Answers(x, file_sent(x)) => Answers(w, file_sent(x))
    BY <2>1, AnswersSame
  <2> QED
    BY <1>2, <1>4, <1>5, <2>1, <2>2 DEF Reads

-----------------------------------------------------------------------------
(* The handlers of the file client *)

\* A handler of the client ran: the server's side is as it was.
Acts(w, x) ==
  /\ Typed(x) /\ Same(w, x) /\ x.server = w.server /\ x.posted = w.posted
  /\ x.client.commands = w.client.commands
  /\ x.link.sent["server"] = w.link.sent["server"]
  /\ x.link.handed["server"] = w.link.handed["server"]
  /\ x.link.rcv_handler["server"] = w.link.rcv_handler["server"]
  /\ x.link.valid_rcv_handler["server"] = w.link.valid_rcv_handler["server"]
  /\ x.link.send_handler["server"] = w.link.send_handler["server"]
  /\ x.link.valid_send_handler["server"] = w.link.valid_send_handler["server"]

\* And it sent nothing.
Hears(w, x) ==
  /\ Acts(w, x)
  /\ x.link.sent = w.link.sent /\ x.link.garbled = w.link.garbled
  /\ x.link.send_handler = w.link.send_handler
  /\ x.link.valid_send_handler = w.link.valid_send_handler

LEMMA ActsAgain ==
  ASSUME NEW w, NEW x, NEW y, Acts(w, x), Acts(x, y)
  PROVE  Acts(w, y)
BY DEF Acts, Same

LEMMA HearsAgain ==
  ASSUME NEW w, NEW x, NEW y, Hears(w, x), Hears(x, y)
  PROVE  Hears(w, y)
BY ActsAgain DEF Hears

\* Only globals of the client changed.
Changes(w, x) ==
  /\ Hears(w, x) /\ x.link = w.link /\ x.server = w.server /\ x.posted = w.posted

LEMMA ChangesRest ==
  ASSUME NEW w, Typed(w), NEW x \in World,
         x.link = w.link, x.script = w.script, x.server = w.server, x.posted = w.posted,
         x.client.commands = w.client.commands,
         x.client.prompt = "ask_then_post" => x.client.commands > 0
  PROVE  Changes(w, x)
<1>1. w \in World /\ w.client.commands <= Len(w.script)
  BY DEF Typed
<1>2. w.client.commands <= w.client.commands
  BY <1>1 DEF World, Client
<1>3. Typed(x) /\ Same(w, x)
  BY <1>1, <1>2, TypedRest
<1> QED
  BY <1>3 DEF Changes, Hears, Acts

LEMMA HearsRegister ==
  ASSUME NEW w, Typed(w), NEW h, HandlerFits(w, "client", h)
  PROVE  LET x == register(w, "client", h) IN
         /\ Hears(w, x) /\ x.client = w.client
         /\ x.link.handed = w.link.handed
         /\ x.link.rcv_handler["client"] = h /\ x.link.valid_rcv_handler["client"]
<1> DEFINE x == register(w, "client", h)
<1>1. w.link.rcv_handler \in [Side -> RcvHandler] /\ w.link.valid_rcv_handler \in [Side -> BOOLEAN]
  BY DEF Typed, World, LinkType
<1>2. Registers(w, "client", h, x)
  BY TypedRegister, Sides
<1> HIDE DEF x
<1>3. /\ x.link.rcv_handler["server"] = w.link.rcv_handler["server"]
      /\ x.link.valid_rcv_handler["server"] = w.link.valid_rcv_handler["server"]
      /\ x.link.rcv_handler["client"] = h /\ x.link.valid_rcv_handler["client"]
  BY <1>1, <1>2, Sides DEF Registers
<1> QED
  BY <1>2, <1>3 DEF Hears, Acts, Registers, x

LEMMA HandOverHears ==
  ASSUME NEW w, Typed(w)
  PROVE  LET x == hand_over(w, "client") IN
         /\ Hears(w, x) /\ x.client = w.client
         /\ x.link.handed["client"] = w.link.taken["client"]
         /\ x.link.rcv_handler = w.link.rcv_handler
         /\ ~x.link.valid_rcv_handler["client"]
<1> DEFINE x == hand_over(w, "client")
<1>1. HandsOver(w, "client", x)
  BY TypedHandOver, Sides
<1>2. w.link.handed \in [Side -> Nat] /\ w.link.valid_rcv_handler \in [Side -> BOOLEAN]
  BY DEF Typed, World, LinkType
<1> HIDE DEF x
<1>3. /\ x.link.handed["client"] = w.link.taken["client"]
      /\ x.link.handed["server"] = w.link.handed["server"]
      /\ x.link.valid_rcv_handler["server"] = w.link.valid_rcv_handler["server"]
      /\ ~x.link.valid_rcv_handler["client"]
  BY <1>1, <1>2, Sides DEF HandsOver
<1> QED
  BY <1>1, <1>3 DEF HandsOver, Hears, Acts, x

\* A half of the command is done, and perhaps all of it.
Finishes(w, is_get, x) ==
  /\ Changes(w, x) /\ x.client.got = w.client.got
  /\ x.client.not_receiving <=> w.client.not_receiving \/ is_get
  /\ x.client.prompt # w.client.prompt => x.client.prompt = "ask" /\ x.client.not_receiving

LEMMA FinishIs ==
  ASSUME NEW w, Typed(w), NEW is_get \in BOOLEAN
  PROVE  Finishes(w, is_get, client_finish(w, is_get))
<1> DEFINE x == IF is_get THEN [w EXCEPT !.client.not_receiving = TRUE]
                          ELSE [w EXCEPT !.client.not_sending = TRUE]
           y == [x EXCEPT !.client.prompt = "ask"]
<1>1. w \in World /\ CommandsFit(w)
  BY DEF Typed
<1>2. /\ x \in World /\ x.link = w.link /\ x.script = w.script
      /\ x.server = w.server /\ x.posted = w.posted
      /\ x.client.commands = w.client.commands /\ x.client.got = w.client.got
      /\ x.client.prompt = w.client.prompt
      /\ x.client.not_receiving <=> w.client.not_receiving \/ is_get
  <2>1. CASE is_get
    BY <1>1, <2>1 DEF World, Client
  <2>2. CASE ~is_get
    BY <1>1, <2>2 DEF World, Client
  <2> QED
    BY <2>1, <2>2
<1> HIDE DEF x
<1>3. /\ y \in World /\ y.link = w.link /\ y.script = w.script
      /\ y.server = w.server /\ y.posted = w.posted
      /\ y.client.commands = w.client.commands /\ y.client.got = w.client.got
      /\ y.client.prompt = "ask" /\ y.client.not_receiving = x.client.not_receiving
  BY <1>2 DEF World, Client, Prompts
<1>4. client_finish(w, is_get) =
        IF x.client.not_sending /\ x.client.not_receiving THEN y ELSE x
  BY Zenon DEF client_finish, accept_command, x
<1> HIDE DEF y
<1>5. Changes(w, x) /\ Changes(w, y)
  BY <1>1, <1>2, <1>3, ChangesRest DEF CommandsFit
<1>6. x.client.not_sending \in BOOLEAN /\ x.client.not_receiving \in BOOLEAN
  BY <1>2 DEF World, Client
<1>7. CASE x.client.not_sending /\ x.client.not_receiving
  BY <1>2, <1>3, <1>4, <1>5, <1>7 DEF Finishes
<1>8. CASE ~(x.client.not_sending /\ x.client.not_receiving)
  BY <1>2, <1>4, <1>5, <1>8 DEF Finishes
<1> QED
  BY <1>7, <1>8

\* The size of the file that h gets, when data arrives for it.
SizeOf(w, h, data) ==
  IF h.size > 0 \/ data = <<>> THEN h.size ELSE decode_header(w, data)

\* A handler was called with a part of a file, or with nothing.
GetsFile(w, h, data, x) ==
  LET size == SizeOf(w, h, data)
      index == h.current_index + Len(data)
      got == IF h.size > 0 THEN w.client.got \o data ELSE data
  IN  /\ Hears(w, x) /\ x.link.handed = w.link.handed
      /\ \/ /\ data = <<>> /\ x.client = w.client
            /\ x.link.valid_rcv_handler["client"] /\ x.link.rcv_handler["client"] = h
         \/ /\ data # <<>> /\ ~(h.current_index < size)
            /\ x.client = [w.client EXCEPT !.got = <<>>]
            /\ x.link = w.link
         \/ /\ data # <<>> /\ h.current_index < size /\ index < size
            /\ x.client = [w.client EXCEPT !.got = got]
            /\ x.link.valid_rcv_handler["client"]
            /\ x.link.rcv_handler["client"] = Handler("get", h.n, size, index)
         \/ /\ data # <<>> /\ h.current_index < size /\ ~(index < size)
            /\ x.client.got = got /\ x.client.not_receiving
            /\ x.client.prompt \in {w.client.prompt, "ask"}
            /\ x.link = w.link

LEMMA GetsFileIs ==
  ASSUME NEW w, Typed(w), ~Querying(w), NEW h \in RcvHandler, h.name = "get",
         NEW data \in Seq(Unit), data # <<>> => data[1].n \in 1..Len(w.script)
  PROVE  GetsFile(w, h, data, client_get_handler(w, h, data))
<1> DEFINE size == SizeOf(w, h, data)
           index == h.current_index + Len(data)
           got == IF h.size > 0 THEN w.client.got \o data ELSE data
           x == [w EXCEPT !.client.got = got]
           none == [w EXCEPT !.client.got = <<>>]
           next == Handler("get", h.n, size, index)
           z == client_get_handler(w, h, data)
<1>1. w \in World /\ w.client.got \in Seq(Unit) /\ CommandsFit(w)
  BY DEF Typed, World, Client
<1>2. h.size \in Int /\ h.current_index \in Nat /\ h.n \in Nat /\ Len(data) \in Nat
  BY LenProperties DEF RcvHandler
<1>3. size \in Int /\ index \in Nat
  <2>1. data # <<>> => decode_header(w, data) \in Int
    BY PostSize DEF decode_header
  <2> QED
    BY <1>2, <2>1 DEF SizeOf
<1>4. got \in Seq(Unit)
  BY <1>1, ConcatProperties
<1>5. ASSUME NEW q \in Seq(Unit)
      PROVE  LET v == [w EXCEPT !.client.got = q] IN
             /\ Changes(w, v) /\ v.client = [w.client EXCEPT !.got = q]
  <2> DEFINE v == [w EXCEPT !.client.got = q]
  <2>1. /\ v \in World /\ v.link = w.link /\ v.script = w.script
        /\ v.server = w.server /\ v.posted = w.posted
        /\ v.client = [w.client EXCEPT !.got = q]
        /\ v.client.commands = w.client.commands /\ v.client.prompt = w.client.prompt
    BY <1>1 DEF World, Client
  <2> HIDE DEF v
  <2>2. Changes(w, v)
    BY <1>1, <2>1, ChangesRest DEF CommandsFit
  <2> QED
    BY <2>1, <2>2 DEF v
<1>6. /\ Changes(w, x) /\ x.client = [w.client EXCEPT !.got = got]
      /\ Changes(w, none) /\ none.client = [w.client EXCEPT !.got = <<>>]
  BY <1>4, <1>5, EmptySeq
<1>7. z = CASE data = <<>> -> register(w, "client", h)
            [] data # <<>> /\ ~(h.current_index < size) -> none
            [] data # <<>> /\ h.current_index < size /\ index < size -> register(x, "client", next)
            [] OTHER -> client_finish(x, TRUE)
  BY Zenon DEF client_get_handler, SizeOf
<1>8. /\ next \in RcvHandler /\ next.name = "get"
  <2>1. "get" \in RcvNames
    BY DEF RcvNames
  <2> HIDE DEF size, index
  <2> QED
    BY <1>2, <1>3, <2>1, HandlerIs
<1> HIDE DEF size, index, got, x, none, next, z
<1>9. HandlerFits(w, "client", h) /\ Typed(x) /\ ~Querying(x) /\ HandlerFits(x, "client", next)
  BY <1>6, <1>8 DEF HandlerFits, Changes, Hears, Acts, Same, Querying
<1>10. CASE data = <<>>
  <2>1. z = register(w, "client", h)
    BY <1>7, <1>10
  <2>2. /\ Hears(w, z) /\ z.client = w.client /\ z.link.handed = w.link.handed
        /\ z.link.rcv_handler["client"] = h /\ z.link.valid_rcv_handler["client"]
    BY <1>9, <2>1, HearsRegister
  <2>3. GetsFile(w, h, data, z)
    BY <1>10, <2>2 DEF GetsFile
  <2> QED
    BY <2>3 DEF z
<1>11. CASE data # <<>> /\ ~(h.current_index < size)
  <2>1. z = none
    BY <1>7, <1>11
  <2>2. GetsFile(w, h, data, z)
    BY <1>6, <1>11, <2>1 DEF GetsFile, Changes, size
  <2> QED
    BY <2>2 DEF z
<1>12. CASE data # <<>> /\ h.current_index < size /\ index < size
  <2>1. z = register(x, "client", next)
    BY <1>7, <1>12
  <2>2. /\ Hears(x, z) /\ z.client = x.client /\ z.link.handed = x.link.handed
        /\ z.link.rcv_handler["client"] = next /\ z.link.valid_rcv_handler["client"]
    BY <1>9, <2>1, HearsRegister
  <2>3. Hears(w, z) /\ x.link = w.link
    BY <1>6, <2>2, HearsAgain DEF Changes
  <2>4. GetsFile(w, h, data, z)
    BY <1>6, <1>12, <2>2, <2>3 DEF GetsFile, size, index, got, next
  <2> QED
    BY <2>4 DEF z
<1>13. CASE data # <<>> /\ h.current_index < size /\ ~(index < size)
  <2>1. z = client_finish(x, TRUE)
    BY <1>7, <1>13
  <2>2. Finishes(x, TRUE, z)
    BY <1>9, <2>1, FinishIs
  <2>3. Hears(w, z) /\ z.link = w.link
    BY <1>6, <2>2, HearsAgain DEF Changes, Finishes
  <2>4. x.client.got = got /\ x.client.prompt = w.client.prompt
    BY <1>1, <1>4, <1>6 DEF World, Client
  <2>5. z.client.got = got /\ z.client.not_receiving /\ z.client.prompt \in {w.client.prompt, "ask"}
    BY <2>2, <2>4 DEF Finishes
  <2>6. GetsFile(w, h, data, z)
    BY <1>13, <2>3, <2>5 DEF GetsFile, size, index, got
  <2> QED
    BY <2>6 DEF z
<1> QED
  BY <1>10, <1>11, <1>12, <1>13

\* What there is to read at the client.
LEMMA UnreadByClient ==
  ASSUME NEW w, Typed(w), ~Querying(w)
  PROVE  LET data == unread(w, "client")
             a == w.link.handed["client"]
         IN  /\ data \in Seq(Unit)
             /\ Len(data) = w.link.taken["client"] - a
             /\ data = <<>> <=> w.link.taken["client"] = a
             /\ \A k \in 1..Len(data) : data[k] = w.link.sent["server"][a + k]
             /\ data # <<>> => a + 1 <= w.link.taken["client"] /\ data[1].n \in 1..Len(w.script)
<1> DEFINE data == unread(w, "client")
           a == w.link.handed["client"]
           b == w.link.taken["client"]
           sent == w.link.sent["server"]
<1>1. w \in World /\ "client" \in Side /\ a <= b /\ b <= Len(sent)
  BY Sides DEF Typed, CountsFit
<1>2. a \in Nat /\ b \in Nat /\ sent \in Seq(Unit)
  BY <1>1, Sides DEF World, LinkType
<1>3. /\ data \in Seq(Unit) /\ Len(data) = b - a
      /\ \A k \in 1..Len(data) : data[k] = sent[a + k]
      /\ data = <<>> <=> b = a
  BY <1>1, UnreadIs, Sides
<1>4. \A p \in 1..Len(sent) : sent[p].n \in 1..Len(w.script)
  BY DEF Typed, SegmentsFit
<1> HIDE DEF data, a, b, sent
<1>5. ASSUME data # <<>> PROVE a + 1 <= b /\ data[1].n \in 1..Len(w.script)
  <2>1. a + 1 <= b /\ a + 1 \in 1..Len(sent)
    BY <1>1, <1>2, <1>3, <1>5
  <2>2. data[1] = sent[a + 1]
    <3>1. 1 \in 1..Len(data)
      BY <1>2, <1>3, <2>1
    <3> QED
      BY <1>3, <3>1
  <2> QED
    BY <1>4, <2>1, <2>2
<1> QED
  BY <1>3, <1>5 DEF data, a, b, sent

\* call_rcv_handler at the file client, when a handler is due.
LEMMA ClientCalled ==
  ASSUME NEW w, Typed(w), ~Querying(w), w.link.valid_rcv_handler["client"]
  PROVE  LET h == w.link.rcv_handler["client"]
             data == unread(w, "client")
             y == hand_over(w, "client")
         IN  /\ h \in RcvHandler /\ h.name = "get"
             /\ call_rcv_handler(w, "client") = client_get_handler(y, h, data)
             /\ GetsFile(y, h, data, call_rcv_handler(w, "client"))
             /\ Hears(w, call_rcv_handler(w, "client"))
<1> DEFINE h == w.link.rcv_handler["client"]
           data == unread(w, "client")
           y == hand_over(w, "client")
           x == call_rcv_handler(w, "client")
<1>1. h \in RcvHandler /\ h.name = "get"
  BY Sides DEF Typed, World, LinkType, HandlersFit
<1>2. x = client_get_handler(y, h, data)
  BY <1>1 DEF call_rcv_handler
<1>3. /\ data \in Seq(Unit)
      /\ data # <<>> => data[1].n \in 1..Len(w.script)
  BY UnreadByClient
<1>4. Hears(w, y)
  BY HandOverHears
<1> HIDE DEF h, data, y, x
<1>5. Typed(y) /\ ~Querying(y) /\ y.script = w.script
  BY <1>4 DEF Hears, Acts, Same, Querying
<1>6. GetsFile(y, h, data, x)
  <2>1. data # <<>> => data[1].n \in 1..Len(y.script)
    BY <1>3, <1>5
  <2> QED
    BY <1>1, <1>2, <1>3, <1>5, <2>1, GetsFileIs
<1>7. Hears(w, x)
  BY <1>4, <1>6, HearsAgain DEF GetsFile
<1> QED
  BY <1>1, <1>2, <1>6, <1>7 DEF h, data, y, x

\* The client sends a file of its own, or finds it empty.
ClientPosts(w, x) ==
  /\ Acts(w, x)
  /\ x.link.handed = w.link.handed
  /\ x.link.rcv_handler = w.link.rcv_handler
  /\ x.link.valid_rcv_handler = w.link.valid_rcv_handler
  /\ x.client.got = w.client.got /\ x.client.not_receiving = w.client.not_receiving
  /\ x.client.prompt # w.client.prompt => x.client.prompt = "ask" /\ x.client.not_receiving
  /\ x.link.send_handler["client"] = "client_finish"
  /\ x.link.garbled <=> w.link.garbled \/ w.link.acked["client"] < Len(w.link.sent["client"])
  /\ \E m \in Seq(Unit) : /\ x.link.sent["client"] = w.link.sent["client"] \o m
                          /\ \A k \in 1..Len(m) : m[k].kind = "post"

\* The file of command n as the client sends it.
UploadOf(s, n) == IF s[n].post > 0 THEN Message("post", n, s[n].post) ELSE <<>>

LEMMA ClientPostIs ==
  ASSUME NEW w, Typed(w), ~Querying(w), NEW n \in 1..Len(w.script)
  PROVE  LET z == client_post(w, n) IN
         /\ ClientPosts(w, z)
         /\ z.link.sent["client"] = w.link.sent["client"] \o UploadOf(w.script, n)
         /\ z.link.valid_send_handler["client"] <=> UploadOf(w.script, n) # <<>>
<1> DEFINE size == w.script[n].post
           m == IF size > 0 THEN Message("post", n, size) ELSE <<>>
           v == [w EXCEPT !.client.not_sending = FALSE]
           x == async_send(v, "client", m, "client_finish")
           z == client_post(w, n)
<1>1. size \in Int /\ n \in Nat /\ "post" \in Kinds
  BY PostSize DEF Kinds
<1>2. /\ m \in Seq(Unit)
      /\ \A k \in 1..Len(m) : m[k].kind = "post" /\ m[k].n \in 1..Len(w.script)
  <2>1. CASE size > 0
    <3>1. /\ m \in Seq(Unit) /\ Len(m) = size
          /\ \A k \in 1..size : m[k] = [kind |-> "post", n |-> n, k |-> k]
      <4> DEFINE f == Message("post", n, size)
      <4>1. m = f
        BY <2>1, Zenon
      <4> HIDE DEF m, size
      <4>2. /\ f \in Seq(Unit) /\ Len(f) = IF size > 0 THEN size ELSE 0
            /\ \A k \in 1..size : f[k] = [kind |-> "post", n |-> n, k |-> k]
        BY <1>1, MessageIs
      <4> HIDE DEF f
      <4> QED
        BY <2>1, <4>1, <4>2
    <3>2. \A k \in 1..size : m[k].kind = "post" /\ m[k].n = n
      <4> HIDE DEF m, size
      <4> SUFFICES ASSUME NEW k \in 1..size PROVE m[k].kind = "post" /\ m[k].n = n
        OBVIOUS
      <4>1. m[k] = [kind |-> "post", n |-> n, k |-> k]
        BY <3>1
      <4> QED
        BY <4>1
    <3> HIDE DEF m, size
    <3> QED
      BY <3>1, <3>2
  <2>2. CASE ~(size > 0)
    <3>1. m = <<>>
      BY <2>2
    <3> HIDE DEF m
    <3>2. m \in Seq(Unit) /\ Len(m) = 0
      BY <3>1, EmptySeq
    <3> QED
      BY <3>2
  <2> QED
    BY <2>1, <2>2
<1>3. Changes(w, v) /\ v.client = [w.client EXCEPT !.not_sending = FALSE]
  <2>1. /\ v \in World /\ v.link = w.link /\ v.script = w.script
        /\ v.server = w.server /\ v.posted = w.posted
        /\ v.client = [w.client EXCEPT !.not_sending = FALSE]
        /\ v.client.commands = w.client.commands /\ v.client.prompt = w.client.prompt
    BY DEF Typed, World, Client
  <2> HIDE DEF v
  <2> QED
    BY <2>1, ChangesRest DEF Typed, CommandsFit
<1>4. z = IF size > 0 THEN x ELSE client_finish(x, FALSE)
  BY Zenon DEF client_post
<1> HIDE DEF size, m, v
<1>5. Typed(v) /\ ~Querying(v) /\ v.script = w.script
  BY <1>3 DEF Changes, Hears, Acts, Same, Querying
<1>6. SendsMore(v, "client", m, "client_finish", x)
  <2>1. "client" \in Side /\ "client_finish" \in SendNames /\ SendFits(v, "client", "client_finish")
    BY <1>5, Sides DEF SendNames, SendFits
  <2>2. \A k \in 1..Len(m) : m[k].n \in 1..Len(v.script)
    BY <1>2, <1>5
  <2> QED
    BY <1>2, <1>5, <2>1, <2>2, TypedSend
<1> HIDE DEF x
<1>7. /\ v.link.sent \in [Side -> Seq(Unit)] /\ v.link.send_handler \in [Side -> SendNames]
      /\ w.client.got = v.client.got /\ w.client.not_receiving = v.client.not_receiving
      /\ w.client.prompt = v.client.prompt
  BY <1>3, <1>5 DEF Typed, World, LinkType, Client
<1>8. /\ Acts(v, x)
      /\ x.link.send_handler["client"] = "client_finish"
      /\ x.link.sent["client"] = v.link.sent["client"] \o m
      /\ x.link.valid_send_handler["client"] <=> m # <<>>
  BY <1>6, <1>7, Sides DEF SendsMore, Acts
<1>9. ClientPosts(w, x)
  <2>1. Acts(w, x)
    BY <1>3, <1>8, ActsAgain DEF Changes, Hears
  <2>2. v.link = w.link
    BY <1>3 DEF Changes
  <2>3. /\ x.link.handed = w.link.handed
        /\ x.link.rcv_handler = w.link.rcv_handler
        /\ x.link.valid_rcv_handler = w.link.valid_rcv_handler
        /\ x.client.got = w.client.got /\ x.client.not_receiving = w.client.not_receiving
        /\ x.client.prompt = w.client.prompt
        /\ x.link.garbled <=> w.link.garbled \/ w.link.acked["client"] < Len(w.link.sent["client"])
    BY <1>6, <1>7, <2>2, Zenon DEF SendsMore
  <2>4. x.link.sent["client"] = w.link.sent["client"] \o m
    BY <1>8, <2>2, Zenon
  <2> QED
    BY <1>2, <1>8, <2>1, <2>3, <2>4, Zenon DEF ClientPosts
<1>10. ClientPosts(w, client_finish(x, FALSE)) /\ client_finish(x, FALSE).link = x.link
  <2> DEFINE y == client_finish(x, FALSE)
  <2>1. Finishes(x, FALSE, y)
    BY <1>8, FinishIs DEF Acts
  <2> HIDE DEF y
  <2>2. Acts(w, y) /\ y.link = x.link
    BY <1>9, <2>1, ActsAgain DEF ClientPosts, Finishes, Changes, Hears
  <2>3. w.client.not_receiving \in BOOLEAN /\ y.client.not_receiving \in BOOLEAN /\ x.client.not_receiving \in BOOLEAN
    BY <1>8, <2>2 DEF Acts, Typed, World, Client
  <2>4. /\ y.client.got = w.client.got /\ y.client.not_receiving = w.client.not_receiving
        /\ y.client.prompt # w.client.prompt => y.client.prompt = "ask" /\ y.client.not_receiving
    BY <1>9, <2>1, <2>3 DEF ClientPosts, Finishes
  <2>5. ClientPosts(w, y)
    BY <1>9, <2>2, <2>4 DEF ClientPosts
  <2> QED
    BY <2>2, <2>5 DEF y
<1>11. v.link = w.link /\ m = UploadOf(w.script, n)
  BY <1>3, Zenon DEF Changes, UploadOf, m, size
<1> QED
  BY <1>4, <1>8, <1>9, <1>10, <1>11, Zenon

-----------------------------------------------------------------------------
(* Where the file of the client's command is *)

AsksFor(w) == w.client.prompt \in {"ask", "ask_then_post"}
Getting(w) == w.client.commands > 0 /\ Gets(w.script[w.client.commands])
FileSize(w) == w.script[w.client.commands].get
Awaiting(w) ==
  w.link.valid_send_handler["client"] /\ w.link.send_handler["client"] = "handle_req"
Complete(w) == w.client.got = Message("get", w.client.commands, FileSize(w))

\* Segment p of the client is a request for a file that the server has not read.
Asked(w, p) ==
  /\ p \in w.link.handed["server"] + 1 .. Len(w.link.sent["client"])
  /\ w.link.sent["client"][p].kind = "request"
  /\ Gets(w.script[w.link.sent["client"][p].n])

\* What the client has not read is the file of its command after k segments.
Rest(w, k) ==
  LET file == w.link.sent["server"]
      a == w.link.handed["client"]
  IN  IF FileSize(w) > 0
      THEN /\ Len(file) = a + FileSize(w) - k
           /\ \A j \in 1..FileSize(w) - k : file[a + j] = Segment("get", w.client.commands, k + j)
      ELSE k = 0 /\ Len(file) = a + 1 /\ file[a + 1] = Segment("get", w.client.commands, 0)

AllHanded(w) == w.link.handed["client"] = Len(w.link.sent["server"])

\* A handler that is due expects the beginning of a file.
Fresh(w) ==
  w.link.valid_rcv_handler["client"] =>
    w.link.rcv_handler["client"].size = 0 /\ w.link.rcv_handler["client"].current_index = 0

\* No file is on its way; one is asked for; it is sent; the client has some of it.
Quiet(w) == (\A p : ~Asked(w, p)) /\ AllHanded(w) /\ Fresh(w)
Requested(w) ==
  /\ \E p : /\ \A q : Asked(w, q) <=> q = p
            /\ w.link.sent["client"][p].n = w.client.commands
  /\ AllHanded(w) /\ Fresh(w) /\ Getting(w)
Coming(w) == (\A p : ~Asked(w, p)) /\ Getting(w) /\ Rest(w, 0) /\ Fresh(w)
Midst(w) ==
  LET h == w.link.rcv_handler["client"] IN
  /\ \A p : ~Asked(w, p)
  /\ Getting(w) /\ w.link.valid_rcv_handler["client"]
  /\ h.size = FileSize(w) /\ h.current_index \in 1..FileSize(w) - 1
  /\ Rest(w, h.current_index)
  /\ w.client.got = Message("get", w.client.commands, h.current_index)

OnTrack(w) == Quiet(w) \/ Requested(w) \/ Coming(w) \/ Midst(w)

\* When the client is between two files, it waits for nothing and has all of the last.
Rules(w) ==
  /\ w.link.valid_rcv_handler["client"] => ~w.client.not_receiving /\ ~Awaiting(w)
  /\ AsksFor(w) => w.client.not_receiving /\ ~Awaiting(w)
  /\ Getting(w) /\ w.client.not_receiving /\ ~Awaiting(w) => Quiet(w) /\ Complete(w)

\* What the client stores is the beginning of a file it asked for.
Prefix(w) ==
  \E k \in 0..w.client.commands : w.client.got = Message("get", k, Len(w.client.got))

\* What the place of the file depends on.
Alike(w, x) ==
  /\ x.script = w.script /\ x.client.commands = w.client.commands
  /\ x.client.got = w.client.got
  /\ x.link.sent["client"] = w.link.sent["client"]
  /\ x.link.sent["server"] = w.link.sent["server"]
  /\ x.link.handed["client"] = w.link.handed["client"]
  /\ x.link.handed["server"] = w.link.handed["server"]
  /\ x.link.rcv_handler["client"] = w.link.rcv_handler["client"]
  /\ x.link.valid_rcv_handler["client"] = w.link.valid_rcv_handler["client"]

LEMMA AlikeTrack ==
  ASSUME NEW w, NEW x, Alike(w, x)
  PROVE  /\ Quiet(w) <=> Quiet(x)
         /\ OnTrack(w) <=> OnTrack(x)
         /\ Complete(w) <=> Complete(x)
         /\ Getting(w) <=> Getting(x)
         /\ Prefix(w) <=> Prefix(x)
<1>1. \A p : Asked(w, p) <=> Asked(x, p)
  BY Zenon DEF Alike, Asked
<1>2. \A k : Rest(w, k) <=> Rest(x, k)
  BY Zenon DEF Alike, Rest, FileSize
<1>3. AllHanded(w) <=> AllHanded(x)
  BY Zenon DEF Alike, AllHanded
<1>4. Fresh(w) <=> Fresh(x)
  BY Zenon DEF Alike, Fresh
<1>5. Getting(w) <=> Getting(x)
  BY Zenon DEF Alike, Getting
<1>6. Complete(w) <=> Complete(x)
  BY Zenon DEF Alike, Complete, FileSize
<1>7. Quiet(w) <=> Quiet(x)
  BY <1>1, <1>3, <1>4, Zenon DEF Quiet
<1>8. Requested(w) <=> Requested(x)
  <2>1. x.link.sent["client"] = w.link.sent["client"] /\ x.client.commands = w.client.commands
    BY Zenon DEF Alike
  <2>2. ASSUME NEW p
        PROVE  (\A q : Asked(w, q) <=> q = p) <=> (\A q : Asked(x, q) <=> q = p)
    BY <1>1, Zenon
  <2> QED
    BY <1>3, <1>4, <1>5, <2>1, <2>2, Zenon DEF Requested
<1>9. Coming(w) <=> Coming(x)
  BY <1>1, <1>2, <1>4, <1>5, Zenon DEF Coming
<1>10. Midst(w) <=> Midst(x)
  <2>1. FileSize(w) = FileSize(x)
    BY Zenon DEF Alike, FileSize
  <2> QED
    BY <1>1, <1>2, <1>5, <2>1, Zenon DEF Alike, Midst
<1>11. Prefix(w) <=> Prefix(x)
  BY Zenon DEF Alike, Prefix
<1> QED
  BY <1>5, <1>6, <1>7, <1>8, <1>9, <1>10, <1>11, Zenon DEF OnTrack

\* The server reads: a file that was asked for is sent, or never will be.
LEMMA ReadsTrack ==
  ASSUME NEW w, NEW x, Typed(w), Reads(w, x), ~x.link.garbled
  PROVE  /\ OnTrack(w) => OnTrack(x)
         /\ Quiet(w) => Quiet(x)
<1>1. /\ x.script = w.script /\ x.client = w.client
      /\ x.link.sent["client"] = w.link.sent["client"]
      /\ x.link.handed["client"] = w.link.handed["client"]
      /\ x.link.rcv_handler["client"] = w.link.rcv_handler["client"]
      /\ x.link.valid_rcv_handler["client"] = w.link.valid_rcv_handler["client"]
      /\ x.link.handed["server"] \in {w.link.handed["server"], w.link.taken["server"]}
  BY DEF Reads, Serves, Same
<1>2. /\ w.link.handed["server"] \in Nat /\ w.link.taken["server"] \in Nat
      /\ w.link.handed["server"] <= w.link.taken["server"]
      /\ w.link.taken["server"] <= Len(w.link.sent["client"])
      /\ w.link.sent["client"] \in Seq(Unit) /\ Len(w.link.sent["client"]) \in Nat
      /\ w.link.sent["server"] \in Seq(Unit) /\ Len(w.link.sent["server"]) \in Nat
  BY Sides, LenProperties DEF Typed, World, LinkType, CountsFit
<1>3. \A p : Asked(x, p) => Asked(w, p)
  <2> SUFFICES ASSUME NEW p, Asked(x, p) PROVE Asked(w, p)
    OBVIOUS
  <2>1. p \in w.link.handed["server"] + 1 .. Len(w.link.sent["client"])
    BY <1>1, <1>2 DEF Asked
  <2> QED
    BY <1>1, <2>1, Zenon DEF Asked
<1>4. Fresh(x) <=> Fresh(w)
  BY <1>1, Zenon DEF Fresh
<1>5. Getting(x) <=> Getting(w)
  BY <1>1, Zenon DEF Getting
<1>6. FileSize(x) = FileSize(w)
  BY <1>1, Zenon DEF FileSize
<1>7. CASE x.link.sent = w.link.sent
  <2>1. AllHanded(x) <=> AllHanded(w)
    BY <1>1, <1>7, Zenon DEF AllHanded
  <2>2. \A k : Rest(x, k) <=> Rest(w, k)
    BY <1>1, <1>6, <1>7, Zenon DEF Rest
  <2>3. Quiet(w) => Quiet(x)
    BY <1>3, <1>4, <2>1, Zenon DEF Quiet
  <2>4. Coming(w) => Coming(x)
    BY <1>3, <1>4, <1>5, <2>2, Zenon DEF Coming
  <2>5. Midst(w) => Midst(x)
    BY <1>1, <1>3, <1>5, <1>6, <2>2, Zenon DEF Midst
  <2>6. Requested(w) => Requested(x) \/ Quiet(x)
    <3> SUFFICES ASSUME Requested(w) PROVE Requested(x) \/ Quiet(x)
      OBVIOUS
    <3>1. PICK p : /\ \A q : Asked(w, q) <=> q = p
                   /\ w.link.sent["client"][p].n = w.client.commands
      BY Zenon DEF Requested
    <3>2. CASE Asked(x, p)
      <4>1. \A q : Asked(x, q) <=> q = p
        BY <1>3, <3>1, <3>2, Zenon
      <4> QED
        BY <1>1, <1>4, <1>5, <2>1, <3>1, <4>1, Zenon DEF Requested
    <3>3. CASE ~Asked(x, p)
      <4>1. \A q : ~Asked(x, q)
        BY <1>3, <3>1, <3>3, Zenon
      <4> QED
        BY <1>4, <2>1, <4>1, Zenon DEF Quiet, Requested
    <3> QED
      BY <3>2, <3>3
  <2> QED
    BY <2>3, <2>4, <2>5, <2>6, Zenon DEF OnTrack
<1>8. CASE Answers(w, x)
  <2> DEFINE p == w.link.handed["server"] + 1
             n == w.link.sent["client"][p].n
  <2>0. /\ p <= w.link.taken["server"] /\ x.link.handed["server"] = w.link.taken["server"]
        /\ w.link.sent["client"][p].kind = "request" /\ Gets(w.script[n])
    BY <1>8, Zenon DEF Answers
  <2>9. /\ p \in w.link.handed["server"] + 1 .. Len(w.link.sent["client"])
        /\ p \in 1..Len(w.link.sent["client"])
        /\ ~(p \in w.link.taken["server"] + 1 .. Len(w.link.sent["client"]))
    <3> DEFINE a == w.link.handed["server"]
               b == w.link.taken["server"]
               l == Len(w.link.sent["client"])
    <3>1. a \in Nat /\ b \in Nat /\ l \in Nat /\ a + 1 <= b /\ b <= l
      BY <1>2, <2>0
    <3> HIDE DEF a, b, l
    <3>2. a + 1 \in a + 1 .. l /\ a + 1 \in 1..l /\ ~(a + 1 \in b + 1 .. l)
      BY <3>1
    <3> QED
      BY <3>2, Zenon DEF a, b, l
  <2>1. Asked(w, p)
    BY <2>0, <2>9, Zenon DEF Asked
  <2>2. ~Quiet(w) /\ ~Coming(w) /\ ~Midst(w)
    BY <2>1, Zenon DEF Quiet, Coming, Midst
  <2> SUFFICES ASSUME Requested(w) PROVE Coming(x)
    BY <2>2, Zenon DEF OnTrack
  <2>3. /\ \A q : Asked(w, q) => q = p
        /\ n = w.client.commands
    BY <2>1, Zenon DEF Requested
  <2>4. \A q : ~Asked(x, q)
    <3>1. ~Asked(x, p)
      BY <1>1, <2>0, <2>9, Zenon DEF Asked
    <3> QED
      BY <1>3, <2>3, <3>1, Zenon
  <2>5. AllHanded(w) /\ Fresh(w) /\ Getting(w)
    BY Zenon DEF Requested
  <2>6. n \in 1..Len(w.script)
    <3> HIDE DEF p
    <3> QED
      BY <2>9 DEF Typed, SegmentsFit
  <2>7. x.link.sent["server"] = w.link.sent["server"] \o FileOf(w, n)
    BY <1>8, Zenon DEF Answers
  <2> HIDE DEF n, p
  <2>8. Rest(x, 0)
    <3> DEFINE f == FileOf(w, n)
               a == w.link.handed["client"]
               old == w.link.sent["server"]
    <3>1. /\ f \in Seq(Unit) /\ Len(f) \in Nat
          /\ FileSize(w) > 0 => /\ Len(f) = FileSize(w)
                                /\ \A k \in 1..FileSize(w) : f[k] = Segment("get", n, k)
          /\ ~(FileSize(w) > 0) => Len(f) = 1 /\ f[1] = Segment("get", n, 0)
      BY <2>3, <2>6, FileIs, LenProperties DEF FileSize
    <3>2. a \in Nat /\ Len(old) = a /\ old \in Seq(Unit)
      BY <1>2, <2>5 DEF AllHanded
    <3> HIDE DEF f, a, old
    <3>3. /\ Len(old \o f) = a + Len(f)
          /\ \A j \in 1..Len(f) : (old \o f)[a + j] = f[j]
      <4>1. /\ Len(old \o f) = Len(old) + Len(f)
            /\ \A i \in 1..Len(old) + Len(f) :
                 (old \o f)[i] = IF i <= Len(old) THEN old[i] ELSE f[i - Len(old)]
        BY <3>1, <3>2, ConcatProperties
      <4>2. ASSUME NEW j \in 1..Len(f) PROVE (old \o f)[a + j] = f[j]
        <5>1. a + j \in 1..a + Len(f) /\ ~(a + j <= a) /\ a + j - a = j
          BY <3>1, <3>2
        <5> QED
          BY <3>2, <4>1, <5>1
      <4> QED
        BY <3>2, <4>1, <4>2
    <3>4. /\ x.link.sent["server"] = old \o f /\ x.link.handed["client"] = a
          /\ x.client.commands = n
      BY <1>1, <2>3, <2>7 DEF old, f, a
    <3>5. CASE FileSize(w) > 0
      <4>1. FileSize(w) = Len(f) /\ FileSize(w) - 0 = FileSize(w)
        BY <3>1, <3>5
      <4>2. \A j \in 1..FileSize(w) : 0 + j = j
        BY <4>1
      <4> QED
        BY <1>6, <3>1, <3>2, <3>3, <3>4, <3>5, <4>1, <4>2 DEF Rest
    <3>6. CASE ~(FileSize(w) > 0)
      <4>1. Len(f) = 1 /\ f[1] = Segment("get", n, 0)
        BY <3>1, <3>6
      <4>2. (old \o f)[a + 1] = f[1] /\ Len(old \o f) = a + 1
        BY <3>3, <4>1
      <4> QED
        BY <1>6, <3>4, <3>6, <4>1, <4>2 DEF Rest
    <3> QED
      BY <3>5, <3>6
  <2> QED
    BY <1>4, <1>5, <2>4, <2>5, <2>8 DEF Coming
<1> QED
  BY <1>7, <1>8 DEF Reads

LEMMA MessageGrows ==
  ASSUME NEW kind \in Kinds, NEW n \in Nat, NEW k \in Nat, NEW data \in Seq(Unit),
         \A j \in 1..Len(data) : data[j] = Segment(kind, n, k + j)
  PROVE  /\ Message(kind, n, k) \o data = Message(kind, n, k + Len(data))
         /\ k = 0 => data = Message(kind, n, Len(data))
         /\ Len(Message(kind, n, k + Len(data))) = k + Len(data)
<1>1. Len(data) \in Nat /\ kind \in Kinds
  BY LenProperties
<1>2. \A m \in Nat : /\ Message(kind, n, m) \in Seq(Unit) /\ Len(Message(kind, n, m)) = m
                     /\ \A j \in 1..m : Message(kind, n, m)[j] = Segment(kind, n, j)
  <2> SUFFICES ASSUME NEW m \in Nat
               PROVE  /\ Message(kind, n, m) \in Seq(Unit) /\ Len(Message(kind, n, m)) = m
                      /\ \A j \in 1..m : Message(kind, n, m)[j] = Segment(kind, n, j)
    OBVIOUS
  <2>1. m \in Int
    OBVIOUS
  <2>2. /\ Message(kind, n, m) \in Seq(Unit)
        /\ Len(Message(kind, n, m)) = IF m > 0 THEN m ELSE 0
        /\ \A j \in 1..m : Message(kind, n, m)[j] = [kind |-> kind, n |-> n, k |-> j]
    BY <1>1, <2>1, MessageIs
  <2>3. \A j : Segment(kind, n, j) = [kind |-> kind, n |-> n, k |-> j]
    BY DEF Segment
  <2> QED
    BY <2>2, <2>3
<1> DEFINE old == Message(kind, n, k)
           new == Message(kind, n, k + Len(data))
<1>3. k + Len(data) \in Nat
  BY <1>1
<1>4. /\ old \in Seq(Unit) /\ Len(old) = k
      /\ \A j \in 1..k : old[j] = Segment(kind, n, j)
      /\ new \in Seq(Unit) /\ Len(new) = k + Len(data)
      /\ \A j \in 1..k + Len(data) : new[j] = Segment(kind, n, j)
  BY <1>2, <1>3
<1> HIDE DEF old, new
<1>5. old \o data = new
  <2>1. /\ old \o data \in Seq(Unit) /\ Len(old \o data) = k + Len(data)
        /\ \A i \in 1..k + Len(data) :
             (old \o data)[i] = IF i <= k THEN old[i] ELSE data[i - k]
    BY <1>4, ConcatProperties
  <2>2. ASSUME NEW i \in 1..k + Len(data) PROVE (old \o data)[i] = new[i]
    <3>1. CASE i <= k
      BY <1>1, <1>4, <2>1, <3>1
    <3>2. CASE ~(i <= k)
      <4>1. i - k \in 1..Len(data) /\ k + (i - k) = i
        BY <1>1, <3>2
      <4> QED
        BY <1>4, <2>1, <3>2, <4>1
    <3> QED
      BY <3>1, <3>2
  <2> QED
    BY <1>4, <2>1, <2>2, SeqEqual
<1>6. ASSUME k = 0 PROVE data = new
  <2>1. Len(data) = Len(new)
    BY <1>1, <1>4, <1>6
  <2>2. ASSUME NEW i \in 1..Len(data) PROVE data[i] = new[i]
    <3>1. k + i = i /\ i \in 1..k + Len(data)
      BY <1>1, <1>6
    <3>2. data[i] = Segment(kind, n, k + i)
      OBVIOUS
    <3> QED
      BY <1>4, <3>1, <3>2
  <2> QED
    BY <1>4, <2>1, <2>2, SeqEqual
<1>7. k = 0 => k + Len(data) = Len(data)
  BY <1>1
<1> QED
  BY <1>4, <1>5, <1>6, <1>7 DEF old, new

\* When the client has a part of a file to read, its handler knows where it is.
LEMMA OnTheWay ==
  ASSUME NEW w, Typed(w), ~Querying(w), OnTrack(w),
         w.link.valid_rcv_handler["client"], unread(w, "client") # <<>>
  PROVE  LET h == w.link.rcv_handler["client"] IN
         /\ \A p : ~Asked(w, p)
         /\ Getting(w) /\ Rest(w, h.current_index)
         /\ \/ h.size = 0 /\ h.current_index = 0
            \/ /\ h.size = FileSize(w) /\ h.current_index \in 1..FileSize(w) - 1
               /\ w.client.got = Message("get", w.client.commands, h.current_index)
<1>1. w.link.handed["client"] + 1 <= w.link.taken["client"]
  BY UnreadByClient
<1>2. /\ w.link.taken["client"] <= Len(w.link.sent["server"])
      /\ w.link.handed["client"] \in Nat /\ w.link.taken["client"] \in Nat
      /\ Len(w.link.sent["server"]) \in Nat
  BY Sides, LenProperties DEF Typed, World, LinkType, CountsFit
<1>3. ~AllHanded(w)
  BY <1>1, <1>2 DEF AllHanded
<1>4. Coming(w) \/ Midst(w)
  BY <1>3, Zenon DEF OnTrack, Quiet, Requested
<1>5. CASE Coming(w)
  <2>1. w.link.rcv_handler["client"].size = 0 /\ w.link.rcv_handler["client"].current_index = 0
    BY <1>5, Zenon DEF Coming, Fresh
  <2> QED
    BY <1>5, <2>1, Zenon DEF Coming
<1>6. CASE Midst(w)
  BY <1>6, Zenon DEF Midst
<1> QED
  BY <1>4, <1>5, <1>6

\* A handler that was called keeps the file of the command together.
Stores(w, x) ==
  /\ Hears(w, x) /\ Drained(x, "client") /\ OnTrack(x) /\ Prefix(x)
  /\ x.link.valid_rcv_handler["client"] => ~x.client.not_receiving
  /\ x.client.not_receiving => Quiet(x) /\ Complete(x)
  /\ x.client.prompt # w.client.prompt => x.client.prompt = "ask" /\ x.client.not_receiving

\* A get request, with the command it is part of.
LEMMA GettingIs ==
  ASSUME NEW w, Typed(w), Getting(w)
  PROVE  LET n == w.client.commands
             m == FileSize(w)
         IN  /\ n \in 1..Len(w.script) /\ n \in Nat /\ m \in Int
             /\ m > 0 => as_int(as_uint(m)) = m
             /\ ~(m > 0) => ~(0 < as_int(as_uint(m))) /\ as_int(as_uint(m)) \in Int
<1> DEFINE n == w.client.commands
<1>1. n \in Nat /\ n <= Len(w.script) /\ n > 0
  BY DEF Typed, World, Client, Getting
<1>2. n \in 1..Len(w.script)
  BY <1>1, LenProperties DEF Typed, World
<1>3. /\ w.script[n].get \in Int
      /\ as_int(as_uint(w.script[n].get)) \in Int
      /\ w.script[n].get >= 0 => as_int(as_uint(w.script[n].get)) = w.script[n].get
      /\ w.script[n].get < 0 => as_int(as_uint(w.script[n].get)) <= 0
  <2> HIDE DEF n
  <2> QED
    BY <1>2, PostSize
<1> QED
  BY <1>1, <1>2, <1>3 DEF FileSize

\* Segments a + 1 to b of l are read, where m - k were left.
LEMMA Counting ==
  ASSUME NEW a \in Nat, NEW b \in Nat, NEW l \in Nat, NEW k \in Nat, NEW m \in Int,
         NEW d \in Nat, d = b - a, b <= l, l = a + m - k
  PROVE  /\ k + d <= m /\ l = b + m - (k + d)
         /\ ~(k + d < m) => k + d = m /\ b = l
         /\ \A j \in 1..d : j \in 1..m - k
         /\ \A j \in 1..m - (k + d) :
              d + j \in 1..m - k /\ a + (d + j) = b + j /\ k + (d + j) = (k + d) + j
OBVIOUS

LEMMA CalledTrack ==
  ASSUME NEW w, Typed(w), ~Querying(w), w.link.valid_rcv_handler["client"],
         ~w.client.not_receiving, OnTrack(w), Prefix(w)
  PROVE  Stores(w, call_rcv_handler(w, "client"))
<1> DEFINE h == w.link.rcv_handler["client"]
           data == unread(w, "client")
           y == hand_over(w, "client")
           x == call_rcv_handler(w, "client")
           n == w.client.commands
           m == FileSize(w)
           a == w.link.handed["client"]
           b == w.link.taken["client"]
           file == w.link.sent["server"]
<1>1. h \in RcvHandler /\ GetsFile(y, h, data, x) /\ Hears(w, x)
  BY ClientCalled
<1>2. /\ Hears(w, y) /\ y.client = w.client
      /\ y.link.handed["client"] = b
      /\ y.link.rcv_handler = w.link.rcv_handler
      /\ ~y.link.valid_rcv_handler["client"]
  BY HandOverHears
<1>3. /\ data \in Seq(Unit) /\ Len(data) = b - a
      /\ data = <<>> <=> b = a
      /\ \A j \in 1..Len(data) : data[j] = file[a + j]
      /\ data # <<>> => a + 1 <= b
  BY UnreadByClient
<1>0. Len(data) = b - a
  BY <1>3
<1>4. /\ a \in Nat /\ b \in Nat /\ a <= b /\ b <= Len(file) /\ Len(file) \in Nat
      /\ Len(data) \in Nat
  BY <1>3, Sides, LenProperties DEF Typed, World, LinkType, CountsFit
<1> HIDE DEF y, x, data
<1>5. /\ x.script = w.script /\ x.client.commands = n /\ x.link.sent = w.link.sent
      /\ x.link.handed["server"] = w.link.handed["server"]
      /\ x.link.handed["client"] = b /\ x.link.taken["client"] = b
      /\ y.script = w.script
  BY <1>1, <1>2 DEF Hears, Acts, Same, GetsFile
<1>6. Drained(x, "client")
  BY <1>5 DEF Drained
<1>7. /\ \A p : Asked(x, p) <=> Asked(w, p)
      /\ Getting(x) <=> Getting(w)
      /\ FileSize(x) = m
  BY <1>5, Zenon DEF Asked, Getting, FileSize
<1>8. CASE data = <<>>
  <2>1. /\ x.client = w.client
        /\ x.link.valid_rcv_handler["client"] /\ x.link.rcv_handler["client"] = h
    BY <1>1, <1>2, <1>8 DEF GetsFile
  <2>2. Alike(w, x)
    BY <1>3, <1>5, <1>8, <2>1 DEF Alike
  <2>3. OnTrack(x) /\ Prefix(x)
    BY <2>2, AlikeTrack
  <2>4. Stores(w, x)
    BY <1>1, <1>6, <2>1, <2>3 DEF Stores
  <2> QED
    BY <2>4 DEF x
<1>9. CASE data # <<>>
  <2>1. /\ \A p : ~Asked(w, p)
        /\ Getting(w) /\ Rest(w, h.current_index)
        /\ \/ h.size = 0 /\ h.current_index = 0
           \/ /\ h.size = m /\ h.current_index \in 1..m - 1
              /\ w.client.got = Message("get", n, h.current_index)
    BY <1>9, OnTheWay DEF data
  <2>2. /\ n \in 1..Len(w.script) /\ n \in Nat /\ m \in Int
        /\ m > 0 => as_int(as_uint(m)) = m
        /\ ~(m > 0) => ~(0 < as_int(as_uint(m))) /\ as_int(as_uint(m)) \in Int
    BY <2>1, GettingIs
  <2> DEFINE k == h.current_index
             size == SizeOf(y, h, data)
             got == IF h.size > 0 THEN w.client.got \o data ELSE data
  <2>3. k \in Nat /\ h.n \in Nat /\ h.size \in Int
    BY <1>1 DEF RcvHandler
  <2>4. a + 1 <= b /\ Len(data) >= 1
    BY <1>3, <1>4, <1>9
  <2>5. /\ data[1] = file[a + 1]
        /\ x.client.commands = n /\ y.client.got = w.client.got
        /\ y.client.not_receiving = w.client.not_receiving /\ y.client.prompt = w.client.prompt
    <3>1. 1 \in 1..Len(data)
      BY <1>4, <2>4
    <3> QED
      BY <1>2, <1>3, <1>5, <3>1
  <2>6. CASE m > 0
    <3>1. /\ Len(file) = a + m - k
          /\ \A j \in 1..m - k : file[a + j] = Segment("get", n, k + j)
      BY <2>1, <2>6, Zenon DEF Rest
    <3>0. Len(file) = a + m - k /\ m \in Int
      BY <2>2, <3>1
    <3>12. /\ k + Len(data) <= m /\ Len(file) = b + m - (k + Len(data))
           /\ ~(k + Len(data) < m) => k + Len(data) = m /\ b = Len(file)
           /\ \A j \in 1..Len(data) : j \in 1..m - k
           /\ \A j \in 1..m - (k + Len(data)) :
                /\ Len(data) + j \in 1..m - k /\ a + (Len(data) + j) = b + j
                /\ k + (Len(data) + j) = (k + Len(data)) + j
      <4> HIDE DEF a, b, file, k, m, n
      <4> QED
        BY <1>0, <1>4, <2>3, <3>0, Counting
    <3>2. size = m /\ k < m
      <4>1. CASE h.size = 0 /\ k = 0
        <5>1. 1 \in 1..m - k
          BY <2>2, <2>6, <4>1
        <5>2. data[1] = Segment("get", n, k + 1)
          BY <2>5, <3>1, <5>1
        <5>3. data[1].n = n
          BY <5>2 DEF Segment
        <5>4. decode_header(y, data) = as_int(as_uint(m))
          BY <1>5, <5>3, Zenon DEF decode_header, FileSize
        <5> QED
          BY <1>9, <2>2, <2>6, <4>1, <5>4 DEF SizeOf
      <4>2. CASE h.size = m /\ k \in 1..m - 1
        BY <2>2, <2>6, <4>2 DEF SizeOf
      <4> QED
        BY <2>1, <4>1, <4>2
    <3>3. \A j \in 1..Len(data) : data[j] = Segment("get", n, k + j)
      <4> SUFFICES ASSUME NEW j \in 1..Len(data) PROVE data[j] = Segment("get", n, k + j)
        OBVIOUS
      <4>1. j \in 1..m - k
        BY <3>12
      <4> QED
        BY <1>3, <3>1, <4>1
    <3>4. got = Message("get", n, k + Len(data)) /\ Len(got) = k + Len(data)
      <4>1. /\ Message("get", n, k) \o data = Message("get", n, k + Len(data))
            /\ k = 0 => data = Message("get", n, Len(data))
            /\ Len(Message("get", n, k + Len(data))) = k + Len(data)
        <5>1. "get" \in Kinds
          BY DEF Kinds
        <5> QED
          BY <1>3, <2>2, <2>3, <3>3, <5>1, MessageGrows
      <4>2. CASE h.size = 0 /\ k = 0
        <5>1. k + Len(data) = Len(data) /\ ~(h.size > 0)
          BY <1>4, <4>2
        <5> QED
          BY <4>1, <4>2, <5>1
      <4>3. CASE h.size = m /\ w.client.got = Message("get", n, k)
        BY <2>6, <4>1, <4>3
      <4> QED
        BY <2>1, <4>2, <4>3
    <3> HIDE DEF got, size, k
    <3>5. k + Len(data) <= m
      BY <3>12
    <3>6. Prefix(x) /\ x.client.got = got
      <4>1. x.client.got = got
        <5>1. x.client.got = got \/ x.client = [w.client EXCEPT !.got = got]
          BY <1>1, <1>2, <1>9, <3>2 DEF GetsFile, size, got, k
        <5>2. w.client \in Client
          BY DEF Typed, World
        <5> QED
          BY <5>1, <5>2 DEF Client
      <4>2. x.client.got = Message("get", n, Len(x.client.got)) /\ n \in 0..x.client.commands
        BY <1>5, <2>2, <3>4, <4>1
      <4> QED
        BY <4>1, <4>2 DEF Prefix
    <3>7. CASE k + Len(data) < m
      <4>1. /\ x.client = [w.client EXCEPT !.got = got]
            /\ x.link.valid_rcv_handler["client"]
            /\ x.link.rcv_handler["client"] = Handler("get", h.n, m, k + Len(data))
        BY <1>1, <1>2, <1>9, <3>2, <3>7 DEF GetsFile, size, got, k
      <4>2. /\ x.client.not_receiving = w.client.not_receiving
            /\ x.client.prompt = w.client.prompt
        BY <4>1 DEF Typed, World, Client
      <4>3. /\ x.link.rcv_handler["client"].size = m
            /\ x.link.rcv_handler["client"].current_index = k + Len(data)
        BY <4>1 DEF Handler
      <4>4. Rest(x, k + Len(data))
        <5>1. Len(file) = b + m - (k + Len(data))
          BY <3>12
        <5>2. ASSUME NEW j \in 1..m - (k + Len(data))
              PROVE  file[b + j] = Segment("get", n, (k + Len(data)) + j)
          <6>1. /\ Len(data) + j \in 1..m - k /\ a + (Len(data) + j) = b + j
                /\ k + (Len(data) + j) = (k + Len(data)) + j
            BY <3>12
          <6> QED
            BY <3>1, <6>1
        <5> QED
          BY <1>5, <1>7, <2>6, <5>1, <5>2 DEF Rest
      <4>5. k + Len(data) \in 1..m - 1
        BY <1>4, <2>2, <2>3, <2>4, <3>7
      <4>6. Midst(x)
        BY <1>5, <1>7, <2>1, <3>4, <3>6, <4>1, <4>3, <4>4, <4>5, Zenon DEF Midst
      <4>7. Stores(w, x)
        BY <1>1, <1>6, <3>6, <4>2, <4>6 DEF Stores, OnTrack
      <4> QED
        BY <4>7 DEF x
    <3>8. CASE ~(k + Len(data) < m)
      <4>1. /\ x.client.not_receiving /\ x.client.prompt \in {w.client.prompt, "ask"}
            /\ x.link = y.link
        BY <1>1, <1>2, <1>9, <3>2, <3>8 DEF GetsFile, size, got, k
      <4>2. k + Len(data) = m /\ b = Len(file)
        BY <3>8, <3>12
      <4>3. Quiet(x)
        BY <1>2, <1>5, <1>7, <2>1, <4>1, <4>2 DEF Quiet, AllHanded, Fresh
      <4>4. Complete(x)
        BY <1>5, <1>7, <3>4, <3>6, <4>2 DEF Complete
      <4>5. Stores(w, x)
        BY <1>1, <1>2, <1>6, <3>6, <4>1, <4>3, <4>4 DEF Stores, OnTrack
      <4> QED
        BY <4>5 DEF x
    <3> QED
      BY <3>7, <3>8
  <2>7. CASE ~(m > 0)
    <3>1. k = 0 /\ Len(file) = a + 1 /\ file[a + 1] = Segment("get", n, 0)
      BY <2>1, <2>7, Zenon DEF Rest
    <3>2. data[1].n = n
      BY <2>5, <3>1 DEF Segment
    <3>3. h.size = 0
      BY <2>1, <2>2, <2>7
    <3>4. size = as_int(as_uint(m))
      <4>1. decode_header(y, data) = as_int(as_uint(m))
        BY <1>5, <3>2, Zenon DEF decode_header, FileSize
      <4> QED
        BY <1>9, <3>3, <4>1 DEF SizeOf
    <3>5. ~(k < size)
      BY <2>2, <2>7, <3>1, <3>4
    <3> HIDE DEF size
    <3>6. x.client = [w.client EXCEPT !.got = <<>>] /\ x.link = y.link
      BY <1>1, <1>2, <1>9, <3>5 DEF GetsFile, size
    <3>7. /\ x.client.not_receiving = w.client.not_receiving
          /\ x.client.prompt = w.client.prompt /\ x.client.got = <<>>
      BY <3>6 DEF Typed, World, Client
    <3>8. Prefix(x)
      <4>1. Message("get", 0, 0) = <<>>
        BY DEF Message
      <4>2. Len(x.client.got) = 0 /\ 0 \in 0..x.client.commands
        BY <1>5, <2>2, <3>7
      <4> QED
        BY <3>7, <4>1, <4>2 DEF Prefix
    <3>9. b = Len(file)
      BY <1>4, <2>4, <3>1
    <3>10. Quiet(x)
      BY <1>2, <1>5, <1>7, <2>1, <3>6, <3>9 DEF Quiet, AllHanded, Fresh
    <3>11. Stores(w, x)
      BY <1>1, <1>2, <1>6, <3>6, <3>7, <3>8, <3>10 DEF Stores, OnTrack
    <3> QED
      BY <3>11 DEF x
  <2> QED
    BY <2>2, <2>6, <2>7
<1> QED
  BY <1>8, <1>9

\* handle_req waits for the file, and may hold back the one it is to post.
Starts(w, x) ==
  LET h == x.link.rcv_handler["client"] IN
  /\ Hears(w, x) /\ x.link.handed = w.link.handed
  /\ x.client = [w.client EXCEPT !.not_receiving = FALSE]
  /\ x.link.valid_rcv_handler["client"] /\ h.size = 0 /\ h.current_index = 0

Waits(w, x) ==
  /\ Changes(w, x) /\ x.client.got = w.client.got
  /\ x.client.not_receiving = w.client.not_receiving /\ w.client.prompt = "ask"

StartsGet(w, y) ==
  \/ ~Getting(w) /\ y = w
  \/ /\ Getting(w)
     /\ \E x : /\ Starts(w, x)
               /\ \/ unread(x, "client") = <<>> /\ y = x
                  \/ unread(x, "client") # <<>> /\ y = call_rcv_handler(x, "client")

StartsPost(y, z) == z = y \/ Waits(y, z) \/ ClientPosts(y, z)

LEMMA StartsGetActs ==
  ASSUME NEW w, Typed(w), ~Querying(w), NEW y, StartsGet(w, y)
  PROVE  Hears(w, y)
<1>1. CASE y = w
  BY <1>1 DEF Hears, Acts, Same
<1>2. ASSUME NEW x, Starts(w, x), y = x \/ y = call_rcv_handler(x, "client")
      PROVE  Hears(w, y)
  <2>1. Typed(x) /\ ~Querying(x) /\ x.link.valid_rcv_handler["client"] /\ Hears(w, x)
    BY <1>2 DEF Starts, Hears, Acts, Same, Querying
  <2>2. Hears(x, call_rcv_handler(x, "client"))
    BY <2>1, ClientCalled
  <2> QED
    BY <1>2, <2>1, <2>2, HearsAgain
<1> QED
  BY <1>1, <1>2 DEF StartsGet

LEMMA StartsPostActs ==
  ASSUME NEW w, Typed(w), NEW x, StartsPost(w, x)
  PROVE  Acts(w, x)
<1>1. Acts(w, w)
  BY DEF Acts, Same
<1> QED
  BY <1>1 DEF StartsPost, Waits, Changes, Hears, ClientPosts

LEMMA HandleReqIs ==
  ASSUME NEW w, Typed(w), ~Querying(w), w.client.commands > 0
  PROVE  LET c == w.script[w.client.commands]
             z == handle_req(w)
         IN  /\ \E y : StartsGet(w, y) /\ StartsPost(y, z)
             /\ Acts(w, z)
             /\ ~Posts(c) => StartsGet(w, z)
             /\ Posts(c) /\ ~Gets(c) /\ w.client.prompt # "ask" => z = client_post(w, w.client.commands)
<1> DEFINE n == w.client.commands
           c == w.script[n]
           h == Handler("get", n, 0, 0)
           v == [w EXCEPT !.client.not_receiving = FALSE]
           x == register(v, "client", h)
           called == client_get_handler(hand_over(x, "client"), h, unread(x, "client"))
           y == CASE ~Gets(c) -> w
                  [] Gets(c) /\ unread(x, "client") = <<>> -> x
                  [] OTHER -> called
           held == [y EXCEPT !.client.prompt = "ask_then_post"]
           z == handle_req(w)
<1>1. n \in 1..Len(w.script) /\ n \in Nat
  BY LenProperties DEF Typed, World, Client
<1>2. Changes(w, v) /\ v.client = [w.client EXCEPT !.not_receiving = FALSE]
  <2>1. /\ v \in World /\ v.link = w.link /\ v.script = w.script
        /\ v.server = w.server /\ v.posted = w.posted
        /\ v.client = [w.client EXCEPT !.not_receiving = FALSE]
        /\ v.client.commands = w.client.commands /\ v.client.prompt = w.client.prompt
    BY DEF Typed, World, Client
  <2> HIDE DEF v
  <2> QED
    BY <2>1, ChangesRest DEF Typed, CommandsFit
<1>3. h \in RcvHandler /\ h.name = "get" /\ h.size = 0 /\ h.current_index = 0
  BY <1>1 DEF Handler, RcvHandler, RcvNames
<1>4. z = CASE ~Posts(c) -> y
            [] Posts(c) /\ y.client.prompt = "ask" -> held
            [] OTHER -> client_post(y, n)
  BY Zenon DEF handle_req
<1> HIDE DEF v, h, held, z
<1>5. Typed(v) /\ ~Querying(v) /\ HandlerFits(v, "client", h)
  BY <1>2, <1>3 DEF HandlerFits, Changes, Hears, Acts, Same, Querying
<1>6. /\ Hears(v, x) /\ x.client = v.client
      /\ x.link.handed = v.link.handed
      /\ x.link.rcv_handler["client"] = h /\ x.link.valid_rcv_handler["client"]
  BY <1>5, HearsRegister
<1> HIDE DEF x
<1>7. Starts(w, x)
  BY <1>2, <1>3, <1>6, HearsAgain DEF Starts, Changes
<1>8. called = call_rcv_handler(x, "client")
  <2>1. Typed(x) /\ ~Querying(x)
    BY <1>7 DEF Starts, Hears, Acts, Same, Querying
  <2> QED
    BY <1>6, <2>1, ClientCalled
<1> HIDE DEF called
<1>9. Getting(w) <=> Gets(c)
  BY DEF Getting
<1>10. StartsGet(w, y)
  <2>1. CASE ~Gets(c)
    BY <1>9, <2>1 DEF StartsGet
  <2>2. CASE Gets(c) /\ unread(x, "client") = <<>>
    BY <1>7, <1>9, <2>2 DEF StartsGet
  <2>3. CASE Gets(c) /\ unread(x, "client") # <<>>
    <3>1. y = called
      BY <2>3
    <3> QED
      BY <1>7, <1>8, <1>9, <2>3, <3>1 DEF StartsGet
  <2> QED
    BY <2>1, <2>2, <2>3
<1>11. ~Gets(c) => y = w
  OBVIOUS
<1> HIDE DEF y
<1>12. Hears(w, y)
  BY <1>10, StartsGetActs
<1>13. Typed(y) /\ ~Querying(y) /\ y.script = w.script /\ y.client.commands = n
  BY <1>12 DEF Hears, Acts, Same, Querying
<1>14. StartsPost(y, z)
  <2>1. CASE ~Posts(c)
    BY <1>4, <2>1 DEF StartsPost
  <2>2. CASE Posts(c) /\ y.client.prompt = "ask"
    <3>1. z = held
      BY <1>4, <2>2
    <3>2. /\ held \in World /\ held.link = y.link /\ held.script = y.script
          /\ held.server = y.server /\ held.posted = y.posted
          /\ held.client = [y.client EXCEPT !.prompt = "ask_then_post"]
          /\ held.client.commands = y.client.commands
          /\ held.client.got = y.client.got
          /\ held.client.not_receiving = y.client.not_receiving
      BY <1>13 DEF held, Typed, World, Client, Prompts
    <3>3. held.client.commands > 0
      BY <1>13, <3>2
    <3>4. Changes(y, held)
      BY <1>13, <3>2, <3>3, ChangesRest
    <3> QED
      BY <2>2, <3>1, <3>2, <3>4 DEF StartsPost, Waits
  <2>3. CASE Posts(c) /\ y.client.prompt # "ask"
    <3>1. z = client_post(y, n)
      BY <1>4, <2>3
    <3>2. ClientPosts(y, z)
      BY <1>1, <1>13, <3>1, ClientPostIs
    <3> QED
      BY <3>2 DEF StartsPost
  <2> QED
    BY <2>1, <2>2, <2>3
<1>15. Acts(w, z)
  BY <1>12, <1>13, <1>14, StartsPostActs, ActsAgain DEF Hears
<1>16. ~Posts(c) => StartsGet(w, z)
  BY <1>4, <1>10
<1>17. Posts(c) /\ ~Gets(c) /\ w.client.prompt # "ask" => z = client_post(w, n)
  BY <1>4, <1>11
<1> QED
  BY <1>10, <1>14, <1>15, <1>16, <1>17 DEF z

\* To post a file changes nothing about the one that is to come.
LEMMA PostsTrack ==
  ASSUME NEW y, NEW z, Typed(y), StartsPost(y, z)
  PROVE  /\ Quiet(y) <=> Quiet(z)
         /\ OnTrack(y) <=> OnTrack(z)
         /\ Complete(y) <=> Complete(z)
         /\ Getting(y) <=> Getting(z)
         /\ Prefix(y) <=> Prefix(z)
         /\ Drained(y, "client") <=> Drained(z, "client")
         /\ z.client.not_receiving = y.client.not_receiving
         /\ z.link.valid_rcv_handler["client"] = y.link.valid_rcv_handler["client"]
         /\ Awaiting(z) => Awaiting(y)
         /\ AsksFor(z) => AsksFor(y) \/ z.client.not_receiving
<1>1. CASE z = y
  BY <1>1
<1>2. CASE Waits(y, z)
  <2>1. /\ Alike(y, z) /\ z.link = y.link
        /\ z.client.not_receiving = y.client.not_receiving /\ y.client.prompt = "ask"
    BY <1>2 DEF Waits, Changes, Hears, Acts, Same, Alike
  <2>2. AsksFor(y)
    BY <2>1 DEF AsksFor
  <2> QED
    BY <2>1, <2>2, AlikeTrack DEF Drained, Awaiting
<1>3. CASE ClientPosts(y, z)
  <2>1. /\ z.script = y.script /\ z.client.commands = y.client.commands
        /\ z.client.got = y.client.got
        /\ z.link.sent["server"] = y.link.sent["server"]
        /\ z.link.handed = y.link.handed /\ z.link.taken = y.link.taken
        /\ z.link.rcv_handler = y.link.rcv_handler
        /\ z.link.valid_rcv_handler = y.link.valid_rcv_handler
        /\ z.client.not_receiving = y.client.not_receiving
        /\ z.client.prompt # y.client.prompt => z.client.prompt = "ask" /\ z.client.not_receiving
        /\ z.link.send_handler["client"] = "client_finish"
    BY <1>3 DEF ClientPosts, Acts, Same
  <2>2. PICK m \in Seq(Unit) : /\ z.link.sent["client"] = y.link.sent["client"] \o m
                               /\ \A k \in 1..Len(m) : m[k].kind = "post"
    BY <1>3 DEF ClientPosts
  <2> DEFINE old == y.link.sent["client"]
             new == z.link.sent["client"]
             a == y.link.handed["server"]
  <2>3. old \in Seq(Unit) /\ a \in Nat
    BY Sides DEF Typed, World, LinkType
  <2>4. /\ Len(new) = Len(old) + Len(m) /\ Len(old) \in Nat /\ Len(m) \in Nat
        /\ \A p \in 1..Len(old) + Len(m) :
             new[p] = IF p <= Len(old) THEN old[p] ELSE m[p - Len(old)]
    BY <2>2, <2>3, ConcatProperties, LenProperties
  <2> HIDE DEF old, new, a
  <2>5. ASSUME NEW p \in a + 1 .. Len(old) PROVE p \in a + 1 .. Len(new) /\ new[p] = old[p]
    <3>1. p \in 1..Len(old) + Len(m) /\ p <= Len(old) /\ p \in a + 1 .. Len(new)
      BY <2>3, <2>4
    <3> QED
      BY <2>4, <3>1
  <2>6. ASSUME NEW p \in a + 1 .. Len(new), ~(p \in a + 1 .. Len(old)) PROVE new[p].kind = "post"
    <3>1. p \in 1..Len(old) + Len(m) /\ ~(p <= Len(old)) /\ p - Len(old) \in 1..Len(m)
      BY <2>3, <2>4, <2>6
    <3>2. new[p] = m[p - Len(old)]
      BY <2>4, <3>1
    <3> QED
      BY <2>2, <3>1, <3>2
  <2>7. ASSUME NEW p PROVE Asked(y, p) <=> Asked(z, p)
    <3>1. Asked(y, p) <=> /\ p \in a + 1 .. Len(old) /\ old[p].kind = "request"
                          /\ Gets(y.script[old[p].n])
      BY Zenon DEF Asked, a, old
    <3>2. Asked(z, p) <=> /\ p \in a + 1 .. Len(new) /\ new[p].kind = "request"
                          /\ Gets(y.script[new[p].n])
      BY <2>1, Zenon DEF Asked, a, new
    <3>3. CASE p \in a + 1 .. Len(old)
      BY <2>5, <3>1, <3>2, <3>3, Zenon
    <3>4. CASE ~(p \in a + 1 .. Len(old))
      <4>1. p \in a + 1 .. Len(new) => new[p].kind # "request"
        BY <2>6, <3>4
      <4> QED
        BY <3>1, <3>2, <3>4, <4>1, Zenon
    <3> QED
      BY <3>3, <3>4
  <2>8. /\ AllHanded(y) <=> AllHanded(z)
        /\ Fresh(y) <=> Fresh(z)
        /\ Getting(y) <=> Getting(z)
        /\ \A k : Rest(y, k) <=> Rest(z, k)
        /\ Complete(y) <=> Complete(z)
        /\ Prefix(y) <=> Prefix(z)
        /\ FileSize(y) = FileSize(z)
    BY <2>1, Zenon DEF AllHanded, Fresh, Getting, Rest, FileSize, Complete, Prefix
  <2>9. Quiet(y) <=> Quiet(z)
    BY <2>7, <2>8, Zenon DEF Quiet
  <2>10. Coming(y) <=> Coming(z)
    BY <2>7, <2>8, Zenon DEF Coming
  <2>11. Midst(y) <=> Midst(z)
    BY <2>1, <2>7, <2>8, Zenon DEF Midst
  <2>12. Requested(y) <=> Requested(z)
    <3>1. ASSUME NEW p
          PROVE  /\ (\A q : Asked(y, q) <=> q = p) <=> (\A q : Asked(z, q) <=> q = p)
                 /\ Asked(y, p) => new[p] = old[p]
      <4>1. Asked(y, p) => p \in a + 1 .. Len(old)
        BY Zenon DEF Asked, a, old
      <4> QED
        BY <2>5, <2>7, <4>1, Zenon
    <3> QED
      BY <2>1, <2>8, <3>1, Zenon DEF Requested, old, new
  <2>13. OnTrack(y) <=> OnTrack(z)
    BY <2>9, <2>10, <2>11, <2>12, Zenon DEF OnTrack
  <2>14. Drained(y, "client") <=> Drained(z, "client")
    BY <2>1, Zenon DEF Drained
  <2>15. ~Awaiting(z)
    BY <2>1 DEF Awaiting
  <2>16. AsksFor(z) => AsksFor(y) \/ z.client.not_receiving
    BY <2>1, Zenon DEF AsksFor
  <2> QED
    BY <2>1, <2>8, <2>9, <2>13, <2>14, <2>15, <2>16, Zenon
<1> QED
  BY <1>1, <1>2, <1>3, Zenon DEF StartsPost

LEMMA StartsTrack ==
  ASSUME NEW w, NEW x, Typed(w), Starts(w, x)
  PROVE  /\ x.client.commands = w.client.commands /\ ~x.client.not_receiving
         /\ x.client.prompt = w.client.prompt
         /\ Getting(w) <=> Getting(x)
         /\ Prefix(w) <=> Prefix(x)
         /\ Awaiting(w) <=> Awaiting(x)
         /\ ~w.link.valid_rcv_handler["client"] /\ OnTrack(w) => OnTrack(x)
<1>1. /\ x.script = w.script /\ x.client.commands = w.client.commands
      /\ x.link.sent = w.link.sent /\ x.link.handed = w.link.handed
      /\ x.link.send_handler = w.link.send_handler
      /\ x.link.valid_send_handler = w.link.valid_send_handler
      /\ x.link.rcv_handler["client"].size = 0
      /\ x.link.rcv_handler["client"].current_index = 0
  BY DEF Starts, Hears, Acts, Same
<1>2. /\ x.client.got = w.client.got /\ ~x.client.not_receiving
      /\ x.client.prompt = w.client.prompt
  BY DEF Starts, Typed, World, Client
<1>3. /\ \A p : Asked(x, p) <=> Asked(w, p)
      /\ Getting(x) <=> Getting(w)
      /\ AllHanded(x) <=> AllHanded(w)
      /\ \A k : Rest(x, k) <=> Rest(w, k)
      /\ Prefix(x) <=> Prefix(w)
      /\ Awaiting(x) <=> Awaiting(w)
  BY <1>1, <1>2, Zenon DEF Asked, Getting, AllHanded, Rest, FileSize, Prefix, Awaiting
<1>4. Fresh(x)
  BY <1>1, Zenon DEF Fresh
<1>5. ASSUME ~w.link.valid_rcv_handler["client"], OnTrack(w) PROVE OnTrack(x)
  <2>1. Quiet(w) => Quiet(x)
    BY <1>3, <1>4, Zenon DEF Quiet
  <2>2. Coming(w) => Coming(x)
    BY <1>3, <1>4, Zenon DEF Coming
  <2>3. ~Midst(w)
    BY <1>5, Zenon DEF Midst
  <2>4. Requested(w) => Requested(x)
    <3>1. ASSUME NEW p
          PROVE  (\A q : Asked(w, q) <=> q = p) <=> (\A q : Asked(x, q) <=> q = p)
      BY <1>3, Zenon
    <3> QED
      BY <1>1, <1>3, <1>4, <3>1, Zenon DEF Requested
  <2> QED
    BY <1>5, <2>1, <2>2, <2>3, <2>4, Zenon DEF OnTrack
<1> QED
  BY <1>1, <1>2, <1>3, <1>5, Zenon

\* What handle_req keeps; only the first line when the connection is given up.
Handles(w, z) ==
  /\ Acts(w, z) /\ Drained(z, "client") /\ Prefix(z)
  /\ ~w.link.valid_rcv_handler["client"] =>
       /\ OnTrack(z)
       /\ z.link.valid_rcv_handler["client"] => ~z.client.not_receiving
       /\ Getting(z) /\ z.client.not_receiving => Quiet(z) /\ Complete(z)
       /\ Awaiting(z) => Awaiting(w)
       /\ AsksFor(z) => AsksFor(w) \/ z.client.not_receiving

LEMMA HandleReqTrack ==
  ASSUME NEW w, Typed(w), ~Querying(w), w.client.commands > 0,
         Drained(w, "client"), OnTrack(w), Prefix(w)
  PROVE  Handles(w, handle_req(w))
<1> DEFINE z == handle_req(w)
<1>1. Acts(w, z)
  BY HandleReqIs
<1>2. PICK y : StartsGet(w, y) /\ StartsPost(y, z)
  BY HandleReqIs
<1> HIDE DEF z
<1>3. Hears(w, y)
  BY <1>2, StartsGetActs
<1>4. Typed(y) /\ y.link.send_handler = w.link.send_handler
      /\ y.link.valid_send_handler = w.link.valid_send_handler
  BY <1>3 DEF Hears, Acts
<1>5. Awaiting(y) <=> Awaiting(w)
  BY <1>4, Zenon DEF Awaiting
<1>6. /\ Drained(y, "client") /\ Prefix(y)
      /\ ~w.link.valid_rcv_handler["client"] =>
           /\ OnTrack(y)
           /\ y.link.valid_rcv_handler["client"] => ~y.client.not_receiving
           /\ Getting(y) /\ y.client.not_receiving => Quiet(y) /\ Complete(y)
           /\ AsksFor(y) => AsksFor(w) \/ y.client.not_receiving
  <2>1. CASE ~Getting(w) /\ y = w
    BY <2>1
  <2>2. ASSUME NEW x, Starts(w, x), unread(x, "client") = <<>> /\ y = x
        PROVE  <1>6!:
    <3>1. Typed(x) /\ ~Querying(x)
      BY <2>2 DEF Starts, Hears, Acts, Same, Querying
    <3>2. Drained(x, "client")
      BY <2>2, <3>1, UnreadByClient DEF Drained
    <3>3. /\ ~x.client.not_receiving /\ x.client.prompt = w.client.prompt
          /\ Prefix(x)
          /\ ~w.link.valid_rcv_handler["client"] => OnTrack(x)
      BY <2>2, StartsTrack
    <3>4. AsksFor(x) => AsksFor(w)
      BY <3>3, Zenon DEF AsksFor
    <3> QED
      BY <2>2, <3>2, <3>3, <3>4
  <2>3. ASSUME NEW x, Starts(w, x),
               unread(x, "client") # <<>> /\ y = call_rcv_handler(x, "client")
        PROVE  <1>6!:
    <3>1. /\ Typed(x) /\ ~Querying(x) /\ x.link.valid_rcv_handler["client"]
          /\ x.link.taken = w.link.taken /\ x.link.handed = w.link.handed
      BY <2>3 DEF Starts, Hears, Acts, Same, Querying
    <3>2. x.link.taken["client"] # x.link.handed["client"]
      BY <2>3, <3>1, UnreadByClient
    <3>3. ~w.link.valid_rcv_handler["client"]
      BY <3>1, <3>2 DEF Drained
    <3>4. /\ ~x.client.not_receiving /\ x.client.prompt = w.client.prompt
          /\ Prefix(x) /\ OnTrack(x)
      BY <2>3, <3>3, StartsTrack
    <3>5. Stores(x, y)
      BY <2>3, <3>1, <3>4, CalledTrack
    <3>6. AsksFor(y) => AsksFor(w) \/ y.client.not_receiving
      BY <3>4, <3>5, Zenon DEF AsksFor, Stores
    <3> QED
      BY <3>5, <3>6, Zenon DEF Stores
  <2> QED
    BY <1>2, <2>1, <2>2, <2>3 DEF StartsGet
<1>7. Handles(w, z)
  BY <1>1, <1>2, <1>4, <1>5, <1>6, PostsTrack DEF Handles
<1> QED
  BY <1>7 DEF z

-----------------------------------------------------------------------------
(* The steps of a file client and of the server at the other end *)

\* What a step of a file transfer finds, and leaves.
FilesFit(w) ==
  /\ Prefix(w)
  /\ w.link.up["client"] /\ ~w.link.garbled => OnTrack(w) /\ Rules(w)
  /\ ~w.link.up["client"] => ~AsksFor(w)

Keeps(w, x) ==
  Acts(w, x) /\ Drained(x, "client") /\ OnTrack(x) /\ Rules(x) /\ Prefix(x)

LEMMA CallKeeps ==
  ASSUME NEW w, Typed(w), ~Querying(w), OnTrack(w), Rules(w), Prefix(w)
  PROVE  Keeps(w, call_rcv_handler(w, "client"))
<1> DEFINE x == call_rcv_handler(w, "client")
<1>1. CASE ~w.link.valid_rcv_handler["client"]
  <2>1. x = w
    BY <1>1 DEF call_rcv_handler
  <2>2. Acts(w, w) /\ Drained(w, "client")
    BY <1>1 DEF Acts, Same, Drained
  <2> QED
    BY <2>1, <2>2 DEF Keeps
<1>2. CASE w.link.valid_rcv_handler["client"]
  <2>1. ~w.client.not_receiving /\ ~Awaiting(w) /\ ~AsksFor(w)
    BY <1>2, Zenon DEF Rules
  <2>2. Stores(w, x)
    BY <1>2, <2>1, CalledTrack
  <2> HIDE DEF x
  <2>3. ~Awaiting(x)
    BY <2>1, <2>2, Zenon DEF Awaiting, Stores, Hears
  <2>4. AsksFor(x) => x.client.not_receiving
    BY <2>1, <2>2, Zenon DEF Stores, AsksFor
  <2>5. Rules(x)
    BY <2>2, <2>3, <2>4, Zenon DEF Rules, Stores
  <2>6. Keeps(w, x)
    BY <2>2, <2>5 DEF Keeps, Stores, Hears
  <2> QED
    BY <2>6 DEF x
<1> QED
  BY <1>1, <1>2

LEMMA AckKeeps ==
  ASSUME NEW w, Typed(w), ~Querying(w), w.link.valid_send_handler["client"],
         Drained(w, "client"), OnTrack(w), Rules(w), Prefix(w), ~AsksFor(w)
  PROVE  Keeps(w, call_send_handler(w, "client"))
<1> DEFINE x == Clear(w, "client")
           z == call_send_handler(w, "client")
<1>1. Clears(w, "client", x)
  BY TypedClear, Sides
<1>2. Acts(w, x) /\ Alike(w, x) /\ Typed(x) /\ ~Querying(x) /\ ~Awaiting(x) /\ ~AsksFor(x)
      /\ Drained(x, "client")
  BY <1>1, Sides DEF Clears, Same, Acts, Alike, Querying, Awaiting, AsksFor, Drained
<1>3. OnTrack(x) /\ Prefix(x)
  BY <1>2, AlikeTrack
<1>4. w.link.send_handler["client"] \in {"handle_req", "client_finish"}
  BY DEF Typed, HandlersFit
<1>5. CASE w.link.send_handler["client"] = "handle_req"
  <2>1. z = handle_req(x)
    BY <1>5 DEF call_send_handler, Clear
  <2>2. x.client.commands > 0
    BY <1>1, <1>5 DEF Clears, Typed, CommandsFit
  <2>3. ~x.link.valid_rcv_handler["client"]
    <3>1. Awaiting(w)
      BY <1>5 DEF Awaiting
    <3> QED
      BY <1>1, <3>1 DEF Rules, Clears
  <2> HIDE DEF x, z
  <2>4. Handles(x, z)
    BY <1>2, <1>3, <2>1, <2>2, HandleReqTrack
  <2>5. Rules(z)
    BY <1>2, <2>3, <2>4, Zenon DEF Handles, Rules
  <2>6. Keeps(w, z)
    BY <1>2, <2>3, <2>4, <2>5, ActsAgain DEF Handles, Keeps
  <2> QED
    BY <2>6 DEF z
<1>6. CASE w.link.send_handler["client"] = "client_finish"
  <2>1. z = client_finish(x, FALSE)
    BY <1>6 DEF call_send_handler, Clear
  <2>2. ~Awaiting(w)
    BY <1>6 DEF Awaiting
  <2> HIDE DEF x, z
  <2>3. Finishes(x, FALSE, z)
    BY <1>2, <2>1, FinishIs
  <2>4. /\ Alike(x, z) /\ Acts(x, z) /\ z.link = x.link
        /\ z.client.not_receiving <=> x.client.not_receiving
        /\ z.client.prompt # x.client.prompt => z.client.prompt = "ask" /\ z.client.not_receiving
    BY <2>3 DEF Finishes, Changes, Hears, Acts, Same, Alike
  <2>5. /\ OnTrack(z) /\ Prefix(z)
        /\ Quiet(w) <=> Quiet(z)
        /\ Complete(w) <=> Complete(z)
        /\ Getting(w) <=> Getting(z)
    BY <1>2, <1>3, <2>4, AlikeTrack
  <2>6. ~Awaiting(z) /\ Drained(z, "client")
    BY <1>2, <2>4 DEF Awaiting, Drained, Acts, Same
  <2>7. AsksFor(z) => z.client.not_receiving
    BY <1>2, <2>4, Zenon DEF AsksFor
  <2>8. /\ z.link.valid_rcv_handler["client"] <=> w.link.valid_rcv_handler["client"]
        /\ z.client.not_receiving <=> w.client.not_receiving
    BY <1>1, <2>4 DEF Clears
  <2>9. Rules(z)
    BY <2>2, <2>5, <2>6, <2>7, <2>8, Zenon DEF Rules
  <2>10. Keeps(w, z)
    BY <1>2, <2>4, <2>5, <2>6, <2>9, ActsAgain DEF Keeps
  <2> QED
    BY <2>10 DEF z
<1> QED
  BY <1>4, <1>5, <1>6

\* A datagram that has arrived, before a handler is called.
LEMMA MovesTrack ==
  ASSUME NEW w, NEW x, Moves(w, x)
  PROVE  /\ OnTrack(w) <=> OnTrack(x)
         /\ Rules(w) <=> Rules(x)
         /\ Prefix(w) <=> Prefix(x)
         /\ Quiet(w) <=> Quiet(x)
         /\ AsksFor(w) <=> AsksFor(x)
         /\ Querying(w) <=> Querying(x)
<1>1. Alike(w, x)
  BY DEF Moves, Alike
<1>2. /\ Awaiting(w) <=> Awaiting(x)
      /\ AsksFor(w) <=> AsksFor(x)
      /\ Querying(w) <=> Querying(x)
  BY Zenon DEF Moves, Awaiting, AsksFor, Querying
<1>3. Rules(w) <=> Rules(x)
  BY <1>1, <1>2, AlikeTrack, Zenon DEF Rules, Moves
<1> QED
  BY <1>1, <1>2, <1>3, AlikeTrack

Fits(w) ==
  /\ Typed(w) /\ Drained(w, "client") /\ Drained(w, "server")
  /\ ~Querying(w) => FilesFit(w)

LEMMA KeepsFits ==
  ASSUME NEW w, Typed(w), ~Querying(w), Drained(w, "server"), w.link.up["client"],
         NEW x, Keeps(w, x)
  PROVE  Fits(x) /\ x.script = w.script
<1>1. x.link.up["client"] /\ x.script = w.script
  BY DEF Keeps, Acts, Same
<1>2. Drained(x, "server")
  BY DEF Keeps, Acts, Same, Drained
<1> QED
  BY <1>1, <1>2 DEF Keeps, Acts, Fits, FilesFit

\* The client's end: data or an acknowledgement arrives, or nothing new.
LEMMA ClientCalls ==
  ASSUME NEW w, Fits(w), ~Querying(w), w.link.up["client"], ~w.link.garbled,
         NEW v, Moves(w, v), Drained(v, "server")
  PROVE  LET x == call_rcv_handler(v, "client") IN Fits(x) /\ x.script = w.script
<1>1. Typed(v) /\ ~Querying(v) /\ OnTrack(v) /\ Rules(v) /\ Prefix(v)
  BY MovesTrack DEF Fits, FilesFit, Moves
<1>2. Keeps(v, call_rcv_handler(v, "client"))
  BY <1>1, CallKeeps
<1>3. v.link.up["client"] /\ v.script = w.script
  BY DEF Moves
<1> QED
  BY <1>1, <1>2, <1>3, KeepsFits

LEMMA ClientAcks ==
  ASSUME NEW w, Fits(w), ~Querying(w), w.link.up["client"], ~w.link.garbled, ~AsksFor(w),
         NEW v, Moves(w, v), Drained(v, "server"), Drained(v, "client"),
         v.link.valid_send_handler["client"]
  PROVE  LET x == call_rcv_handler(call_send_handler(v, "client"), "client") IN
         Fits(x) /\ x.script = w.script
<1> DEFINE y == call_send_handler(v, "client")
           x == call_rcv_handler(y, "client")
<1>1. /\ Typed(v) /\ ~Querying(v) /\ OnTrack(v) /\ Rules(v) /\ Prefix(v) /\ ~AsksFor(v)
      /\ v.link.up["client"] /\ v.script = w.script
  BY MovesTrack DEF Fits, FilesFit, Moves
<1>2. Keeps(v, y)
  BY <1>1, AckKeeps
<1> HIDE DEF y
<1>3. Typed(y) /\ ~Querying(y) /\ OnTrack(y) /\ Rules(y) /\ Prefix(y) /\ Acts(v, y)
  BY <1>1, <1>2 DEF Keeps, Acts, Same, Querying
<1>4. Keeps(y, x)
  BY <1>3, CallKeeps
<1> HIDE DEF x
<1>5. Keeps(v, x)
  BY <1>3, <1>4, ActsAgain DEF Keeps
<1>6. Fits(x) /\ x.script = w.script
  BY <1>1, <1>5, KeepsFits
<1> QED
  BY <1>6 DEF x, y

LEMMA FinKeeps ==
  ASSUME NEW w, Fits(w), ~Querying(w), w.link.up["client"], ~w.link.garbled
  PROVE  LET x == take_down(fta_client_fin(w), "client") IN Fits(x) /\ x.script = w.script
<1> DEFINE asked == w.link.send_handler["client"] = "handle_req"
           y == IF asked THEN handle_req(w) ELSE w
           z == fta_client_fin(w)
           x == take_down(z, "client")
<1>1. Typed(w) /\ OnTrack(w) /\ Prefix(w) /\ Drained(w, "client") /\ Drained(w, "server")
  BY DEF Fits, FilesFit
<1>2. Acts(w, y) /\ Prefix(y)
  <2>1. CASE asked
    <3>1. w.client.commands > 0
      BY <1>1, <2>1 DEF Typed, CommandsFit
    <3>2. Handles(w, handle_req(w))
      BY <1>1, <3>1, HandleReqTrack
    <3> QED
      BY <2>1, <3>2 DEF Handles
  <2>2. CASE ~asked
    BY <1>1, <2>2 DEF Acts, Same
  <2> QED
    BY <2>1, <2>2
<1> DEFINE end(p) == [y EXCEPT !.client.prompt = p]
<1>3. \E p \in {"gone", "stuck"} : z = end(p)
  BY Zenon DEF fta_client_fin
<1> HIDE DEF y, z, x
<1>4. ASSUME NEW p \in {"gone", "stuck"}, z = end(p)
      PROVE  Changes(y, z) /\ z.client.got = y.client.got /\ z.client.prompt = p
  <2>1. Typed(y)
    BY <1>2 DEF Acts
  <2>2. /\ z \in World /\ z.link = y.link /\ z.script = y.script
        /\ z.server = y.server /\ z.posted = y.posted
        /\ z.client = [y.client EXCEPT !.prompt = p]
        /\ z.client.commands = y.client.commands /\ z.client.prompt = p
        /\ z.client.got = y.client.got
    BY <1>4, <2>1 DEF Typed, World, Client, Prompts
  <2>3. z.client.prompt # "ask_then_post"
    BY <2>2
  <2> QED
    BY <2>1, <2>2, <2>3, ChangesRest
<1>5. Changes(y, z) /\ z.client.got = y.client.got /\ z.client.prompt \in {"gone", "stuck"}
  BY <1>3, <1>4
<1>6. Acts(w, z)
  BY <1>2, <1>5, ActsAgain DEF Changes, Hears
<1>7. TakesDown(z, "client", x)
  BY <1>6, TypedDown, Sides DEF Acts, x
<1>8. Prefix(x)
  <2>1. /\ x.client.got = y.client.got /\ x.client.commands = y.client.commands
    BY <1>5, <1>7 DEF TakesDown, Changes, Hears, Acts
  <2> QED
    BY <1>2, <2>1 DEF Prefix
<1>9. ~x.link.up["client"] /\ ~AsksFor(x) /\ Drained(x, "client")
  BY <1>5, <1>7 DEF TakesDown, AsksFor, Drained
<1>10. Drained(x, "server") /\ x.script = w.script /\ Typed(x)
  BY <1>1, <1>6, <1>7, Sides DEF TakesDown, Acts, Same, Drained
<1> QED
  BY <1>8, <1>9, <1>10 DEF Fits, FilesFit, x, z

\* The server's end.
LEMMA ServerReads ==
  ASSUME NEW w, Fits(w), ~Querying(w), NEW v, Moves(w, v), Drained(v, "client"),
         NEW x, Reads(v, x)
  PROVE  Fits(x) /\ x.script = w.script
<1>1. /\ x.script = v.script /\ x.client = v.client /\ Typed(x)
      /\ x.link.up = v.link.up /\ x.link.taken = v.link.taken
      /\ v.link.garbled => x.link.garbled
      /\ x.link.handed["client"] = v.link.handed["client"]
      /\ x.link.valid_rcv_handler["client"] = v.link.valid_rcv_handler["client"]
      /\ x.link.send_handler["client"] = v.link.send_handler["client"]
      /\ x.link.valid_send_handler["client"] = v.link.valid_send_handler["client"]
      /\ Drained(x, "server")
  BY DEF Reads, Serves, Same
<1>2. /\ Typed(v) /\ ~Querying(v) /\ v.script = w.script /\ v.link.up = w.link.up
      /\ v.link.garbled = w.link.garbled
      /\ OnTrack(w) => OnTrack(v)
      /\ Rules(w) => Rules(v)
      /\ Prefix(w) => Prefix(v)
      /\ AsksFor(v) => AsksFor(w)
  BY MovesTrack DEF Moves
<1>3. /\ Awaiting(x) <=> Awaiting(v)
      /\ AsksFor(x) <=> AsksFor(v)
      /\ Prefix(x) <=> Prefix(v)
      /\ Getting(x) <=> Getting(v)
      /\ Complete(x) <=> Complete(v)
      /\ Drained(x, "client") <=> Drained(v, "client")
  BY <1>1, Zenon DEF Awaiting, AsksFor, Prefix, Getting, Complete, FileSize, Drained
<1>4. ASSUME x.link.up["client"], ~x.link.garbled PROVE OnTrack(x) /\ Rules(x)
  <2>1. OnTrack(v) /\ Rules(v)
    BY <1>1, <1>2, <1>4 DEF Fits, FilesFit
  <2>2. /\ OnTrack(x)
        /\ Quiet(v) => Quiet(x)
    BY <1>2, <1>4, <2>1, ReadsTrack
  <2> QED
    BY <1>1, <1>3, <2>1, <2>2, Zenon DEF Rules
<1>5. Prefix(w) /\ (~w.link.up["client"] => ~AsksFor(w))
  BY DEF Fits, FilesFit
<1>6. FilesFit(x)
  BY <1>1, <1>2, <1>3, <1>4, <1>5, Zenon DEF FilesFit
<1> QED
  BY <1>1, <1>2, <1>3, <1>6 DEF Fits

LEMMA ServerDown ==
  ASSUME NEW w, Fits(w), ~Querying(w)
  PROVE  LET x == take_down(fta_server_fin(w), "server") IN Fits(x) /\ x.script = w.script
<1> DEFINE y == fta_server_fin(w)
           x == take_down(y, "server")
<1>1. Listens(w, y)
  BY ServerFin DEF Fits
<1> HIDE DEF y
<1>2. TakesDown(y, "server", x)
  BY <1>1, TypedDown, Sides DEF Listens, Serves
<1> HIDE DEF x
<1>3. /\ Typed(x) /\ x.script = w.script /\ x.client = w.client
      /\ x.link.up["client"] = w.link.up["client"] /\ x.link.garbled = w.link.garbled
      /\ x.link.send_handler["client"] = w.link.send_handler["client"]
      /\ x.link.valid_send_handler["client"] = w.link.valid_send_handler["client"]
      /\ Drained(x, "server")
      /\ Alike(w, x)
      /\ x.link.taken = w.link.taken
  BY <1>1, <1>2, Sides DEF TakesDown, Listens, Serves, Same, Drained, Alike
<1>4. /\ Awaiting(x) <=> Awaiting(w)
      /\ AsksFor(x) <=> AsksFor(w)
      /\ Drained(x, "client") <=> Drained(w, "client")
  BY <1>3, Zenon DEF Awaiting, AsksFor, Drained, Alike
<1>5. Rules(w) => Rules(x)
  BY <1>3, <1>4, AlikeTrack, Zenon DEF Rules, Alike
<1>6. FilesFit(w) => FilesFit(x)
  BY <1>3, <1>4, <1>5, AlikeTrack, Zenon DEF FilesFit
<1>7. Fits(x) /\ x.script = w.script
  BY <1>3, <1>4, <1>6 DEF Fits
<1> QED
  BY <1>7 DEF x, y

\* A line is typed, and nothing is on its way.
LEMMA CommandQuiet ==
  ASSUME NEW w, Fits(w), ~Querying(w), AsksFor(w), ~w.link.garbled
  PROVE  /\ w.link.up["client"] /\ Quiet(w) /\ w.client.not_receiving /\ ~Awaiting(w)
         /\ ~w.link.valid_rcv_handler["client"] /\ Prefix(w)
<1>1. w.link.up["client"] /\ OnTrack(w) /\ Rules(w) /\ Prefix(w)
  BY DEF Fits, FilesFit
<1>2. w.client.not_receiving /\ ~Awaiting(w)
  BY <1>1 DEF Rules
<1>3. Getting(w) => Quiet(w)
  BY <1>1, <1>2, Zenon DEF Rules
<1>4. ~Getting(w) => Quiet(w)
  BY <1>1, Zenon DEF OnTrack, Requested, Coming, Midst
<1> QED
  BY <1>1, <1>2, <1>3, <1>4 DEF Rules

\* The client has read command n from its user.
Entered(w, n, p) == [w EXCEPT !.client.commands = n, !.client.prompt = p]

Enters(w, n, p, x) ==
  /\ Typed(x) /\ Same(w, x) /\ x.link = w.link /\ x.client.commands = n
  /\ x.client.prompt = p /\ ~Querying(x)
  /\ Quiet(x) /\ Prefix(x) /\ ~Awaiting(x)
  /\ Getting(x) <=> Gets(w.script[n])

LEMMA CommandTyped ==
  ASSUME NEW w, Fits(w), ~Querying(w), AsksFor(w), ~w.link.garbled,
         NEW n \in 1..Len(w.script), n = w.client.commands + 1,
         NEW p \in {"busy", "gone"}
  PROVE  Enters(w, n, p, Entered(w, n, p))
<1> DEFINE x == Entered(w, n, p)
<1>1. Typed(w) /\ w \in World /\ w.client.commands \in Nat
  BY DEF Fits, Typed, World, Client
<1>2. /\ x \in World /\ x.link = w.link /\ x.script = w.script
      /\ x.server = w.server /\ x.posted = w.posted
      /\ x.client.commands = n /\ x.client.prompt = p /\ x.client.got = w.client.got
      /\ n \in Nat
  <2> DEFINE c == [w.client EXCEPT !.commands = n, !.prompt = p]
  <2>1. p \in Prompts /\ n \in Nat /\ w.client \in Client
    BY <1>1 DEF World, Prompts
  <2>2. c \in Client /\ c.commands = n /\ c.prompt = p /\ c.got = w.client.got
    BY <2>1 DEF Client
  <2>3. x = [w EXCEPT !.client = c]
    BY <1>1 DEF World, Entered
  <2> HIDE DEF c, x
  <2> QED
    BY <1>1, <2>1, <2>2, <2>3 DEF World
<1> HIDE DEF x
<1>3. w.client.commands <= n /\ n <= Len(w.script) /\ n > 0
  BY <1>1
<1>4. Typed(x) /\ Same(w, x)
  BY <1>1, <1>2, <1>3, TypedRest
<1>5. Quiet(w) /\ Prefix(w) /\ ~Awaiting(w)
  BY CommandQuiet
<1>6. Quiet(x)
  <2>1. /\ \A q : Asked(x, q) <=> Asked(w, q)
        /\ AllHanded(x) <=> AllHanded(w)
        /\ Fresh(x) <=> Fresh(w)
    BY <1>2, Zenon DEF Asked, AllHanded, Fresh
  <2> QED
    BY <1>5, <2>1, Zenon DEF Quiet
<1>7. Prefix(x)
  <2>1. PICK k \in 0..w.client.commands : w.client.got = Message("get", k, Len(w.client.got))
    BY <1>5 DEF Prefix
  <2>2. k \in 0..n
    BY <1>1, <1>3
  <2> QED
    BY <1>2, <2>1, <2>2 DEF Prefix
<1>8. ~Awaiting(x)
  BY <1>2, <1>5 DEF Awaiting
<1>9. Getting(x) <=> Gets(w.script[n])
  BY <1>2, <1>3 DEF Getting
<1>10. ~Querying(x)
  BY <1>2 DEF Querying
<1> QED
  BY <1>2, <1>4, <1>6, <1>7, <1>8, <1>9, <1>10 DEF x, Enters

LEMMA RequestTrack ==
  ASSUME NEW w, Typed(w), ~Querying(w), Quiet(w), w.client.commands > 0, Prefix(w)
  PROVE  LET n == w.client.commands
             x == async_send(w, "client", <<Segment("request", n, 0)>>, "handle_req")
         IN  /\ Typed(x) /\ Same(w, x) /\ x.client = w.client
             /\ x.link.handed = w.link.handed
             /\ x.link.valid_rcv_handler = w.link.valid_rcv_handler
             /\ OnTrack(x) /\ Prefix(x) /\ Awaiting(x)
             /\ x.link.acked["client"] < Len(x.link.sent["client"])
<1> DEFINE n == w.client.commands
           u == Segment("request", n, 0)
           x == async_send(w, "client", <<u>>, "handle_req")
           old == w.link.sent["client"]
           new == x.link.sent["client"]
           a == w.link.handed["server"]
<1>1. n \in Nat /\ n \in 1..Len(w.script)
  BY LenProperties DEF Typed, World, Client
<1>2. u \in Unit /\ u.n = n /\ u.kind = "request"
  BY <1>1 DEF Segment, Unit, Kinds
<1> HIDE DEF u
<1>3. <<u>> \in Seq(Unit) /\ Len(<<u>>) = 1 /\ <<u>> # <<>> /\ <<u>>[1] = u
  BY <1>2
<1>4. SendsMore(w, "client", <<u>>, "handle_req", x)
  <2>1. "client" \in Side /\ "handle_req" \in SendNames /\ SendFits(w, "client", "handle_req")
    BY Sides DEF SendNames, SendFits
  <2>2. \A k \in 1..Len(<<u>>) : <<u>>[k].n \in 1..Len(w.script)
    BY <1>1, <1>2, <1>3
  <2> QED
    BY <1>3, <2>1, <2>2, TypedSend
<1> HIDE DEF x
<1>5. /\ w.link.sent \in [Side -> Seq(Unit)] /\ w.link.send_handler \in [Side -> SendNames]
      /\ a \in Nat /\ a <= Len(old) /\ w.link.acked["client"] \in Nat
      /\ w.link.acked["client"] <= Len(old) /\ Len(old) \in Nat /\ old \in Seq(Unit)
  <2>1. /\ w.link.sent \in [Side -> Seq(Unit)] /\ w.link.send_handler \in [Side -> SendNames]
        /\ w.link.acked["client"] \in Nat /\ old \in Seq(Unit) /\ a \in Nat
        /\ w.link.taken["server"] \in Nat
    BY Sides DEF Typed, World, LinkType
  <2>2. /\ a <= w.link.taken["server"] /\ w.link.acked["client"] <= w.link.taken["server"]
        /\ w.link.taken["server"] <= Len(old)
    BY Sides DEF Typed, CountsFit
  <2>3. Len(old) \in Nat
    BY <2>1, LenProperties
  <2> QED
    BY <2>1, <2>2, <2>3
<1>6. /\ x.script = w.script /\ x.client = w.client /\ Typed(x) /\ Same(w, x)
      /\ x.link.handed = w.link.handed /\ x.link.acked = w.link.acked
      /\ x.link.sent["server"] = w.link.sent["server"]
      /\ x.link.rcv_handler = w.link.rcv_handler
      /\ x.link.valid_rcv_handler = w.link.valid_rcv_handler
      /\ x.link.send_handler["client"] = "handle_req"
      /\ x.link.valid_send_handler["client"]
      /\ new = old \o <<u>>
  BY <1>3, <1>4, <1>5, Sides DEF SendsMore, Same
<1>7. Awaiting(x)
  BY <1>6 DEF Awaiting
<1> HIDE DEF old, new, a
<1>8. /\ Len(new) = Len(old) + 1
      /\ \A p \in 1..Len(old) + 1 : new[p] = IF p <= Len(old) THEN old[p] ELSE u
  <2>1. /\ Len(new) = Len(old) + 1
        /\ \A p \in 1..Len(old) + 1 : new[p] = IF p <= Len(old) THEN old[p] ELSE <<u>>[p - Len(old)]
    BY <1>3, <1>5, <1>6, ConcatProperties
  <2>2. ASSUME NEW p \in 1..Len(old) + 1, ~(p <= Len(old)) PROVE p - Len(old) = 1
    BY <1>5, <2>2
  <2> QED
    BY <1>3, <2>1, <2>2
<1> DEFINE q == Len(old) + 1
<1>9. ASSUME NEW p, Asked(x, p) PROVE p = q
  <2>1. /\ p \in a + 1 .. Len(new) /\ new[p].kind = "request" /\ Gets(w.script[new[p].n])
    BY <1>6, <1>9, Zenon DEF Asked, a, new
  <2> SUFFICES ASSUME p # q PROVE FALSE
    OBVIOUS
  <2>2. p \in a + 1 .. Len(old) /\ p \in 1..Len(old) + 1 /\ p <= Len(old)
    BY <1>5, <1>8, <2>1
  <2>3. new[p] = old[p]
    BY <1>8, <2>2
  <2>4. Asked(w, p)
    BY <2>1, <2>2, <2>3, Zenon DEF Asked, a, old
  <2> QED
    BY <2>4 DEF Quiet
<1>10. Asked(x, q) <=> Gets(w.script[n])
  <2>1. q \in a + 1 .. Len(new) /\ q \in 1..Len(old) + 1 /\ ~(q <= Len(old))
    BY <1>5, <1>8
  <2>2. new[q] = u
    BY <1>8, <2>1
  <2> HIDE DEF q
  <2> QED
    BY <1>2, <1>6, <2>1, <2>2, Zenon DEF Asked, a, new
<1>11. AllHanded(x) /\ Fresh(x) /\ Prefix(x)
  BY <1>6, Zenon DEF Quiet, AllHanded, Fresh, Prefix
<1>12. OnTrack(x)
  <2>1. CASE Gets(w.script[n])
    <3>1. \A p : Asked(x, p) <=> p = q
      BY <1>9, <1>10, <2>1
    <3>2. new[q].n = x.client.commands
      <4>1. q \in 1..Len(old) + 1 /\ ~(q <= Len(old))
        BY <1>5
      <4> QED
        BY <1>2, <1>6, <1>8, <4>1
    <3>3. Getting(x)
      BY <1>6, <2>1 DEF Getting
    <3> HIDE DEF q
    <3> QED
      BY <1>11, <3>1, <3>2, <3>3, Zenon DEF OnTrack, Requested, new
  <2>2. CASE ~Gets(w.script[n])
    <3>1. \A p : ~Asked(x, p)
      BY <1>9, <1>10, <2>2
    <3> QED
      BY <1>11, <3>1, Zenon DEF OnTrack, Quiet
  <2> QED
    BY <2>1, <2>2
<1>13. x.link.acked["client"] < Len(new)
  BY <1>5, <1>6, <1>8
<1> QED
  BY <1>6, <1>7, <1>11, <1>12, <1>13 DEF x, u, new

\* accept_command, with the line that was typed.
LEMMA CommandFits ==
  ASSUME NEW w, Fits(w), ~Querying(w), AsksFor(w), ~w.link.garbled,
         w.client.commands < Len(w.script)
  PROVE  LET x == command(w, w.client.commands + 1) IN Fits(x) /\ x.script = w.script
<1> DEFINE n == w.client.commands + 1
           c == w.script[n]
           x == Entered(w, n, "busy")
           gone == [x EXCEPT !.client.prompt = "gone"]
           y == IF Gets(c) \/ Posts(c)
                THEN async_send(x, "client", <<Segment("request", n, 0)>>, "handle_req") ELSE x
           z == command(w, n)
<1>1. n \in 1..Len(w.script) /\ w.client.commands \in Nat /\ n - 1 = w.client.commands
  BY LenProperties DEF Fits, Typed, World, Client
<1>2. /\ w.link.up["client"] /\ w.client.not_receiving /\ ~Awaiting(w)
      /\ ~w.link.valid_rcv_handler["client"] /\ Typed(w)
      /\ Drained(w, "client") /\ Drained(w, "server")
  BY CommandQuiet DEF Fits
<1>3. z = CASE c.name = "disconnect" -> gone
            [] c.name # "disconnect" /\ w.client.prompt = "ask" -> y
            [] OTHER -> client_post(y, n - 1)
  BY Zenon DEF command, Entered
<1>4. gone = Entered(w, n, "gone")
  BY <1>1, <1>2 DEF Typed, World, Client, Entered
<1> HIDE DEF gone, n, z
<1>5. ASSUME NEW p \in {"busy", "gone"}
      PROVE  Enters(w, n, p, Entered(w, n, p))
  <2>1. n = w.client.commands + 1
    BY DEF n
  <2> QED
    BY <1>1, <2>1, CommandTyped, Zenon
<1>6. ASSUME NEW v, Typed(v), Same(w, v), v.link.handed = w.link.handed,
             v.link.valid_rcv_handler = w.link.valid_rcv_handler, Prefix(v),
             v.link.garbled \/ (OnTrack(v) /\ Rules(v))
      PROVE  Fits(v) /\ v.script = w.script
  BY <1>2, <1>6 DEF Fits, FilesFit, Same, Drained
<1>7. CASE c.name = "disconnect"
  <2>1. z = Entered(w, n, "gone") /\ ~Gets(c)
    BY <1>3, <1>4, <1>7 DEF Gets
  <2>2. /\ Typed(z) /\ Same(w, z) /\ z.link = w.link /\ z.client.prompt = "gone"
        /\ Quiet(z) /\ Prefix(z) /\ ~Getting(z)
    BY <1>5, <2>1 DEF Enters, c
  <2>3. Rules(z) /\ OnTrack(z)
    BY <1>2, <2>2 DEF Rules, AsksFor, OnTrack
  <2> QED
    BY <1>6, <2>2, <2>3 DEF z, n
<1>8. CASE c.name # "disconnect"
  <2>1. /\ Typed(x) /\ Same(w, x) /\ x.link = w.link /\ x.client.commands = n
        /\ x.client.prompt = "busy" /\ ~Querying(x)
        /\ Quiet(x) /\ Prefix(x) /\ ~Awaiting(x)
        /\ Getting(x) <=> Gets(c)
    BY <1>5 DEF Enters, c
  <2> HIDE DEF x
  <2>2. /\ Typed(y) /\ Same(w, y) /\ y.client = x.client
        /\ y.link.handed = w.link.handed
        /\ y.link.valid_rcv_handler = w.link.valid_rcv_handler
        /\ OnTrack(y) /\ Prefix(y) /\ ~AsksFor(y)
        /\ \/ Awaiting(y) /\ y.link.acked["client"] < Len(y.link.sent["client"])
           \/ ~Awaiting(y) /\ ~Getting(y)
    <3>1. CASE Gets(c) \/ Posts(c)
      <4>1. x.client.commands > 0
        BY <1>1, <2>1
      <4>2. y = async_send(x, "client", <<Segment("request", x.client.commands, 0)>>, "handle_req")
        BY <2>1, <3>1
      <4> HIDE DEF y
      <4>3. /\ Typed(y) /\ Same(x, y) /\ y.client = x.client
            /\ y.link.handed = x.link.handed
            /\ y.link.valid_rcv_handler = x.link.valid_rcv_handler
            /\ OnTrack(y) /\ Prefix(y) /\ Awaiting(y)
            /\ y.link.acked["client"] < Len(y.link.sent["client"])
        BY <2>1, <4>1, <4>2, RequestTrack
      <4> QED
        BY <2>1, <4>3 DEF Same, AsksFor
    <3>2. CASE ~(Gets(c) \/ Posts(c))
      BY <2>1, <3>2 DEF OnTrack, AsksFor
    <3> QED
      BY <3>1, <3>2
  <2> HIDE DEF y
  <2>3. ~y.link.valid_rcv_handler["client"]
    BY <1>2, <2>2
  <2>4. CASE w.client.prompt = "ask"
    <3>1. z = y
      BY <1>3, <1>8, <2>4
    <3>2. Rules(y)
      BY <2>2, <2>3 DEF Rules
    <3> QED
      BY <1>6, <2>2, <3>1, <3>2 DEF z, n
  <2>5. CASE w.client.prompt # "ask"
    <3>1. z = client_post(y, w.client.commands)
      BY <1>1, <1>3, <1>8, <2>5
    <3>2. w.client.commands \in 1..Len(y.script) /\ ~Querying(y)
      <4>1. w.client.prompt = "ask_then_post"
        BY <2>5 DEF AsksFor
      <4>2. w.client.commands > 0
        BY <1>2, <4>1 DEF Typed, CommandsFit
      <4> QED
        BY <1>1, <2>2, <4>2 DEF Same, Querying
    <3>3. ClientPosts(y, z)
      BY <2>2, <3>1, <3>2, ClientPostIs
    <3>4. /\ OnTrack(z) /\ Prefix(z)
          /\ Getting(z) <=> Getting(y)
          /\ Awaiting(z) => Awaiting(y)
          /\ AsksFor(z) => z.client.not_receiving
          /\ z.link.valid_rcv_handler["client"] = y.link.valid_rcv_handler["client"]
      BY <2>2, <3>3, PostsTrack DEF StartsPost
    <3>5. CASE Awaiting(y)
      <4>1. z.link.garbled
        BY <2>2, <3>3, <3>5 DEF ClientPosts
      <4> QED
        BY <1>6, <2>2, <3>3, <3>4, <4>1 DEF ClientPosts, Acts, Same, z, n
    <3>6. CASE ~Awaiting(y)
      <4>1. Rules(z)
        BY <2>2, <2>3, <3>4, <3>6 DEF Rules
      <4> QED
        BY <1>6, <2>2, <3>3, <3>4, <4>1 DEF ClientPosts, Acts, Same, z, n
    <3> QED
      BY <3>5, <3>6
  <2> QED
    BY <2>4, <2>5
<1> QED
  BY <1>7, <1>8

-----------------------------------------------------------------------------
(* The handlers of the database programs *)

LEMMA QueryingIs ==
  ASSUME NEW w, Typed(w), Querying(w)
  PROVE  /\ 1 \in 1..Len(w.script) /\ Len(w.script) = 1
         /\ w.script[1].get \in Int /\ w.script[1].get > 0
         /\ w.script[1].post \in Int /\ w.script[1].post >= 0
<1>1. 1 \in 1..Len(w.script)
  <2>1. w.script \in Seq(Command) /\ w.script # <<>>
    BY DEF Typed, World, Querying
  <2>2. Len(w.script) \in Nat \ {0}
    BY <2>1, EmptySeq
  <2> QED
    BY <2>2
<1>2. w.script[1].get \in Int /\ w.script[1].post \in Int
  BY <1>1, PostSize
<1>3. Len(w.script) = 1 /\ w.script[1].get > 0 /\ w.script[1].post >= 0
  BY <1>1 DEF Typed, ScriptFits, Querying
<1> QED
  BY <1>1, <1>2, <1>3

\* The engine read a query, which is answered, or nothing.
Engine(w, x) ==
  LET a == w.link.handed["server"]
      b == w.link.taken["server"]
  IN  /\ Serves(w, x) /\ Drained(x, "server")
      /\ \/ x.link.sent = w.link.sent /\ x.link.handed["server"] = a
         \/ /\ a < b /\ x.link.handed["server"] = b
            /\ x.link.sent["server"] =
                 w.link.sent["server"] \o Message("answer", b - a, w.script[1].get)

LEMMA AnswerServes ==
  ASSUME NEW w, Typed(w), Querying(w), NEW n \in Nat
  PROVE  LET m == Message("answer", n, w.script[1].get)
             x == async_send(w, "server", m, "close_connection")
         IN  /\ Serves(w, x) /\ x.link.handed = w.link.handed
             /\ x.link.valid_rcv_handler = w.link.valid_rcv_handler
             /\ x.link.sent["server"] = w.link.sent["server"] \o m
<1> DEFINE m == Message("answer", n, w.script[1].get)
           x == async_send(w, "server", m, "close_connection")
<1>1. m \in Seq(Unit)
  <2>1. "answer" \in Kinds /\ w.script[1].get \in Int
    BY QueryingIs DEF Kinds
  <2> QED
    BY <2>1, MessageIs
<1> HIDE DEF m
<1>2. SendsMore(w, "server", m, "close_connection", x)
  <2>1. "server" \in Side /\ "close_connection" \in SendNames /\ SendFits(w, "server", "close_connection")
    BY Sides DEF SendNames, SendFits
  <2> QED
    BY <1>1, <2>1, TypedSend, Sides
<1> HIDE DEF x
<1>3. /\ w.link.sent \in [Side -> Seq(Unit)] /\ w.link.send_handler \in [Side -> SendNames]
  BY DEF Typed, World, LinkType
<1>4. /\ x.link.sent["client"] = w.link.sent["client"]
      /\ x.link.sent["server"] = w.link.sent["server"] \o m
      /\ x.link.send_handler["client"] = w.link.send_handler["client"]
      /\ x.link.valid_send_handler["client"] = w.link.valid_send_handler["client"]
  BY <1>2, <1>3, Sides DEF SendsMore
<1> QED
  BY <1>2, <1>4 DEF SendsMore, Serves, m, x

LEMMA EngineCalled ==
  ASSUME NEW w, Typed(w), Querying(w)
  PROVE  Engine(w, call_rcv_handler(w, "server"))
<1> DEFINE data == unread(w, "server")
           a == w.link.handed["server"]
           b == w.link.taken["server"]
           y == hand_over(w, "server")
           x == call_rcv_handler(w, "server")
<1>1. CASE ~w.link.valid_rcv_handler["server"]
  <2>1. x = w
    BY <1>1 DEF call_rcv_handler
  <2> QED
    BY <1>1, <2>1, ServesSelf DEF Engine, Drained
<1>2. CASE w.link.valid_rcv_handler["server"]
  <2>1. x = handle_query(y, data)
    BY <1>2 DEF Typed, HandlersFit, call_rcv_handler
  <2>2. /\ Serves(w, y) /\ y.link.handed["server"] = b
        /\ y.link.sent = w.link.sent /\ ~y.link.valid_rcv_handler["server"]
    BY HandOverServes
  <2>3. /\ data \in Seq(Unit) /\ Len(data) = b - a
        /\ data = <<>> <=> b = a
        /\ data # <<>> => a + 1 <= b
    BY UnreadByServer
  <2>4. a \in Nat /\ b \in Nat
    BY Sides DEF Typed, World, LinkType
  <2> HIDE DEF y, x, data
  <2>5. Typed(y) /\ Querying(y) /\ y.script = w.script /\ y.link.taken = w.link.taken
    BY <2>2 DEF Serves, Same, Querying
  <2>6. CASE data = <<>>
    <3>1. x = register(y, "server", Handler("handle_query", 0, 0, 0))
      BY <2>1, <2>6 DEF handle_query, dba_rcv_handler
    <3>2. HandlerFits(y, "server", Handler("handle_query", 0, 0, 0))
      BY <2>5 DEF HandlerFits, Handler, RcvHandler, RcvNames
    <3>3. Listens(y, x)
      BY <2>5, <3>1, <3>2, ListensRegister
    <3>4. Serves(w, x)
      BY <2>2, <3>3, ServesAgain DEF Listens
    <3>5. x.link.sent = w.link.sent /\ x.link.handed["server"] = b /\ x.link.taken = w.link.taken
      BY <2>2, <3>3, <3>4 DEF Listens, Serves, Same
    <3>6. Engine(w, x)
      BY <2>3, <2>6, <3>4, <3>5 DEF Engine, Drained
    <3> QED
      BY <3>6 DEF x
  <2>7. CASE data # <<>>
    <3>1. b - a \in Nat /\ a < b
      BY <2>3, <2>4, <2>7
    <3> DEFINE m == Message("answer", b - a, y.script[1].get)
    <3>2. x = async_send(y, "server", m, "close_connection")
      BY <2>1, <2>3, <2>7, Zenon DEF handle_query
    <3>3. /\ Serves(y, x) /\ x.link.handed = y.link.handed
          /\ x.link.valid_rcv_handler = y.link.valid_rcv_handler
          /\ x.link.sent["server"] = y.link.sent["server"] \o m
      BY <2>5, <3>1, <3>2, AnswerServes
    <3>4. Serves(w, x) /\ Drained(x, "server")
      BY <2>2, <3>3, ServesAgain DEF Drained
    <3>5. Engine(w, x)
      BY <2>2, <2>5, <3>1, <3>3, <3>4 DEF Engine
    <3> QED
      BY <3>5 DEF x
  <2> QED
    BY <2>6, <2>7
<1> QED
  BY <1>1, <1>2

\* The client has read the answer, or still waits for it.
Response(w, x) ==
  /\ Hears(w, x) /\ Drained(x, "client")
  /\ \/ x.client = w.client
     \/ /\ unread(w, "client") # <<>>
        /\ x.client = [w.client EXCEPT !.got = unread(w, "client"), !.prompt = "gone"]

LEMMA UnreadAnswer ==
  ASSUME NEW w, Typed(w)
  PROVE  LET data == unread(w, "client")
             a == w.link.handed["client"]
         IN  /\ data \in Seq(Unit)
             /\ Len(data) = w.link.taken["client"] - a
             /\ data = <<>> <=> w.link.taken["client"] = a
             /\ \A k \in 1..Len(data) : data[k] = w.link.sent["server"][a + k]
<1>1. /\ w \in World /\ "client" \in Side /\ Other("client") = "server"
      /\ w.link.handed["client"] <= w.link.taken["client"]
      /\ w.link.taken["client"] <= Len(w.link.sent["server"])
  BY Sides DEF Typed, CountsFit
<1> QED
  BY <1>1, UnreadIs

LEMMA HandleResponse ==
  ASSUME NEW w, Typed(w), Querying(w), NEW h \in RcvHandler, h.name = "handle_response"
  PROVE  Response(w, handle_response(hand_over(w, "client"), h, unread(w, "client")))
<1> DEFINE data == unread(w, "client")
           y == hand_over(w, "client")
           z == [y EXCEPT !.client.got = data, !.client.prompt = "gone"]
           x == handle_response(y, h, data)
<1>1. /\ Hears(w, y) /\ y.client = w.client
      /\ y.link.handed["client"] = w.link.taken["client"]
      /\ ~y.link.valid_rcv_handler["client"]
  BY HandOverHears
<1>2. data \in Seq(Unit)
  BY UnreadAnswer
<1>3. /\ x = IF data = <<>> THEN register(y, "client", h) ELSE z
  BY Zenon DEF handle_response
<1> HIDE DEF y, data, x
<1>4. /\ Typed(y) /\ y.client = w.client /\ y.link.taken = w.link.taken
      /\ HandlerFits(y, "client", h)
  BY <1>1 DEF HandlerFits, Hears, Acts, Same, Querying
<1>5. CASE data = <<>>
  <2>1. /\ Hears(y, x) /\ x.client = y.client /\ x.link.handed = y.link.handed
    BY <1>3, <1>4, <1>5, HearsRegister
  <2>2. Hears(w, x)
    BY <1>1, <2>1, HearsAgain
  <2>3. Response(w, x)
    BY <1>1, <2>1, <2>2 DEF Response, Drained, Hears, Acts, Same
  <2> QED
    BY <2>3 DEF x, y, data
<1>6. CASE data # <<>>
  <2>1. /\ z \in World /\ z.link = y.link /\ z.script = y.script
        /\ z.server = y.server /\ z.posted = y.posted
        /\ z.client = [w.client EXCEPT !.got = data, !.prompt = "gone"]
        /\ z.client.commands = y.client.commands /\ z.client.prompt = "gone"
    BY <1>2, <1>4 DEF Typed, World, Client, Prompts
  <2>2. Changes(y, z)
    BY <1>4, <2>1, ChangesRest
  <2>3. Hears(w, z) /\ x = z
    BY <1>1, <1>3, <1>6, <2>2, HearsAgain DEF Changes
  <2>4. Response(w, x)
    BY <1>1, <1>6, <2>1, <2>3 DEF Response, Drained, data
  <2> QED
    BY <2>4 DEF x, y, data
<1> QED
  BY <1>5, <1>6

LEMMA AwaitResponse ==
  ASSUME NEW w, Typed(w), Querying(w)
  PROVE  Response(w, await_response(w))
<1> DEFINE h == Handler("handle_response", 0, 0, 0)
           y == register(w, "client", h)
           x == await_response(w)
<1>1. h \in RcvHandler /\ h.name = "handle_response" /\ HandlerFits(w, "client", h)
  BY DEF Handler, RcvHandler, RcvNames, HandlerFits
<1>2. x = IF unread(y, "client") # <<>>
          THEN handle_response(hand_over(y, "client"), h, unread(y, "client")) ELSE y
  BY Zenon DEF await_response
<1> HIDE DEF h, x
<1>3. Hears(w, y) /\ y.client = w.client /\ y.link.handed = w.link.handed
  BY <1>1, HearsRegister
<1> HIDE DEF y
<1>4. Typed(y) /\ Querying(y) /\ y.link.taken = w.link.taken
  BY <1>3 DEF Hears, Acts, Same, Querying
<1>5. unread(y, "client") = unread(w, "client")
  BY <1>3, <1>4, Zenon DEF unread, Hears
<1>6. CASE unread(y, "client") # <<>>
  <2>1. Response(y, x)
    BY <1>1, <1>2, <1>4, <1>6, HandleResponse
  <2>2. Response(w, x)
    BY <1>3, <1>5, <2>1, HearsAgain DEF Response
  <2> QED
    BY <2>2 DEF x
<1>7. CASE unread(y, "client") = <<>>
  <2>1. y.link.taken["client"] = y.link.handed["client"]
    BY <1>4, <1>7, UnreadAnswer
  <2>2. Response(w, y)
    BY <1>3, <2>1 DEF Response, Drained
  <2> QED
    BY <1>2, <1>7, <2>2 DEF x
<1> QED
  BY <1>6, <1>7

LEMMA ClientResponds ==
  ASSUME NEW w, Typed(w), Querying(w)
  PROVE  Response(w, call_rcv_handler(w, "client"))
<1> DEFINE h == w.link.rcv_handler["client"]
<1>1. CASE ~w.link.valid_rcv_handler["client"]
  <2>1. call_rcv_handler(w, "client") = w
    BY <1>1 DEF call_rcv_handler
  <2>2. Hears(w, w) /\ Drained(w, "client")
    BY <1>1 DEF Hears, Acts, Same, Drained
  <2> QED
    BY <2>1, <2>2 DEF Response
<1>2. CASE w.link.valid_rcv_handler["client"]
  <2>1. h \in RcvHandler /\ h.name = "handle_response"
    BY <1>2, Sides DEF Typed, World, LinkType, HandlersFit
  <2>2. call_rcv_handler(w, "client")
          = handle_response(hand_over(w, "client"), h, unread(w, "client"))
    BY <1>2, <2>1 DEF call_rcv_handler
  <2> QED
    BY <2>1, <2>2, HandleResponse
<1> QED
  BY <1>1, <1>2

\* The query and its answer are one segment each, or the query is empty.
Short(w) == w.script[1].get = 1 /\ w.script[1].post <= 1

\* Nothing is sent but the query and its answer, and the answer is what is printed.
AnswerFits(w) ==
  LET c == w.script[1]
      answer == Message("answer", c.post, c.get)
  IN  /\ Len(w.link.sent["client"]) <= c.post
      /\ w.client.commands = 0 => w.link.sent["client"] = <<>>
      /\ \/ w.link.sent["server"] = <<>>
         \/ w.link.sent["server"] = answer /\ w.link.handed["server"] > 0
      /\ w.client.prompt = "gone" => w.client.got = answer

Answered(w) == Querying(w) /\ Short(w) => AnswerFits(w)

LEMMA AnsweredSame ==
  ASSUME NEW w, Answered(w), NEW x, x.script = w.script, x.client = w.client,
         x.link.sent = w.link.sent, x.link.handed["server"] = w.link.handed["server"]
  PROVE  Answered(x)
BY Zenon DEF Answered, Querying, Short, AnswerFits

\* There is one segment to read, and it is the answer.
LEMMA ReadsAnswer ==
  ASSUME NEW w, Typed(w), Querying(w), Short(w), AnswerFits(w), unread(w, "client") # <<>>
  PROVE  unread(w, "client") = Message("answer", w.script[1].post, w.script[1].get)
<1> DEFINE data == unread(w, "client")
           c == w.script[1]
           answer == Message("answer", c.post, c.get)
           sent == w.link.sent["server"]
           a == w.link.handed["client"]
           b == w.link.taken["client"]
<1>1. /\ c.get = 1 /\ c.post \in Nat
  BY QueryingIs DEF Short
<1>2. answer \in Seq(Unit) /\ Len(answer) = 1
  <2>1. "answer" \in Kinds /\ c.get \in Int /\ c.get > 0 /\ c.get = 1
    BY <1>1 DEF Kinds
  <2> QED
    BY <1>1, <2>1, MessageIs
<1>3. /\ data \in Seq(Unit) /\ Len(data) = b - a
      /\ data = <<>> <=> b = a
      /\ \A k \in 1..Len(data) : data[k] = sent[a + k]
  BY UnreadAnswer
<1>4. a \in Nat /\ b \in Nat /\ a <= b /\ b <= Len(sent)
  BY Sides DEF Typed, World, LinkType, CountsFit
<1>5. sent = <<>> \/ sent = answer
  BY DEF AnswerFits
<1> HIDE DEF a, b, answer, data, sent
<1>6. a # b
  BY <1>3 DEF data
<1>7. sent = answer
  <2>1. CASE sent = <<>>
    <3>1. b <= 0
      BY <1>4, <2>1
    <3> QED
      BY <1>4, <1>6, <3>1
  <2> QED
    BY <1>5, <2>1
<1>8. a = 0 /\ b = 1
  <2>1. b <= 1
    BY <1>2, <1>4, <1>7, Zenon
  <2> QED
    BY <1>4, <1>6, <2>1
<1>9. Len(data) = 1 /\ data[1] = answer[1]
  <2>1. Len(data) = 1 /\ 1 \in 1..Len(data)
    BY <1>3, <1>8
  <2>2. data[1] = sent[0 + 1]
    BY <1>3, <1>8, <2>1, Zenon
  <2> QED
    BY <1>7, <2>1, <2>2
<1>10. data = answer
  BY <1>2, <1>3, <1>9
<1> QED
  BY <1>10 DEF data, answer

LEMMA ResponseAnswers ==
  ASSUME NEW w, Typed(w), Querying(w), Answered(w), NEW x, Response(w, x)
  PROVE  Typed(x) /\ Querying(x) /\ Answered(x)
<1>1. Hears(w, x) /\ x.script = w.script /\ Typed(x) /\ Querying(x)
  BY DEF Response, Hears, Acts, Same, Querying
<1>2. CASE x.client = w.client
  <2>1. Answered(x)
    BY <1>1, <1>2, AnsweredSame DEF Hears, Acts
  <2> QED
    BY <1>1, <2>1
<1>3. CASE /\ unread(w, "client") # <<>>
           /\ x.client = [w.client EXCEPT !.got = unread(w, "client"), !.prompt = "gone"]
  <2>1. SUFFICES ASSUME Short(x) PROVE AnswerFits(x)
    BY <1>1 DEF Answered
  <2>2. Short(w) /\ AnswerFits(w)
    BY <1>1, <2>1, Zenon DEF Short, Answered
  <2>3. unread(w, "client") = Message("answer", x.script[1].post, x.script[1].get)
    BY <1>1, <1>3, <2>2, ReadsAnswer
  <2>4. x.client.got = unread(w, "client") /\ x.client.commands = w.client.commands
    BY <1>3 DEF Typed, World, Client
  <2> QED
    BY <1>1, <2>2, <2>3, <2>4, Zenon DEF AnswerFits, Hears, Acts
<1> QED
  BY <1>2, <1>3 DEF Response

LEMMA EngineAnswers ==
  ASSUME NEW w, Typed(w), Querying(w), Answered(w), NEW x, Engine(w, x)
  PROVE  Typed(x) /\ Querying(x) /\ Answered(x)
<1> DEFINE c == w.script[1]
           a == w.link.handed["server"]
           b == w.link.taken["server"]
           m == Message("answer", b - a, c.get)
<1>1. Serves(w, x) /\ x.script = w.script /\ Typed(x) /\ Querying(x) /\ x.client = w.client
  BY DEF Engine, Serves, Same, Querying
<1>2. CASE x.link.sent = w.link.sent /\ x.link.handed["server"] = a
  <2>1. Answered(x)
    BY <1>1, <1>2, AnsweredSame
  <2> QED
    BY <1>1, <2>1
<1>3. CASE /\ a < b /\ x.link.handed["server"] = b
           /\ x.link.sent["server"] = w.link.sent["server"] \o m
  <2>1. SUFFICES ASSUME Short(x) PROVE AnswerFits(x)
    BY <1>1 DEF Answered
  <2>2. Short(w) /\ AnswerFits(w)
    BY <1>1, <2>1, Zenon DEF Short, Answered
  <2>3. /\ a \in Nat /\ b \in Nat /\ b <= Len(w.link.sent["client"])
        /\ w.link.sent["client"] \in Seq(Unit) /\ c.post \in Int /\ c.post <= 1
        /\ Len(w.link.sent["client"]) <= c.post
    BY <2>2, Sides, QueryingIs DEF Typed, World, LinkType, CountsFit, Short, AnswerFits
  <2> HIDE DEF a, b, c
  <2>4. a = 0 /\ b = 1 /\ c.post = 1
    <3>1. Len(w.link.sent["client"]) \in Nat
      BY <2>3
    <3> QED
      BY <1>3, <2>3, <3>1
  <2>5. w.link.sent["server"] = <<>>
    BY <2>2, <2>4 DEF AnswerFits, a
  <2>6. m = Message("answer", c.post, c.get) /\ m \in Seq(Unit)
    <3>1. b - a = 1 /\ c.get \in Int /\ c.post = 1
      BY <2>4, QueryingIs DEF c
    <3> QED
      BY <3>1, MessageIs DEF Kinds
  <2> HIDE DEF m
  <2>7. x.link.sent["server"] = m
    BY <1>3, <2>5, <2>6
  <2>8. x.link.handed["server"] > 0
    BY <1>3, <2>4
  <2> QED
    BY <1>1, <2>2, <2>6, <2>7, <2>8, Zenon DEF AnswerFits, Serves, c
<1> QED
  BY <1>2, <1>3 DEF Engine

Sound(w) == Fits(w) /\ Answered(w)

LEMMA SoundIs ==
  ASSUME NEW x, Typed(x), Querying(x), Answered(x), Drained(x, "client"), Drained(x, "server")
  PROVE  Sound(x)
BY DEF Sound, Fits

LEMMA MovesAnswered ==
  ASSUME NEW w, Sound(w), Querying(w), NEW v, Moves(w, v)
  PROVE  Typed(v) /\ Querying(v) /\ Answered(v)
<1>1. Answered(v)
  BY AnsweredSame DEF Sound, Moves
<1> QED
  BY <1>1, MovesTrack DEF Moves

LEMMA ResponseSound ==
  ASSUME NEW v, Typed(v), Querying(v), Answered(v), Drained(v, "server"), NEW x, Response(v, x)
  PROVE  Sound(x) /\ x.script = v.script
<1>1. x.script = v.script /\ Drained(x, "client")
  BY DEF Response, Hears, Acts, Same
<1>2. Drained(x, "server")
  BY DEF Response, Hears, Acts, Same, Drained
<1> QED
  BY <1>1, <1>2, ResponseAnswers, SoundIs

\* call_send_handler at the database client.
LEMMA ResponseAwaited ==
  ASSUME NEW v, Typed(v), Querying(v), Answered(v), Drained(v, "server"),
         v.link.valid_send_handler["client"]
  PROVE  LET y == call_send_handler(v, "client") IN Sound(y) /\ y.script = v.script
<1> DEFINE z == Clear(v, "client")
<1>1. Clears(v, "client", z)
  BY TypedClear, Sides
<1>2. call_send_handler(v, "client") = await_response(z)
  BY DEF Typed, HandlersFit, call_send_handler, Clear
<1> HIDE DEF z
<1>3. Typed(z) /\ Querying(z) /\ z.script = v.script
  BY <1>1 DEF Clears, Same, Querying
<1>4. Answered(z)
  BY <1>1, <1>3, AnsweredSame DEF Clears
<1>5. Drained(z, "server")
  BY <1>1 DEF Drained, Clears, Same
<1> QED
  BY <1>2, <1>3, <1>4, <1>5, AwaitResponse, ResponseSound

LEMMA EngineSound ==
  ASSUME NEW v, Typed(v), Querying(v), Answered(v), Drained(v, "client"), NEW x, Engine(v, x)
  PROVE  Sound(x) /\ x.script = v.script
<1>1. x.script = v.script /\ Drained(x, "server")
  BY DEF Engine, Serves, Same
<1>2. Drained(x, "client")
  BY DEF Engine, Serves, Same, Drained
<1> QED
  BY <1>1, <1>2, EngineAnswers, SoundIs

\* close_connection, once the answer is acknowledged.
LEMMA EngineCloses ==
  ASSUME NEW v, Typed(v), Querying(v), Answered(v), Drained(v, "client"),
         v.link.valid_send_handler["server"]
  PROVE  LET y == call_send_handler(v, "server") IN
         /\ Typed(y) /\ Querying(y) /\ Answered(y) /\ Drained(y, "client") /\ y.script = v.script
<1> DEFINE z == Clear(v, "server")
<1>1. Clears(v, "server", z)
  BY TypedClear, Sides
<1>2. call_send_handler(v, "server") = z
  BY DEF Typed, HandlersFit, call_send_handler, Clear
<1> HIDE DEF z
<1>3. Typed(z) /\ Querying(z) /\ z.script = v.script
  BY <1>1 DEF Clears, Same, Querying
<1>4. Answered(z)
  BY <1>1, <1>3, AnsweredSame DEF Clears
<1>5. Drained(z, "client")
  BY <1>1 DEF Drained, Clears, Same
<1> QED
  BY <1>2, <1>3, <1>4, <1>5

\* Either end of a database connection goes down.
LEMMA QueryDown ==
  ASSUME NEW y, Typed(y), Querying(y), Answered(y), Drained(y, "client"), Drained(y, "server"),
         NEW s \in Side
  PROVE  LET x == take_down(y, s) IN Sound(x) /\ x.script = y.script
<1> DEFINE x == take_down(y, s)
<1>1. TakesDown(y, s, x)
  BY TypedDown
<1> HIDE DEF x
<1>2. Typed(x) /\ Querying(x) /\ x.script = y.script
  BY <1>1 DEF TakesDown, Querying
<1>3. Answered(x)
  BY <1>1, AnsweredSame DEF TakesDown
<1>4. Drained(x, "client") /\ Drained(x, "server")
  BY <1>1, Sides DEF TakesDown, Drained
<1>5. Sound(x) /\ x.script = y.script
  BY <1>2, <1>3, <1>4, SoundIs
<1> QED
  BY <1>5 DEF x

LEMMA QueryFin ==
  ASSUME NEW w, Sound(w), Querying(w)
  PROVE  LET x == take_down(db_client_fin(w), "client") IN Sound(x) /\ x.script = w.script
<1> DEFINE y == await_response(w)
           z == db_client_fin(w)
           stuck == [y EXCEPT !.client.prompt = "stuck"]
<1>1. Response(w, y) /\ Typed(w) /\ Drained(w, "server") /\ Answered(w)
  BY AwaitResponse DEF Sound, Fits
<1>2. z = IF y.client.prompt = "gone" THEN y ELSE stuck
  BY Zenon DEF db_client_fin
<1> HIDE DEF y, z
<1>3. Sound(y) /\ y.script = w.script
  BY <1>1, ResponseSound
<1>4. Typed(y) /\ Querying(y) /\ Answered(y) /\ Drained(y, "client") /\ Drained(y, "server")
  BY <1>3 DEF Sound, Fits, Querying
<1>5. /\ Typed(stuck) /\ Querying(stuck) /\ Answered(stuck)
      /\ Drained(stuck, "client") /\ Drained(stuck, "server") /\ stuck.script = y.script
  <2>1. /\ stuck \in World /\ stuck.link = y.link /\ stuck.script = y.script
        /\ stuck.server = y.server /\ stuck.posted = y.posted
        /\ stuck.client = [y.client EXCEPT !.prompt = "stuck"]
        /\ stuck.client.commands = y.client.commands /\ stuck.client.prompt = "stuck"
        /\ stuck.client.got = y.client.got
    BY <1>4 DEF Typed, World, Client, Prompts
  <2> HIDE DEF stuck
  <2>2. Changes(y, stuck)
    BY <1>4, <2>1, ChangesRest
  <2>3. Typed(stuck) /\ Querying(stuck)
    BY <1>4, <2>1, <2>2 DEF Changes, Hears, Acts, Querying
  <2>4. stuck.client.prompt # "gone"
    BY <2>1
  <2>5. Answered(stuck)
    BY <1>4, <2>1, <2>4, Zenon DEF Answered, Querying, Short, AnswerFits
  <2>6. Drained(stuck, "client") /\ Drained(stuck, "server")
    BY <1>4, <2>1, Zenon DEF Drained
  <2> QED
    BY <2>1, <2>3, <2>5, <2>6
<1> HIDE DEF stuck
<1>6. Typed(z) /\ Querying(z) /\ Answered(z) /\ Drained(z, "client") /\ Drained(z, "server")
      /\ z.script = w.script
  BY <1>2, <1>3, <1>4, <1>5
<1>7. LET x == take_down(z, "client") IN Sound(x) /\ x.script = w.script
  BY <1>6, QueryDown, Sides
<1> QED
  BY <1>7 DEF z

\* main of the database client: the query is the arguments.
LEMMA QuerySent ==
  ASSUME NEW w, Sound(w), Querying(w), w.client.commands < Len(w.script)
  PROVE  LET m == Message("query", 1, w.script[1].post)
             y == async_send(Entered(w, 1, "busy"), "client", m, "await_response")
         IN  /\ Typed(y) /\ Querying(y) /\ Answered(y)
             /\ Drained(y, "client") /\ Drained(y, "server") /\ y.script = w.script
<1> DEFINE x == Entered(w, 1, "busy")
           m == Message("query", 1, w.script[1].post)
           y == async_send(x, "client", m, "await_response")
<1>1. Typed(w) /\ Answered(w) /\ Drained(w, "client") /\ Drained(w, "server")
  BY DEF Sound, Fits
<1>2. w \in World /\ w.client.commands = 0 /\ Len(w.script) = 1
  <2>1. w \in World /\ w.client.commands \in Nat /\ Len(w.script) = 1
    BY <1>1, QueryingIs DEF Typed, World, Client
  <2> QED
    BY <2>1
<1>3. /\ x \in World /\ x.link = w.link /\ x.script = w.script
      /\ x.client.commands = 1 /\ x.client.prompt = "busy" /\ x.client.got = w.client.got
  <2> DEFINE c == [w.client EXCEPT !.commands = 1, !.prompt = "busy"]
  <2>1. "busy" \in Prompts /\ w.client \in Client
    BY <1>2 DEF World, Prompts
  <2>2. c \in Client /\ c.commands = 1 /\ c.prompt = "busy" /\ c.got = w.client.got
    BY <2>1 DEF Client
  <2>3. x = [w EXCEPT !.client = c]
    BY <1>2 DEF World, Entered
  <2> HIDE DEF c, x
  <2> QED
    BY <1>2, <2>2, <2>3 DEF World
<1> HIDE DEF x
<1>4. Typed(x) /\ Same(w, x)
  <2>1. x.client.commands <= Len(w.script) /\ w.client.commands <= x.client.commands
        /\ x.client.commands > 0
    BY <1>2, <1>3
  <2> QED
    BY <1>1, <1>3, <2>1, TypedRest
<1>5. Querying(x)
  BY <1>3 DEF Querying
<1>6. /\ m \in Seq(Unit) /\ w.script[1].post \in Int /\ w.script[1].post >= 0
      /\ Len(m) = w.script[1].post
      /\ \A k \in 1..Len(m) : m[k].n \in 1..Len(x.script)
  <2>1. w.script[1].post \in Int /\ w.script[1].post >= 0
    BY <1>1, QueryingIs
  <2>2. "query" \in Kinds /\ 1 \in Nat
    BY DEF Kinds
  <2>3. /\ m \in Seq(Unit)
        /\ Len(m) = IF w.script[1].post > 0 THEN w.script[1].post ELSE 0
        /\ \A k \in 1..w.script[1].post : m[k] = [kind |-> "query", n |-> 1, k |-> k]
    BY <2>1, <2>2, MessageIs
  <2> HIDE DEF m
  <2>4. Len(m) = w.script[1].post
    BY <2>1, <2>3
  <2>5. Len(x.script) = 1
    BY <1>2, <1>3, Zenon
  <2>6. ASSUME NEW k \in 1..Len(m) PROVE m[k].n \in 1..Len(x.script)
    <3>1. m[k] = [kind |-> "query", n |-> 1, k |-> k]
      BY <2>3, <2>4
    <3>2. m[k].n = 1
      BY <3>1
    <3> QED
      BY <2>5, <3>2
  <2> QED
    BY <2>1, <2>3, <2>4, <2>6
<1> HIDE DEF m
<1>7. SendsMore(x, "client", m, "await_response", y)
  <2>1. "await_response" \in SendNames /\ SendFits(x, "client", "await_response")
    BY <1>5, Sides DEF SendNames, SendFits
  <2> QED
    BY <1>4, <1>6, <2>1, TypedSend, Sides
<1> HIDE DEF y
<1>8. /\ Typed(y) /\ y.script = w.script /\ Querying(y) /\ y.client = x.client
      /\ y.link.handed = w.link.handed /\ y.link.taken = w.link.taken
      /\ y.link.valid_rcv_handler = w.link.valid_rcv_handler
      /\ y.link.sent = [w.link.sent EXCEPT !["client"] = w.link.sent["client"] \o m]
  BY <1>3, <1>5, <1>7 DEF SendsMore, Same, Querying
<1>9. Answered(y)
  <2>1. SUFFICES ASSUME Short(y) PROVE AnswerFits(y)
    BY DEF Answered
  <2>2. AnswerFits(w)
    BY <1>1, <1>8, <2>1, Zenon DEF Answered, Short
  <2>3. y.link.sent["client"] = w.link.sent["client"] \o m
        /\ y.link.sent["server"] = w.link.sent["server"]
    BY <1>2, <1>8, Sides DEF World, LinkType
  <2>4. w.link.sent["client"] = <<>>
    BY <1>2, <2>2 DEF AnswerFits
  <2>5. y.link.sent["client"] = m
    BY <1>6, <2>3, <2>4
  <2>6. Len(y.link.sent["client"]) <= y.script[1].post
    BY <1>6, <1>8, <2>5
  <2>7. y.client.prompt # "gone" /\ y.client.commands # 0
    BY <1>3, <1>8
  <2> QED
    BY <1>8, <2>2, <2>3, <2>6, <2>7, Zenon DEF AnswerFits
<1>10. Drained(y, "client") /\ Drained(y, "server")
  BY <1>1, <1>8 DEF Drained
<1>11. /\ Typed(y) /\ Querying(y) /\ Answered(y)
       /\ Drained(y, "client") /\ Drained(y, "server") /\ y.script = w.script
  BY <1>8, <1>9, <1>10
<1> QED
  BY <1>11 DEF y, m, x

LEMMA QueryFits ==
  ASSUME NEW w, Sound(w), Querying(w), w.client.commands < Len(w.script)
  PROVE  Sound(query(w)) /\ query(w).script = w.script
<1> DEFINE m == Message("query", 1, w.script[1].post)
           y == async_send(Entered(w, 1, "busy"), "client", m, "await_response")
<1>1. /\ Typed(y) /\ Querying(y) /\ Answered(y)
      /\ Drained(y, "client") /\ Drained(y, "server") /\ y.script = w.script
  BY QuerySent
<1>2. query(w) = IF w.script[1].post > 0 THEN y ELSE await_response(y)
  BY Zenon DEF query, Entered
<1> HIDE DEF y
<1>3. Sound(y)
  BY <1>1, SoundIs
<1>4. Sound(await_response(y)) /\ await_response(y).script = y.script
  BY <1>1, AwaitResponse, ResponseSound
<1> QED
  BY <1>1, <1>2, <1>3, <1>4

-----------------------------------------------------------------------------
(* What a step does to the record of its client *)

LEMMA FilesSound ==
  ASSUME NEW w, ~Querying(w), NEW x, Fits(x), x.script = w.script
  PROVE  Sound(x)
BY DEF Sound, Answered, Querying

LEMMA TypesSound ==
  ASSUME NEW w, Sound(w), AsksFor(w), ~w.link.garbled, w.client.commands < Len(w.script)
  PROVE  LET x == IF Querying(w) THEN query(w) ELSE command(w, w.client.commands + 1)
         IN  Sound(x) /\ x.script = w.script
<1>1. CASE Querying(w)
  BY <1>1, QueryFits
<1>2. CASE ~Querying(w)
  <2>1. LET x == command(w, w.client.commands + 1) IN Fits(x) /\ x.script = w.script
    BY <1>2, CommandFits DEF Sound
  <2> QED
    BY <1>2, <2>1, FilesSound
<1> QED
  BY <1>1, <1>2

\* What call_rcv_handler starts from, when a datagram brings data or nothing.
CallSound(w, s) ==
  \A v : Moves(w, v) /\ Drained(v, Other(s)) =>
    LET x == call_rcv_handler(v, s) IN Sound(x) /\ x.script = w.script

LEMMA ClientCallSound ==
  ASSUME NEW w, Sound(w), w.link.up["client"], ~w.link.garbled
  PROVE  CallSound(w, "client")
<1> SUFFICES ASSUME NEW v, Moves(w, v), Drained(v, "server")
             PROVE  LET x == call_rcv_handler(v, "client") IN Sound(x) /\ x.script = w.script
  BY Sides DEF CallSound
<1>1. CASE Querying(w)
  <2>1. Typed(v) /\ Querying(v) /\ Answered(v) /\ v.script = w.script
    BY <1>1, MovesAnswered DEF Moves
  <2> QED
    BY <2>1, ClientResponds, ResponseSound
<1>2. CASE ~Querying(w)
  <2>1. LET x == call_rcv_handler(v, "client") IN Fits(x) /\ x.script = w.script
    BY <1>2, ClientCalls DEF Sound
  <2> QED
    BY <1>2, <2>1, FilesSound
<1> QED
  BY <1>1, <1>2

LEMMA ServerCallSound ==
  ASSUME NEW w, Sound(w), w.link.up["server"], ~w.link.garbled
  PROVE  CallSound(w, "server")
<1> SUFFICES ASSUME NEW v, Moves(w, v), Drained(v, "client")
             PROVE  LET x == call_rcv_handler(v, "server") IN Sound(x) /\ x.script = w.script
  BY Sides DEF CallSound
<1>1. CASE Querying(w)
  <2>1. Typed(v) /\ Querying(v) /\ Answered(v) /\ v.script = w.script
    BY <1>1, MovesAnswered DEF Moves
  <2> QED
    BY <2>1, EngineCalled, EngineSound
<1>2. CASE ~Querying(w)
  <2>1. Typed(v) /\ ~Querying(v)
    BY <1>2, MovesTrack DEF Moves
  <2>2. Reads(v, call_rcv_handler(v, "server"))
    BY <2>1, ServerCalled
  <2>3. LET x == call_rcv_handler(v, "server") IN Fits(x) /\ x.script = w.script
    BY <1>2, <2>2, ServerReads DEF Sound
  <2> QED
    BY <1>2, <2>3, FilesSound
<1> QED
  BY <1>1, <1>2

\* An acknowledgement completes the send, and both handlers are called.
AckSound(w, s) ==
  \A v : /\ Moves(w, v) /\ Drained(v, "client") /\ Drained(v, "server")
         /\ v.link.valid_send_handler[s]
         => LET x == call_rcv_handler(call_send_handler(v, s), s) IN Sound(x) /\ x.script = w.script

LEMMA ClientAckSound ==
  ASSUME NEW w, Sound(w), w.link.up["client"], ~w.link.garbled, ~AsksFor(w)
  PROVE  AckSound(w, "client")
<1> SUFFICES ASSUME NEW v, Moves(w, v), Drained(v, "client"), Drained(v, "server"),
                    v.link.valid_send_handler["client"]
             PROVE  LET x == call_rcv_handler(call_send_handler(v, "client"), "client")
                    IN  Sound(x) /\ x.script = w.script
  BY DEF AckSound
<1>1. CASE Querying(w)
  <2> DEFINE y == call_send_handler(v, "client")
  <2>1. Typed(v) /\ Querying(v) /\ Answered(v) /\ v.script = w.script
    BY <1>1, MovesAnswered DEF Moves
  <2>2. Sound(y) /\ y.script = v.script
    BY <2>1, ResponseAwaited
  <2> HIDE DEF y
  <2>3. Typed(y) /\ Querying(y) /\ Answered(y) /\ Drained(y, "server")
    BY <2>1, <2>2 DEF Sound, Fits, Querying
  <2>4. LET x == call_rcv_handler(y, "client") IN Sound(x) /\ x.script = y.script
    BY <2>3, ClientResponds, ResponseSound
  <2>5. LET x == call_rcv_handler(y, "client") IN Sound(x) /\ x.script = w.script
    BY <2>1, <2>2, <2>4
  <2> QED
    BY <2>5 DEF y
<1>2. CASE ~Querying(w)
  <2>1. LET x == call_rcv_handler(call_send_handler(v, "client"), "client")
        IN  Fits(x) /\ x.script = w.script
    BY <1>2, ClientAcks DEF Sound
  <2> QED
    BY <1>2, <2>1, FilesSound
<1> QED
  BY <1>1, <1>2

LEMMA ServerAckSound ==
  ASSUME NEW w, Sound(w), w.link.up["server"], ~w.link.garbled
  PROVE  AckSound(w, "server")
<1> SUFFICES ASSUME NEW v, Moves(w, v), Drained(v, "client"), Drained(v, "server"),
                    v.link.valid_send_handler["server"]
             PROVE  LET x == call_rcv_handler(call_send_handler(v, "server"), "server")
                    IN  Sound(x) /\ x.script = w.script
  BY DEF AckSound
<1> DEFINE y == call_send_handler(v, "server")
           x == call_rcv_handler(y, "server")
<1>1. CASE Querying(w)
  <2>1. Typed(v) /\ Querying(v) /\ Answered(v) /\ v.script = w.script
    BY <1>1, MovesAnswered DEF Moves
  <2>2. Typed(y) /\ Querying(y) /\ Answered(y) /\ Drained(y, "client") /\ y.script = v.script
    BY <2>1, EngineCloses
  <2> HIDE DEF y
  <2>3. Sound(x) /\ x.script = y.script
    BY <2>2, EngineCalled, EngineSound
  <2> HIDE DEF x
  <2>4. Sound(x) /\ x.script = w.script
    BY <2>1, <2>2, <2>3
  <2> QED
    BY <2>4 DEF x, y
<1>2. CASE ~Querying(w)
  <2>1. Typed(v) /\ ~Querying(v)
    BY <1>2, MovesTrack DEF Moves
  <2>2. Reads(v, y)
    BY <2>1, ServerAcked
  <2> HIDE DEF y
  <2>3. Typed(y) /\ ~Querying(y)
    BY <2>1, <2>2 DEF Reads, Serves, Same, Querying
  <2>4. Reads(y, x)
    BY <2>3, ServerCalled
  <2> HIDE DEF x
  <2>5. Reads(v, x)
    BY <2>1, <2>2, <2>4, ReadsAgain
  <2>6. Fits(x) /\ x.script = w.script
    BY <1>2, <2>5, ServerReads DEF Sound
  <2>7. Sound(x) /\ x.script = w.script
    BY <1>2, <2>6, FilesSound
  <2> QED
    BY <2>7 DEF x, y
<1> QED
  BY <1>1, <1>2

LEMMA DownSound ==
  ASSUME NEW w, Sound(w), NEW s \in Side, w.link.up[s], ~w.link.garbled
  PROVE  LET x == take_down(
               CASE s = "client" /\ Querying(w) -> db_client_fin(w)
                 [] s = "client" /\ ~Querying(w) -> fta_client_fin(w)
                 [] s = "server" /\ Querying(w) -> w
                 [] s = "server" /\ ~Querying(w) -> fta_server_fin(w), s)
         IN  Sound(x) /\ x.script = w.script
<1>1. CASE s = "client" /\ Querying(w)
  BY <1>1, QueryFin
<1>2. CASE s = "client" /\ ~Querying(w)
  <2>1. LET x == take_down(fta_client_fin(w), "client") IN Fits(x) /\ x.script = w.script
    BY <1>2, FinKeeps DEF Sound
  <2> QED
    BY <1>2, <2>1, FilesSound
<1>3. CASE s = "server" /\ Querying(w)
  <2>1. Typed(w) /\ Answered(w) /\ Drained(w, "client") /\ Drained(w, "server")
    BY DEF Sound, Fits
  <2> QED
    BY <1>3, <2>1, QueryDown
<1>4. CASE s = "server" /\ ~Querying(w)
  <2>1. LET x == take_down(fta_server_fin(w), "server") IN Fits(x) /\ x.script = w.script
    BY <1>4, ServerDown DEF Sound
  <2> QED
    BY <1>4, <2>1, FilesSound
<1> QED
  BY <1>1, <1>2, <1>3, <1>4, Sides

\* A client sees the globals of the server change when another one is served.
LEMMA ServerChanges ==
  ASSUME NEW w, Sound(w), NEW f \in Flags
  PROVE  Sound([w EXCEPT !.server = f])
<1> DEFINE x == [w EXCEPT !.server = f]
<1>1. Typed(w) /\ w \in World /\ w.client.commands \in Nat /\ w.client.commands <= Len(w.script)
      /\ CommandsFit(w)
  BY DEF Sound, Fits, Typed, World, Client
<1>2. /\ x \in World /\ x.link = w.link /\ x.script = w.script /\ x.client = w.client
  BY <1>1 DEF World
<1> HIDE DEF x
<1>3. Typed(x)
  <2>1. w.client.commands <= w.client.commands
    BY <1>1
  <2> QED
    BY <1>1, <1>2, <2>1, TypedRest DEF CommandsFit
<1>4. /\ Querying(x) <=> Querying(w)
      /\ Drained(x, "client") <=> Drained(w, "client")
      /\ Drained(x, "server") <=> Drained(w, "server")
      /\ Alike(w, x)
      /\ Awaiting(x) <=> Awaiting(w)
      /\ AsksFor(x) <=> AsksFor(w)
  BY <1>2, Zenon DEF Querying, Drained, Alike, Awaiting, AsksFor
<1>5. Rules(w) => Rules(x)
  BY <1>2, <1>4, AlikeTrack, Zenon DEF Rules
<1>6. FilesFit(w) => FilesFit(x)
  BY <1>2, <1>4, <1>5, AlikeTrack, Zenon DEF FilesFit
<1>7. Answered(x)
  BY <1>2, AnsweredSame DEF Sound
<1>8. Sound(x)
  BY <1>3, <1>4, <1>6, <1>7 DEF Sound, Fits
<1> QED
  BY <1>8 DEF x

-----------------------------------------------------------------------------
(* Plain scripts: what a client sends, and how far the server has read it *)

\* No command gets and posts at once, and no file is posted after one was got.
Plain(s) ==
  \A n \in 1..Len(s) :
    /\ s[n].name # "get-post"
    /\ \A m \in 1..n - 1 : Gets(s[m]) => ~Posts(s[n])

Uploads(c) == Posts(c) /\ c.post > 0

\* Of the script s, the n-th command is the last, q has been sent, and a segments
\* of it are acknowledged; waits says whether the last request still is not.

\* Segment p is a request, all before it were acknowledged when it was sent, and
\* its file follows.  After a request for a file, none is posted.
RequestAt(s, q, n, a, waits, p) ==
  LET u == q[p] IN
  /\ u.kind = "request" /\ u.k = 0 /\ p - 1 <= a /\ (Gets(s[u.n]) \/ Posts(s[u.n]))
  /\ Uploads(s[u.n]) =>
       IF p = Len(q) THEN waits /\ u.n = n ELSE q[p + 1] = Segment("post", u.n, 1)
  /\ Gets(s[u.n]) => \A r \in p..Len(q) : ~Posts(s[q[r].n])

\* Segment p is of a file, which is sent whole behind its request.
PostAt(s, q, a, p) ==
  LET u == q[p]
      o == p - u.k
      size == s[u.n].post
  IN  /\ u.kind = "post" /\ Uploads(s[u.n]) /\ u.k \in 1..size
      /\ o \in 1..a /\ q[o] = Segment("request", u.n, 0)
      /\ \A j \in 1..size : o + j <= Len(q) /\ q[o + j] = Segment("post", u.n, j)

Stream(s, q, n, a, waits) ==
  /\ \A p \in 1..Len(q) :
       q[p].n \in 1..n /\ (RequestAt(s, q, n, a, waits, p) \/ PostAt(s, q, a, p))
  /\ waits => q # <<>> /\ q[Len(q)] = Segment("request", n, 0)

\* The first b segments end with a request and the file it posts, which is stored.
Ends(s, q, b, posted_file) ==
  b > 0 =>
    LET u == q[b] IN
    IF u.kind = "request" THEN ~Uploads(s[u.n])
    ELSE u.k = s[u.n].post /\ posted_file = Message("post", u.n, u.k)

\* They end with a request to post, or within its file, which is stored so far.
Storing(s, q, b, h, posted_file) ==
  /\ b > 0 /\ Posts(s[h.n])
  /\ IF h.current_index = 0 THEN h.size = 0 /\ q[b] = Segment("request", h.n, 0)
     ELSE /\ q[b] = Segment("post", h.n, h.current_index) /\ h.size = s[h.n].post
          /\ posted_file = Message("post", h.n, h.current_index)

\* They end with a request for a file, and at most one more has been sent.
Sending(s, q, b) ==
  b > 0 /\ q[b].kind = "request" /\ Gets(s[q[b].n]) /\ Len(q) <= b + 1

Sent(s, q, n, a, waits) ==
  /\ s \in Seq(Command) /\ q \in Seq(Unit) /\ n \in 0..Len(s) /\ a \in 0..Len(q)
  /\ Stream(s, q, n, a, waits)

\* A segment is one or the other.
LEMMA SentIs ==
  ASSUME NEW s, NEW q, NEW n, NEW a, NEW waits, Sent(s, q, n, a, waits), NEW p \in 1..Len(q)
  PROVE  /\ q[p] \in Unit /\ q[p].n \in 1..n /\ q[p].n \in 1..Len(s) /\ s[q[p].n] \in Command
         /\ s[q[p].n].post \in Int
         /\ RequestAt(s, q, n, a, waits, p) \/ PostAt(s, q, a, p)
         /\ q[p].kind = "request" => RequestAt(s, q, n, a, waits, p)
         /\ q[p].kind # "request" => PostAt(s, q, a, p)
<1>1. /\ s \in Seq(Command) /\ q \in Seq(Unit) /\ n \in 0..Len(s)
      /\ q[p].n \in 1..n
      /\ RequestAt(s, q, n, a, waits, p) \/ PostAt(s, q, a, p)
  BY DEF Sent, Stream
<1>2. q[p] \in Unit /\ q[p].n \in 1..Len(s)
  BY <1>1
<1>3. s[q[p].n] \in Command
  BY <1>1, <1>2
<1>4. s[q[p].n].post \in Int
  BY <1>3 DEF Command
<1> QED
  BY <1>1, <1>2, <1>3, <1>4 DEF RequestAt, PostAt

LEMMA StepBack ==
  ASSUME NEW k \in Int, NEW size \in Int, NEW p \in Int, k \in 1..size, k # 1
  PROVE  k - 1 \in 1..size /\ p - k + (k - 1) = p - 1 /\ k - 1 # size
OBVIOUS

\* Behind the end of a request comes the next one.
LEMMA EndsNext ==
  ASSUME NEW s, NEW q, NEW n, NEW a, NEW waits, Sent(s, q, n, a, waits),
         NEW b \in Nat, b < Len(q), NEW f, Ends(s, q, b, f)
  PROVE  RequestAt(s, q, n, a, waits, b + 1)
<1> DEFINE u == q[b + 1]
           o == b + 1 - u.k
           v == q[b]
<1>1. Len(q) \in Nat /\ a \in Nat
  BY DEF Sent
<1>2. b + 1 \in 1..Len(q)
  BY <1>1
<1>3. SUFFICES ASSUME PostAt(s, q, a, b + 1) PROVE FALSE
  BY <1>2, SentIs
<1>4. /\ Uploads(s[u.n]) /\ u.k \in 1..s[u.n].post
      /\ o \in 1..a /\ q[o] = Segment("request", u.n, 0)
      /\ \A j \in 1..s[u.n].post : q[o + j] = Segment("post", u.n, j)
  BY <1>3 DEF PostAt
<1>5. s[u.n].post \in Int /\ u.k \in Nat
  BY <1>2, SentIs DEF Unit
<1>6. b > 0
  BY <1>1, <1>4, <1>5
<1>7. CASE u.k = 1
  <2>1. v.kind = "request" /\ v.n = u.n
    <3>1. o = b
      BY <1>7
    <3>2. v = Segment("request", u.n, 0)
      BY <1>4, <3>1
    <3> QED
      BY <3>2 DEF Segment
  <2> QED
    BY <1>4, <1>6, <2>1 DEF Ends
<1>8. CASE u.k # 1
  <2>1. u.k - 1 \in 1..s[u.n].post /\ o + (u.k - 1) = b /\ u.k - 1 # s[u.n].post
    <3>1. u.k \in Int /\ s[u.n].post \in Int /\ b + 1 \in Int
      BY <1>5
    <3>2. o + (u.k - 1) = b + 1 - 1
      BY <1>4, <1>8, <3>1, StepBack
    <3>3. u.k - 1 \in 1..s[u.n].post /\ u.k - 1 # s[u.n].post
      BY <1>4, <1>8, <3>1, StepBack
    <3> QED
      BY <3>2, <3>3
  <2>2. v = Segment("post", u.n, u.k - 1)
    BY <1>4, <2>1
  <2>3. v.kind = "post" /\ v.n = u.n /\ v.k = u.k - 1
    BY <2>2 DEF Segment
  <2> QED
    BY <1>6, <2>1, <2>3 DEF Ends
<1> QED
  BY <1>7, <1>8

\* And nothing else, unless the server's end has acknowledged it.
LEMMA EndsOne ==
  ASSUME NEW s, NEW q, NEW n, NEW a, NEW waits, Sent(s, q, n, a, waits),
         NEW b \in Nat, b < Len(q), NEW f, Ends(s, q, b, f), a <= b
  PROVE  Len(q) = b + 1 /\ q[b + 1].kind = "request" /\ q[b + 1].k = 0
<1>1. Len(q) \in Nat /\ a \in Nat
  BY DEF Sent
<1>2. RequestAt(s, q, n, a, waits, b + 1)
  BY EndsNext
<1>3. q[b + 1].kind = "request" /\ q[b + 1].k = 0
  BY <1>2 DEF RequestAt
<1>4. SUFFICES ASSUME b + 2 \in 1..Len(q) PROVE FALSE
  BY <1>1, <1>3
<1>5. CASE RequestAt(s, q, n, a, waits, b + 2)
  <2>1. b + 2 - 1 <= a
    BY <1>5 DEF RequestAt
  <2> QED
    BY <1>1, <2>1
<1>6. CASE PostAt(s, q, a, b + 2)
  <2> DEFINE u == q[b + 2]
             o == b + 2 - u.k
  <2>1. /\ u.k \in 1..s[u.n].post /\ o \in 1..a
        /\ \A j \in 1..s[u.n].post : q[o + j] = Segment("post", u.n, j)
    BY <1>6 DEF PostAt
  <2>2. s[u.n].post \in Int /\ u.k \in Nat
    BY <1>4, SentIs DEF Unit
  <2>3. u.k - 1 \in 1..s[u.n].post /\ o + (u.k - 1) = b + 1
    <3>1. u.k \in Int /\ s[u.n].post \in Int /\ b + 2 \in Int
      BY <2>2
    <3>2. u.k # 1
      BY <1>1, <2>1
    <3>3. u.k - 1 \in 1..s[u.n].post
      BY <2>1, <3>1, <3>2, StepBack
    <3>4. o + (u.k - 1) = b + 2 - 1
      BY <2>1, <3>1, <3>2, StepBack
    <3> QED
      BY <3>3, <3>4
  <2>4. q[b + 1] = Segment("post", u.n, u.k - 1)
    BY <2>1, <2>3
  <2> QED
    BY <1>3, <2>4 DEF Segment
<1> QED
  BY <1>4, <1>5, <1>6, SentIs

LEMMA RequestAcked ==
  ASSUME NEW s, NEW q, NEW n, NEW a, NEW waits, NEW p, RequestAt(s, q, n, a, waits, p)
  PROVE  p - 1 <= a
BY DEF RequestAt

\* Behind a part of a file comes the rest of it, and nothing else.
LEMMA StoringRest ==
  ASSUME NEW s, NEW q, NEW n, NEW a, NEW waits, Sent(s, q, n, a, waits),
         NEW b \in Nat, b < Len(q), NEW h \in RcvHandler, NEW f, Storing(s, q, b, h, f), a <= b,
         h.n \in 1..Len(s), h.current_index < s[h.n].post
  PROVE  /\ Len(q) = b + s[h.n].post - h.current_index
         /\ \A j \in 1..s[h.n].post - h.current_index :
              q[b + j] = Segment("post", h.n, h.current_index + j)
<1> DEFINE k == h.current_index
           size == s[h.n].post
           e == b + size - k
<1>1. Len(q) \in Nat /\ a \in Nat /\ k \in Nat /\ h.n \in Nat
  BY DEF Sent, RcvHandler
<1>2. size \in Int
  <2>1. s[h.n] \in Command
    BY DEF Sent
  <2> QED
    BY <2>1 DEF Command
<1>3. Uploads(s[h.n]) /\ b \in 1..Len(q) /\ b > 0
  BY <1>1, <1>2 DEF Uploads, Storing
<1>4. /\ \A j \in 1..size : b - k + j <= Len(q) /\ q[b - k + j] = Segment("post", h.n, j)
      /\ k <= b
  <2>1. CASE k = 0
    <3>1. q[b] = Segment("request", h.n, 0)
      BY <2>1 DEF Storing
    <3>2. q[b].kind = "request" /\ q[b].n = h.n
      BY <3>1 DEF Segment
    <3>3. RequestAt(s, q, n, a, waits, b)
      BY <1>3, <3>2, SentIs
    <3>4. q[b + 1] = Segment("post", h.n, 1) /\ b + 1 \in 1..Len(q)
      BY <1>1, <1>3, <3>2, <3>3 DEF RequestAt
    <3>5. q[b + 1].kind # "request" /\ q[b + 1].n = h.n /\ q[b + 1].k = 1
      BY <3>4 DEF Segment
    <3>6. PostAt(s, q, a, b + 1)
      BY <3>4, <3>5, SentIs
    <3>7. b + 1 - q[b + 1].k = b
      BY <3>5
    <3>8. \A j \in 1..size : b + j <= Len(q) /\ q[b + j] = Segment("post", h.n, j)
      <4>1. \A j \in 1..s[q[b + 1].n].post :
              b + 1 - q[b + 1].k + j <= Len(q)
              /\ q[b + 1 - q[b + 1].k + j] = Segment("post", q[b + 1].n, j)
        BY <3>6 DEF PostAt
      <4>2. ASSUME NEW j \in 1..size PROVE b + j <= Len(q) /\ q[b + j] = Segment("post", h.n, j)
        BY <3>5, <3>7, <4>1, Zenon
      <4> QED
        BY <4>2
    <3>9. b - k = b
      BY <2>1
    <3> QED
      BY <2>1, <3>8, <3>9
  <2>2. CASE k # 0
    <3>1. q[b] = Segment("post", h.n, k)
      BY <2>2 DEF Storing
    <3>2. q[b].kind # "request" /\ q[b].n = h.n /\ q[b].k = k
      BY <3>1 DEF Segment
    <3>3. PostAt(s, q, a, b)
      BY <1>3, <3>2, SentIs
    <3>4. b - k \in 1..a
      BY <3>2, <3>3, Zenon DEF PostAt
    <3> QED
      BY <1>1, <3>2, <3>3, <3>4 DEF PostAt
  <2> QED
    BY <2>1, <2>2
<1>5. ASSUME NEW j \in 1..size - k PROVE b + j <= Len(q) /\ q[b + j] = Segment("post", h.n, k + j)
  <2>1. k + j \in 1..size /\ b - k + (k + j) = b + j
    BY <1>1, <1>2
  <2>2. b - k + (k + j) <= Len(q) /\ q[b - k + (k + j)] = Segment("post", h.n, k + j)
    BY <1>4, <2>1
  <2> QED
    BY <2>1, <2>2
<1>6. e <= Len(q) /\ q[e] = Segment("post", h.n, size)
  <2>1. size - k \in 1..size - k /\ b + (size - k) = e /\ k + (size - k) = size
    BY <1>1, <1>2
  <2>2. b + (size - k) <= Len(q) /\ q[b + (size - k)] = Segment("post", h.n, k + (size - k))
    BY <1>5, <2>1
  <2> QED
    BY <2>1, <2>2
<1>7. e \in Nat /\ a <= e /\ a < e
  BY <1>1, <1>2
<1>8. ~(e < Len(q))
  <2> HIDE DEF e, size
  <2> SUFFICES ASSUME e < Len(q) PROVE FALSE
    OBVIOUS
  <2>1. q[e].kind = "post" /\ q[e].n = h.n /\ q[e].k = size
    BY <1>6 DEF Segment
  <2>2. Ends(s, q, e, Message("post", h.n, size))
    BY <2>1 DEF Ends, size
  <2>3. RequestAt(s, q, n, a, waits, e + 1)
    BY <1>7, <2>2, EndsNext
  <2>4. e + 1 - 1 <= a
    BY <1>1, <1>7, <2>3, RequestAcked
  <2> QED
    BY <1>1, <1>7, <2>4
<1> QED
  BY <1>1, <1>5, <1>6, <1>7, <1>8

\* Behind a request for a file comes another one.
LEMMA SendingNext ==
  ASSUME NEW s, NEW q, NEW n, NEW a, NEW waits, Sent(s, q, n, a, waits),
         NEW b \in Nat, b < Len(q), Sending(s, q, b)
  PROVE  Len(q) = b + 1 /\ q[b + 1].kind = "request" /\ q[b + 1].k = 0 /\ ~Posts(s[q[b + 1].n])
         /\ Gets(s[q[b + 1].n])
<1>1. Len(q) \in Nat
  BY DEF Sent
<1>2. Len(q) = b + 1 /\ b \in 1..Len(q) /\ b + 1 \in b..Len(q) /\ b + 1 \in 1..Len(q)
      /\ q[b].kind = "request" /\ Gets(s[q[b].n])
  BY <1>1 DEF Sending
<1>3. RequestAt(s, q, n, a, waits, b)
  BY <1>2, SentIs
<1>4. ~Posts(s[q[b + 1].n])
  BY <1>2, <1>3 DEF RequestAt
<1>5. ~PostAt(s, q, a, b + 1)
  BY <1>4 DEF PostAt, Uploads
<1>6. RequestAt(s, q, n, a, waits, b + 1)
  BY <1>2, <1>5, SentIs
<1> QED
  BY <1>2, <1>4, <1>6 DEF RequestAt

\* A file that the last request before an end posts is stored.
LEMMA EndsStored ==
  ASSUME NEW s, NEW q, NEW n, NEW a, NEW waits, Sent(s, q, n, a, waits),
         NEW b \in Nat, b <= Len(q), NEW f, Ends(s, q, b, f),
         NEW p \in 1..b, q[p].kind = "request", \A r \in p + 1..b : q[r].kind # "request",
         Uploads(s[q[p].n])
  PROVE  f = Message("post", q[p].n, s[q[p].n].post)
<1>1. Len(q) \in Nat /\ a \in Nat
  BY DEF Sent
<1>2. b \in 1..Len(q) /\ b > 0
  BY <1>1
<1>3. CASE q[b].kind = "request"
  <2>1. p = b
    BY <1>1, <1>2, <1>3
  <2> QED
    BY <1>2, <1>3, <2>1 DEF Ends
<1>4. CASE q[b].kind # "request"
  <2> DEFINE u == q[b]
             o == b - u.k
  <2>1. PostAt(s, q, a, b)
    BY <1>2, <1>4, SentIs
  <2>2. /\ u.k \in 1..s[u.n].post /\ o \in 1..a /\ q[o] = Segment("request", u.n, 0)
        /\ \A j \in 1..s[u.n].post : q[o + j] = Segment("post", u.n, j)
    BY <2>1 DEF PostAt
  <2>3. u.k \in Nat /\ s[u.n].post \in Int
    BY <1>2, SentIs DEF Unit
  <2>4. q[o].kind = "request" /\ q[o].n = u.n
    BY <2>2 DEF Segment
  <2>5. o \in Int /\ o <= b
    BY <2>2, <2>3
  <2>6. ~(p < o)
    <3>1. p < o => o \in p + 1..b
      BY <2>5
    <3> QED
      BY <2>4, <3>1
  <2>7. ~(o < p)
    <3>1. o < p => p - o \in 1..s[u.n].post /\ o + (p - o) = p
      <4>1. u.k \in 1..s[u.n].post /\ p \in Int /\ b \in Int /\ p <= b
        BY <2>2
      <4> HIDE DEF u
      <4> QED
        BY <2>3, <4>1
    <3>2. o < p => q[p] = Segment("post", u.n, p - o)
      BY <2>2, <3>1
    <3> QED
      BY <3>2 DEF Segment
  <2>8. p = o
    BY <2>5, <2>6, <2>7
  <2>9. q[p].n = u.n
    BY <2>4, <2>8
  <2> HIDE DEF o
  <2>10. u.k = s[u.n].post /\ f = Message("post", u.n, u.k)
    BY <1>2, <1>4 DEF Ends
  <2> QED
    BY <2>9, <2>10
<1> QED
  BY <1>3, <1>4

-----------------------------------------------------------------------------
(* What is sent keeps its form *)

LEMMA PostKept ==
  ASSUME NEW s, NEW q \in Seq(Unit), NEW a \in Nat, NEW p \in 1..Len(q), PostAt(s, q, a, p),
         NEW q1 \in Seq(Unit), Len(q) <= Len(q1), \A r \in 1..Len(q) : q1[r] = q[r],
         a <= Len(q), NEW a1 \in Nat, a <= a1, s[q[p].n].post \in Int
  PROVE  PostAt(s, q1, a1, p)
<1> DEFINE u == q[p]
           o == p - u.k
           size == s[u.n].post
<1>1. q1[p] = u
  OBVIOUS
<1>2. /\ u.kind = "post" /\ Uploads(s[u.n]) /\ u.k \in 1..size
      /\ o \in 1..a /\ q[o] = Segment("request", u.n, 0)
      /\ \A j \in 1..size : o + j <= Len(q) /\ q[o + j] = Segment("post", u.n, j)
  BY DEF PostAt
<1>3. Len(q) \in Nat /\ Len(q1) \in Nat /\ o \in Int
  BY <1>2
<1> HIDE DEF o, size, u
<1>4. o \in 1..a1 /\ o \in 1..Len(q)
  BY <1>2, <1>3
<1>5. ASSUME NEW j \in 1..size
      PROVE  o + j <= Len(q1) /\ q1[o + j] = Segment("post", u.n, j)
  <2>1. o + j <= Len(q) /\ q[o + j] = Segment("post", u.n, j)
    BY <1>2
  <2>2. o + j \in 1..Len(q) /\ o + j <= Len(q1)
    BY <1>3, <1>4, <2>1 DEF size, u
  <2> QED
    BY <2>1, <2>2
<1> QED
  BY <1>1, <1>2, <1>4, <1>5 DEF PostAt, o, size, u

LEMMA AckedStream ==
  ASSUME NEW s, NEW q, NEW n, NEW a, NEW waits, Sent(s, q, n, a, waits),
         NEW a1 \in Nat, a <= a1, a1 <= Len(q)
  PROVE  Sent(s, q, n, a1, waits)
<1>1. s \in Seq(Command) /\ q \in Seq(Unit) /\ n \in 0..Len(s) /\ a \in Nat /\ a <= Len(q)
      /\ Len(q) \in Nat
  BY DEF Sent
<1>2. ASSUME NEW p \in 1..Len(q)
      PROVE  RequestAt(s, q, n, a1, waits, p) \/ PostAt(s, q, a1, p)
  <2>1. CASE RequestAt(s, q, n, a, waits, p)
    <3>1. p - 1 <= a1
      <4>1. p - 1 <= a
        BY <2>1, RequestAcked
      <4> QED
        BY <1>1, <4>1
    <3> QED
      BY <2>1, <3>1 DEF RequestAt
  <2>2. CASE PostAt(s, q, a, p)
    BY <1>1, <2>2, PostKept, SentIs
  <2> QED
    BY <2>1, <2>2, SentIs
<1> QED
  BY <1>1, <1>2 DEF Sent, Stream

LEMMA PlainIs ==
  ASSUME NEW s, Plain(s), NEW n \in 1..Len(s), Len(s) \in Nat
  PROVE  \A m \in 1..n : Gets(s[m]) => ~Posts(s[n])
<1>1. s[n].name # "get-post" /\ \A m \in 1..n - 1 : Gets(s[m]) => ~Posts(s[n])
  BY DEF Plain
<1>2. Gets(s[n]) => ~Posts(s[n])
  BY <1>1 DEF Gets, Posts
<1>3. \A m \in 1..n : m \in 1..n - 1 \/ m = n
  OBVIOUS
<1> QED
  BY <1>1, <1>2, <1>3

LEMMA NextCommand ==
  ASSUME NEW s, NEW q, NEW n, NEW a, Sent(s, q, n, a, FALSE), n < Len(s)
  PROVE  Sent(s, q, n + 1, a, FALSE)
<1>1. /\ s \in Seq(Command) /\ q \in Seq(Unit) /\ n \in Nat /\ a \in 0..Len(q)
      /\ n + 1 \in 0..Len(s)
  BY DEF Sent
<1>2. ASSUME NEW p \in 1..Len(q)
      PROVE  q[p].n \in 1..n + 1
             /\ (RequestAt(s, q, n + 1, a, FALSE, p) \/ PostAt(s, q, a, p))
  <2>1. q[p].n \in 1..n
    BY SentIs
  <2>2. RequestAt(s, q, n, a, FALSE, p) => RequestAt(s, q, n + 1, a, FALSE, p)
    BY DEF RequestAt
  <2>3. q[p].n \in 1..n + 1
    BY <1>1, <2>1
  <2> QED
    BY <2>2, <2>3, SentIs
<1> QED
  BY <1>1, <1>2 DEF Sent, Stream

LEMMA NothingToPost ==
  ASSUME NEW s, NEW q, NEW n, NEW a, Sent(s, q, n, a, TRUE), ~Uploads(s[n])
  PROVE  Sent(s, q, n, a, FALSE)
<1>1. s \in Seq(Command) /\ q \in Seq(Unit) /\ n \in 0..Len(s) /\ a \in 0..Len(q)
  BY DEF Sent
<1>2. ASSUME NEW p \in 1..Len(q)
      PROVE  q[p].n \in 1..n /\ (RequestAt(s, q, n, a, FALSE, p) \/ PostAt(s, q, a, p))
  <2>1. RequestAt(s, q, n, a, TRUE, p) => RequestAt(s, q, n, a, FALSE, p)
    BY DEF RequestAt
  <2> QED
    BY <2>1, SentIs
<1> QED
  BY <1>1, <1>2 DEF Sent, Stream

LEMMA RequestSent ==
  ASSUME NEW s, NEW q, NEW n, NEW a, Sent(s, q, n, a, FALSE), a = Len(q), n < Len(s), Plain(s),
         Gets(s[n + 1]) \/ Posts(s[n + 1])
  PROVE  Sent(s, q \o <<Segment("request", n + 1, 0)>>, n + 1, a, TRUE)
<1> DEFINE u == Segment("request", n + 1, 0)
           q1 == q \o <<u>>
<1>1. /\ s \in Seq(Command) /\ q \in Seq(Unit) /\ n \in Nat /\ a \in Nat /\ a = Len(q)
      /\ n + 1 \in 1..Len(s) /\ Len(q) \in Nat
  BY DEF Sent
<1>2. u \in Unit /\ u.kind = "request" /\ u.n = n + 1 /\ u.k = 0
  BY <1>1 DEF Segment, Unit, Kinds
<1> HIDE DEF u
<1>3. /\ q1 \in Seq(Unit) /\ Len(q1) = a + 1 /\ q1[a + 1] = u
      /\ \A r \in 1..a : q1[r] = q[r]
  BY <1>1, <1>2
<1> HIDE DEF q1
<1>4. \A m \in 1..n + 1 : Gets(s[m]) => ~Posts(s[n + 1])
  BY <1>1, PlainIs
<1>5. ASSUME NEW p \in 1..a
      PROVE  q1[p].n \in 1..n + 1
             /\ (RequestAt(s, q1, n + 1, a, TRUE, p) \/ PostAt(s, q1, a, p))
  <2>1. p \in 1..Len(q) /\ q1[p] = q[p] /\ q[p].n \in 1..n /\ s[q[p].n].post \in Int
    BY <1>1, <1>3, SentIs
  <2>2. CASE PostAt(s, q, a, p)
    <3>1. Len(q) <= Len(q1) /\ a <= a /\ a <= Len(q)
      BY <1>1, <1>3
    <3>2. PostAt(s, q1, a, p)
      BY <1>1, <1>3, <2>1, <2>2, <3>1, PostKept
    <3> QED
      BY <1>1, <2>1, <3>2
  <2>3. CASE RequestAt(s, q, n, a, FALSE, p)
    <3>1. /\ q[p].kind = "request" /\ q[p].k = 0 /\ p - 1 <= a
          /\ Gets(s[q[p].n]) \/ Posts(s[q[p].n])
          /\ Uploads(s[q[p].n]) => p # a /\ q[p + 1] = Segment("post", q[p].n, 1)
          /\ Gets(s[q[p].n]) => \A r \in p..a : ~Posts(s[q[r].n])
      BY <1>1, <2>3 DEF RequestAt
    <3>2. Uploads(s[q[p].n]) => p # Len(q1) /\ q1[p + 1] = Segment("post", q[p].n, 1)
      <4>1. p # a => p + 1 \in 1..a
        BY <1>1
      <4>2. p # Len(q1)
        BY <1>1, <1>3
      <4> QED
        BY <1>3, <3>1, <4>1, <4>2
    <3>3. Gets(s[q[p].n]) => \A r \in p..Len(q1) : ~Posts(s[q1[r].n])
      <4> SUFFICES ASSUME Gets(s[q[p].n]), NEW r \in p..Len(q1) PROVE ~Posts(s[q1[r].n])
        OBVIOUS
      <4>1. (r \in 1..a /\ r \in p..a) \/ r = a + 1
        BY <1>1, <1>3
      <4>2. CASE r \in 1..a /\ r \in p..a
        BY <1>3, <3>1, <4>2
      <4>3. CASE r = a + 1
        <5>1. q[p].n \in 1..n + 1
          BY <1>1, <2>1
        <5> QED
          BY <1>2, <1>3, <1>4, <4>3, <5>1
      <4> QED
        BY <4>1, <4>2, <4>3
    <3>4. RequestAt(s, q1, n + 1, a, TRUE, p)
      BY <2>1, <3>1, <3>2, <3>3, Zenon DEF RequestAt
    <3>5. q1[p].n \in 1..n + 1
      BY <1>1, <2>1
    <3> QED
      BY <3>4, <3>5
  <2> QED
    BY <2>1, <2>2, <2>3, SentIs
<1>6. q1[a + 1].n \in 1..n + 1 /\ RequestAt(s, q1, n + 1, a, TRUE, a + 1)
  <2>1. a + 1 - 1 <= a /\ a + 1 = Len(q1) /\ n + 1 \in 1..n + 1
    BY <1>1, <1>3
  <2>2. \A r \in a + 1..Len(q1) : r = a + 1
    BY <1>1, <1>3
  <2>3. Gets(s[n + 1]) => \A r \in a + 1..Len(q1) : ~Posts(s[q1[r].n])
    BY <1>2, <1>3, <1>4, <2>1, <2>2
  <2>4. RequestAt(s, q1, n + 1, a, TRUE, a + 1)
    BY <1>2, <1>3, <2>1, <2>3 DEF RequestAt
  <2> QED
    BY <1>2, <1>3, <2>1, <2>4
<1>7. ASSUME NEW p \in 1..Len(q1)
      PROVE  q1[p].n \in 1..n + 1
             /\ (RequestAt(s, q1, n + 1, a, TRUE, p) \/ PostAt(s, q1, a, p))
  <2>1. p \in 1..a \/ p = a + 1
    BY <1>1, <1>3
  <2> QED
    BY <1>5, <1>6, <2>1
<1>8. q1 # <<>> /\ q1[Len(q1)] = Segment("request", n + 1, 0)
  <2>1. Len(q1) # 0
    BY <1>1, <1>3
  <2>2. q1 # <<>>
    BY <2>1
  <2> QED
    BY <1>3, <2>2 DEF u
<1>9. n + 1 \in 0..Len(s) /\ a \in 0..Len(q1)
  BY <1>1, <1>3
<1>10. Sent(s, q1, n + 1, a, TRUE)
  BY <1>1, <1>3, <1>7, <1>8, <1>9, Zenon DEF Sent, Stream
<1> QED
  BY <1>10 DEF q1, u

LEMMA PostSent ==
  ASSUME NEW s, NEW q, NEW n, NEW a, Sent(s, q, n, a, TRUE), a = Len(q), Uploads(s[n])
  PROVE  Sent(s, q \o Message("post", n, s[n].post), n, a, FALSE)
<1> DEFINE size == s[n].post
           m == Message("post", n, size)
           q1 == q \o m
<1>1. /\ s \in Seq(Command) /\ q \in Seq(Unit) /\ n \in Nat /\ n <= Len(s) /\ a \in Nat /\ a = Len(q)
      /\ Len(q) \in Nat /\ q # <<>> /\ q[a] = Segment("request", n, 0)
  BY DEF Sent, Stream
<1>2. a \in 1..Len(q) /\ n \in 1..Len(s) /\ q[a].kind = "request" /\ q[a].n = n
  <2>1. a > 0
    BY <1>1, EmptySeq
  <2>2. a \in 1..Len(q)
    BY <1>1, <2>1
  <2>3. q[a].kind = "request" /\ q[a].n = n
    BY <1>1 DEF Segment
  <2> QED
    BY <2>2, <2>3, SentIs
<1>3. size \in Int /\ size > 0
  <2>1. s[n] \in Command
    BY <1>1, <1>2
  <2> QED
    BY <2>1 DEF Command, Uploads
<1>4. m \in Seq(Unit) /\ Len(m) = size /\ \A k \in 1..size : m[k] = Segment("post", n, k)
  <2>1. "post" \in Kinds
    BY DEF Kinds
  <2> QED
    BY <1>1, <1>3, <2>1, MessageIs DEF Segment
<1> HIDE DEF m, size
<1>5. /\ q1 \in Seq(Unit) /\ Len(q1) = a + size
      /\ \A r \in 1..a : q1[r] = q[r]
      /\ \A k \in 1..size : q1[a + k] = Segment("post", n, k)
  <2>1. \A k \in 1..size : a + k \in a + 1..a + size /\ a + k - a = k
    BY <1>1, <1>3
  <2> QED
    BY <1>1, <1>3, <1>4, <2>1
<1> HIDE DEF q1
<1>6. Posts(s[n]) /\ Uploads(s[n])
  BY DEF Uploads
<1>7. ASSUME NEW p \in 1..a
      PROVE  q1[p].n \in 1..n
             /\ (RequestAt(s, q1, n, a, FALSE, p) \/ PostAt(s, q1, a, p))
  <2>1. p \in 1..Len(q) /\ q1[p] = q[p] /\ q[p].n \in 1..n /\ s[q[p].n].post \in Int
    BY <1>1, <1>5, SentIs
  <2>2. CASE PostAt(s, q, a, p)
    <3>1. Len(q) <= Len(q1) /\ a <= a /\ a <= Len(q)
      BY <1>1, <1>3, <1>5
    <3>2. PostAt(s, q1, a, p)
      BY <1>1, <1>5, <2>1, <2>2, <3>1, PostKept
    <3> QED
      BY <2>1, <3>2
  <2>3. CASE RequestAt(s, q, n, a, TRUE, p)
    <3>1. /\ q[p].kind = "request" /\ q[p].k = 0 /\ p - 1 <= a
          /\ Gets(s[q[p].n]) \/ Posts(s[q[p].n])
          /\ Uploads(s[q[p].n]) => p = a \/ q[p + 1] = Segment("post", q[p].n, 1)
          /\ Gets(s[q[p].n]) => \A r \in p..a : ~Posts(s[q[r].n])
      BY <1>1, <2>3 DEF RequestAt
    <3>2. ~Gets(s[q[p].n])
      <4>1. a \in p..a
        BY <1>1
      <4> QED
        BY <1>2, <1>6, <3>1, <4>1
    <3>3. Uploads(s[q[p].n]) => q1[p + 1] = Segment("post", q[p].n, 1)
      <4>1. CASE p = a
        <5>1. q1[a + 1] = Segment("post", n, 1)
          BY <1>3, <1>5
        <5> QED
          BY <1>2, <4>1, <5>1
      <4>2. CASE p # a
        <5>1. p + 1 \in 1..a
          BY <1>1, <4>2
        <5> QED
          BY <1>5, <3>1, <4>2, <5>1
      <4> QED
        BY <4>1, <4>2
    <3>4. p # Len(q1)
      BY <1>1, <1>3, <1>5
    <3>5. RequestAt(s, q1, n, a, FALSE, p)
      BY <2>1, <3>1, <3>2, <3>3, <3>4, Zenon DEF RequestAt
    <3> QED
      BY <2>1, <3>5
  <2> QED
    BY <2>1, <2>2, <2>3, SentIs
<1>8. ASSUME NEW k \in 1..size
      PROVE  q1[a + k].n \in 1..n /\ PostAt(s, q1, a, a + k)
  <2>1. q1[a + k].kind = "post" /\ q1[a + k].n = n /\ q1[a + k].k = k
    <3>1. q1[a + k] = Segment("post", n, k)
      BY <1>5
    <3> QED
      BY <3>1 DEF Segment
  <2>2. a + k - k = a /\ a \in 1..a /\ n \in 1..n
    BY <1>1, <1>2
  <2>3. q1[a] = Segment("request", n, 0)
    BY <1>1, <1>2, <1>5
  <2>4. \A j \in 1..size : a + j <= Len(q1) /\ q1[a + j] = Segment("post", n, j)
    BY <1>1, <1>3, <1>5
  <2>5. PostAt(s, q1, a, a + k)
    BY <1>6, <2>1, <2>2, <2>3, <2>4 DEF PostAt, size
  <2> QED
    BY <2>1, <2>2, <2>5
<1>9. ASSUME NEW p \in 1..Len(q1)
      PROVE  q1[p].n \in 1..n
             /\ (RequestAt(s, q1, n, a, FALSE, p) \/ PostAt(s, q1, a, p))
  <2>1. p \in 1..a \/ (p - a \in 1..size /\ a + (p - a) = p)
    BY <1>1, <1>3, <1>5
  <2>2. CASE p \in 1..a
    BY <1>7, <2>2
  <2>3. CASE p - a \in 1..size /\ a + (p - a) = p
    <3>1. q1[a + (p - a)].n \in 1..n /\ PostAt(s, q1, a, a + (p - a))
      BY <1>8, <2>3
    <3> QED
      BY <2>3, <3>1
  <2> QED
    BY <2>1, <2>2, <2>3
<1>10. n \in 0..Len(s) /\ a \in 0..Len(q1)
  BY <1>1, <1>3, <1>5
<1>11. Sent(s, q1, n, a, FALSE)
  BY <1>1, <1>5, <1>9, <1>10, Zenon DEF Sent, Stream
<1> QED
  BY <1>11 DEF q1, m, size

LEMMA NothingSent ==
  ASSUME NEW s \in Seq(Command)
  PROVE  Sent(s, <<>>, 0, 0, FALSE)
<1>1. Len(<<>>) = 0 /\ <<>> \in Seq(Unit) /\ 0 \in 0..Len(s)
  OBVIOUS
<1> QED
  BY <1>1 DEF Sent, Stream

-----------------------------------------------------------------------------
(* A file transfer with a plain script, from end to end *)

StreamFits(w) ==
  LET sent(waits) ==
        Sent(w.script, w.link.sent["client"], w.client.commands, w.link.acked["client"], waits)
  IN  (Awaiting(w) => sent(TRUE)) /\ (~Awaiting(w) => sent(FALSE))

\* The server waits for a request, is in a post, or sends a file.
ServerFits(w) ==
  LET s == w.script
      q == w.link.sent["client"]
      b == w.link.handed["server"]
      h == w.link.rcv_handler["server"]
  IN  /\ w.link.valid_rcv_handler["server"] =>
           /\ ~w.link.valid_send_handler["server"]
           /\ w.link.acked["server"] = Len(w.link.sent["server"])
           /\ IF h.name = "rcv_respond" THEN Ends(s, q, b, w.posted)
                                        ELSE Storing(s, q, b, h, w.posted)
      /\ w.link.valid_send_handler["server"] => Sending(s, q, b)

\* The client waits for one thing at a time, and a send that is not acknowledged
\* has its handler.
ClientFits(w) ==
  LET l == w.link
      n == w.client.commands
      sends == l.valid_send_handler["client"]
  IN  /\ l.valid_rcv_handler["client"] => ~sends
      /\ AsksFor(w) => ~sends /\ w.client.prompt = "ask"
      /\ l.up["client"] => /\ sends <=> l.acked["client"] < Len(l.sent["client"])
                           /\ l.send_handler["client"] = "handle_req" /\ n > 0 /\ Posts(w.script[n])
                                => sends

PostFits(w) == \E n \in 0..Len(w.script) : w.posted = Message("post", n, Len(w.posted))

\* Segment p is the last request that the server's program has been given.
LastAt(w, p) ==
  /\ p \in 1..w.link.handed["server"] /\ w.link.sent["client"][p].kind = "request"
  /\ \A q \in p + 1..w.link.handed["server"] : w.link.sent["client"][q].kind # "request"

IdleFits(w) ==
  w.link.valid_rcv_handler["server"] /\ w.link.rcv_handler["server"].name = "rcv_respond" =>
    /\ ~w.link.valid_send_handler["server"]
    /\ \A p \in 1..w.link.handed["server"] :
         LET n == w.link.sent["client"][p].n
             c == w.script[n]
         IN  LastAt(w, p) /\ Uploads(c) => w.posted = Message("post", n, c.post)

Flowing(w) == StreamFits(w) /\ ServerFits(w) /\ ClientFits(w) /\ ~w.link.garbled
Neat(w) ==
  /\ PostFits(w) /\ IdleFits(w)
  /\ w.link.up["client"] => ~w.link.garbled
  /\ ~w.link.garbled => Flowing(w)

\* A file transfer, and a plain one.
Transfers(w) == Typed(w) /\ ~Querying(w) /\ Plain(w.script)

LEMMA SameScript ==
  ASSUME NEW w, NEW x, x.script = w.script
  PROVE  (Querying(x) <=> Querying(w)) /\ (Plain(x.script) <=> Plain(w.script))
BY DEF Querying

\* What the client sends and the server's program has been given.
LEMMA StreamIs ==
  ASSUME NEW w, Typed(w)
  PROVE  LET q == w.link.sent["client"]
             b == w.link.handed["server"]
         IN  /\ w.script \in Seq(Command) /\ Len(w.script) \in Nat
             /\ q \in Seq(Unit) /\ Len(q) \in Nat /\ b \in Nat
             /\ w.link.taken["server"] \in Nat /\ w.link.acked["client"] \in Nat
             /\ b <= w.link.taken["server"] /\ w.link.taken["server"] <= Len(q)
             /\ w.link.acked["client"] <= w.link.taken["server"]
             /\ w.posted \in Seq(Unit) /\ w.client.commands \in Nat
             /\ w.client.commands <= Len(w.script)
             /\ w.link.acked["server"] \in Nat /\ w.link.sent["server"] \in Seq(Unit)
             /\ Len(w.link.sent["server"]) \in Nat
             /\ w.link.acked["server"] <= Len(w.link.sent["server"])
<1>1. w \in World /\ CountsFit(w) /\ w.client.commands <= Len(w.script)
  BY DEF Typed
<1>2. /\ w.link \in LinkType /\ w.script \in Seq(Command) /\ w.posted \in Seq(Unit)
      /\ w.client \in Client
  BY <1>1 DEF World
<1>3. /\ w.link.sent["client"] \in Seq(Unit) /\ w.link.sent["server"] \in Seq(Unit)
      /\ w.link.handed["server"] \in Nat /\ w.link.taken["server"] \in Nat
      /\ w.link.taken["client"] \in Nat
      /\ w.link.acked["client"] \in Nat /\ w.link.acked["server"] \in Nat
      /\ w.client.commands \in Nat
  BY <1>2, Sides DEF LinkType, Client
<1>4. /\ w.link.handed["server"] <= w.link.taken["server"]
      /\ w.link.taken["server"] <= Len(w.link.sent["client"])
      /\ w.link.acked["client"] <= w.link.taken["server"]
      /\ w.link.acked["server"] <= w.link.taken["client"]
      /\ w.link.taken["client"] <= Len(w.link.sent["server"])
  BY <1>1, Sides DEF CountsFit
<1>5. Len(w.script) \in Nat /\ Len(w.link.sent["client"]) \in Nat /\ Len(w.link.sent["server"]) \in Nat
  BY <1>2, <1>3, LenProperties
<1>6. w.link.acked["server"] <= Len(w.link.sent["server"])
  BY <1>3, <1>4, <1>5
<1> QED
  BY <1>1, <1>2, <1>3, <1>4, <1>5, <1>6

\* Whether the client waits or not, what it has sent has its form.
LEMMA StreamFitsIs ==
  ASSUME NEW w, StreamFits(w)
  PROVE  \E waits : Sent(w.script, w.link.sent["client"], w.client.commands,
                         w.link.acked["client"], waits)
BY DEF StreamFits

\* A server that waits for a request has stored what the last one posts.
LEMMA FlowingIdle ==
  ASSUME NEW w, Typed(w), StreamFits(w), ServerFits(w)
  PROVE  IdleFits(w)
<1> SUFFICES ASSUME w.link.valid_rcv_handler["server"],
                    w.link.rcv_handler["server"].name = "rcv_respond",
                    NEW p \in 1..w.link.handed["server"],
                    LastAt(w, p), Uploads(w.script[w.link.sent["client"][p].n])
             PROVE  w.posted = Message("post", w.link.sent["client"][p].n,
                                       w.script[w.link.sent["client"][p].n].post)
  BY DEF IdleFits, ServerFits
<1> DEFINE s == w.script
           q == w.link.sent["client"]
           b == w.link.handed["server"]
<1>1. Ends(s, q, b, w.posted)
  BY DEF ServerFits
<1>2. b \in Nat /\ b <= Len(q)
  BY StreamIs
<1>3. q[p].kind = "request" /\ \A r \in p + 1..b : q[r].kind # "request"
  BY DEF LastAt
<1>4. PICK waits : Sent(s, q, w.client.commands, w.link.acked["client"], waits)
  BY StreamFitsIs
<1> HIDE DEF s, q, b
<1>5. Uploads(s[q[p].n]) /\ p \in 1..b
  BY DEF s, q, b
<1>6. w.posted = Message("post", q[p].n, s[q[p].n].post)
  BY <1>1, <1>2, <1>3, <1>4, <1>5, EndsStored
<1> QED
  BY <1>6 DEF s, q

-----------------------------------------------------------------------------
(* The server's end of a plain file transfer *)

\* A handler of the server changes nothing that the client's end depends on.
LEMMA ServesStream ==
  ASSUME NEW w, NEW x, Serves(w, x)
  PROVE  /\ StreamFits(w) => StreamFits(x)
         /\ ClientFits(w) => ClientFits(x)
         /\ Transfers(w) => Transfers(x)
<1>1. /\ x.script = w.script /\ x.client = w.client /\ x.link.up = w.link.up
      /\ x.link.acked = w.link.acked
      /\ x.link.sent["client"] = w.link.sent["client"]
      /\ x.link.valid_rcv_handler["client"] = w.link.valid_rcv_handler["client"]
      /\ x.link.send_handler["client"] = w.link.send_handler["client"]
      /\ x.link.valid_send_handler["client"] = w.link.valid_send_handler["client"]
  BY DEF Serves, Same
<1>2. (Awaiting(x) <=> Awaiting(w)) /\ (AsksFor(x) <=> AsksFor(w))
  BY <1>1 DEF Awaiting, AsksFor
<1>3. ASSUME StreamFits(w) PROVE StreamFits(x)
  BY <1>1, <1>2, <1>3, Zenon DEF StreamFits
<1>4. ASSUME ClientFits(w) PROVE ClientFits(x)
  BY <1>1, <1>2, <1>4 DEF ClientFits
<1>5. ASSUME Transfers(w) PROVE Transfers(x)
  BY <1>1, <1>5 DEF Transfers, Serves, Querying
<1> QED
  BY <1>3, <1>4, <1>5

\* What a handler of the server leaves.
Serving(x) == ServerFits(x) /\ PostFits(x) /\ ~x.link.garbled

\* What it finds when it has been handed what there was: nothing is due.
Ready(w) ==
  /\ Transfers(w) /\ StreamFits(w) /\ PostFits(w) /\ ~w.link.garbled
  /\ ~w.link.valid_rcv_handler["server"] /\ ~w.link.valid_send_handler["server"]
  /\ w.link.acked["server"] = Len(w.link.sent["server"])

LEMMA ReadyRest ==
  ASSUME NEW w, Ready(w), NEW x \in World,
         x.link = w.link, x.script = w.script, x.client = w.client, x.posted = w.posted
  PROVE  Ready(x)
<1>1. Serves(w, x)
  BY ListensRest DEF Listens, Ready, Transfers
<1> QED
  BY <1>1, ServesStream DEF Ready, PostFits

\* A handler is registered: for a request, or for a file.
LEMMA RegisterNeat ==
  ASSUME NEW w, Ready(w), NEW h, HandlerFits(w, "server", h),
         LET s == w.script
             q == w.link.sent["client"]
             b == w.link.handed["server"]
         IN  IF h.name = "rcv_respond" THEN Ends(s, q, b, w.posted) ELSE Storing(s, q, b, h, w.posted)
  PROVE  Serving(register(w, "server", h))
<1> DEFINE x == register(w, "server", h)
<1>1. Typed(w) /\ w.link.rcv_handler \in [Side -> RcvHandler]
      /\ w.link.valid_rcv_handler \in [Side -> BOOLEAN]
  BY DEF Ready, Transfers, Typed, World, LinkType
<1>2. Registers(w, "server", h, x)
  BY <1>1, TypedRegister, Sides
<1> HIDE DEF x
<1>3. /\ x.script = w.script /\ x.posted = w.posted /\ x.link.handed = w.link.handed
      /\ x.link.sent = w.link.sent /\ x.link.garbled = w.link.garbled
      /\ x.link.acked = w.link.acked
      /\ x.link.valid_send_handler = w.link.valid_send_handler
      /\ x.link.rcv_handler["server"] = h
  BY <1>1, <1>2, Sides DEF Registers, Same
<1>4. ServerFits(x)
  BY <1>3 DEF ServerFits, Ready
<1>5. PostFits(x) /\ ~x.link.garbled
  BY <1>3 DEF PostFits, Ready
<1> QED
  BY <1>4, <1>5 DEF Serving, x

LEMMA FtaNeat ==
  ASSUME NEW w, Ready(w), Ends(w.script, w.link.sent["client"], w.link.handed["server"], w.posted)
  PROVE  Serving(fta_rcv_handler(w))
<1> DEFINE h == Handler("rcv_respond", 0, 0, 0)
<1>1. h \in RcvHandler /\ h.name = "rcv_respond"
  BY DEF Handler, RcvHandler, RcvNames
<1> HIDE DEF h
<1>2. HandlerFits(w, "server", h)
  BY <1>1 DEF HandlerFits, Ready, Transfers
<1>3. Serving(register(w, "server", h))
  BY <1>1, <1>2, RegisterNeat
<1> QED
  BY <1>3 DEF fta_rcv_handler, h

\* Nothing is due.
LEMMA ReadyServes ==
  ASSUME NEW w, Ready(w)
  PROVE  Serving(w)
BY DEF Ready, Serving, ServerFits

LEMMA FinalSendNeat ==
  ASSUME NEW w, Ready(w), Ends(w.script, w.link.sent["client"], w.link.handed["server"], w.posted),
         NEW is_get, NEW killed
  PROVE  LET x == final_send(w, is_get, killed) IN
         /\ Serving(x) /\ x.posted = w.posted
         /\ x.link.valid_rcv_handler["server"] => x.link.rcv_handler["server"].name = "rcv_respond"
<1> DEFINE x == IF is_get THEN [w EXCEPT !.server.not_sending = TRUE]
                          ELSE [w EXCEPT !.server.not_receiving = TRUE]
           h == Handler("rcv_respond", 0, 0, 0)
<1>1. /\ x \in World /\ x.link = w.link /\ x.script = w.script /\ x.client = w.client
      /\ x.posted = w.posted
  BY DEF Ready, Transfers, Typed, World, Flags
<1>2. final_send(w, is_get, killed) \in {x, fta_rcv_handler(x)}
  BY Zenon DEF final_send, x
<1> HIDE DEF x
<1>3. Ready(x) /\ Ends(x.script, x.link.sent["client"], x.link.handed["server"], x.posted)
  BY <1>1, ReadyRest, Zenon
<1>4. Serving(x) /\ Serving(fta_rcv_handler(x))
  BY <1>3, FtaNeat, ReadyServes
<1>5. fta_rcv_handler(x).posted = w.posted
      /\ fta_rcv_handler(x).link.rcv_handler["server"].name = "rcv_respond"
  <2>1. h \in RcvHandler /\ h.name = "rcv_respond"
    BY DEF Handler, RcvHandler, RcvNames
  <2>2. "server" \in Side /\ x.link.rcv_handler \in [Side -> RcvHandler] /\ x.link \in LinkType
    BY <1>1, Sides DEF World, LinkType
  <2> HIDE DEF h
  <2>3. /\ register(x, "server", h).posted = x.posted
        /\ register(x, "server", h).link =
             [x.link EXCEPT !.rcv_handler = [x.link.rcv_handler EXCEPT !["server"] = h],
                !.valid_rcv_handler = [x.link.valid_rcv_handler EXCEPT !["server"] = TRUE]]
    BY <1>1, <2>1, <2>2, RegisterIs
  <2>4. register(x, "server", h).link.rcv_handler["server"] = h
    <3> DEFINE l == register(x, "server", h).link
    <3>1. /\ l = [x.link EXCEPT !.rcv_handler = [x.link.rcv_handler EXCEPT !["server"] = h],
                     !.valid_rcv_handler = [x.link.valid_rcv_handler EXCEPT !["server"] = TRUE]]
          /\ x.link \in LinkType
      BY <2>2, <2>3
    <3> HIDE DEF l
    <3>2. l.rcv_handler = [x.link.rcv_handler EXCEPT !["server"] = h]
      BY <3>1 DEF LinkType
    <3>3. l.rcv_handler["server"] = h
      BY <2>2, <3>2
    <3> QED
      BY <3>3 DEF l
  <2> QED
    BY <1>1, <2>1, <2>3, <2>4 DEF fta_rcv_handler, h
<1>6. ~x.link.valid_rcv_handler["server"]
  BY <1>3 DEF Ready
<1> QED
  BY <1>1, <1>2, <1>4, <1>5, <1>6

\* A file is sent: nothing is unacknowledged, so it garbles nothing.
LEMMA GetNeat ==
  ASSUME NEW w, Ready(w), NEW n \in 1..Len(w.script),
         Sending(w.script, w.link.sent["client"], w.link.handed["server"])
  PROVE  Serving(get(w, n))
<1> DEFINE f == FileOf(w, n)
           x == async_send(w, "server", f, "final_send")
<1>1. Typed(w) /\ ~Querying(w)
  BY DEF Ready, Transfers
<1>2. f \in Seq(Unit) /\ \A k \in 1..Len(f) : f[k].n \in 1..Len(w.script)
  BY <1>1, FileIs
<1>3. "server" \in Side /\ "final_send" \in SendNames /\ SendFits(w, "server", "final_send")
  BY <1>1, Sides DEF SendNames, SendFits
<1>4. get(w, n) = x
  BY Zenon DEF get, FileOf
<1> HIDE DEF f
<1>5. SendsMore(w, "server", f, "final_send", x)
  BY <1>1, <1>2, <1>3, TypedSend
<1> HIDE DEF x
<1>6. w.link.sent \in [Side -> Seq(Unit)]
  BY <1>1 DEF Typed, World, LinkType
<1>7. /\ x.script = w.script /\ x.posted = w.posted /\ x.link.handed = w.link.handed
      /\ x.link.sent["client"] = w.link.sent["client"]
      /\ x.link.valid_rcv_handler = w.link.valid_rcv_handler
      /\ x.link.garbled <=> w.link.garbled \/ w.link.acked["server"] < Len(w.link.sent["server"])
  BY <1>5, <1>6, Sides DEF SendsMore, Same
<1>8. ~(w.link.acked["server"] < Len(w.link.sent["server"]))
  <2>1. w.link.acked["server"] = Len(w.link.sent["server"]) /\ Len(w.link.sent["server"]) \in Nat
    BY <1>1, StreamIs DEF Ready
  <2> QED
    BY <2>1
<1>9. ServerFits(x)
  BY <1>7 DEF ServerFits, Ready
<1>10. PostFits(x) /\ ~x.link.garbled
  BY <1>7, <1>8 DEF PostFits, Ready
<1> QED
  BY <1>4, <1>9, <1>10 DEF Serving

\* rcv_respond is called with nothing, or with the one request there is.
LEMMA RespondNeat ==
  ASSUME NEW w, Ready(w), NEW data \in Seq(Unit),
         LET s == w.script
             q == w.link.sent["client"]
             b == w.link.handed["server"]
         IN  /\ data = <<>> => Ends(s, q, b, w.posted)
             /\ data # <<>> => b > 0 /\ b = Len(q) /\ data[1] = q[b]
                               /\ q[b].kind = "request" /\ q[b].k = 0
  PROVE  Serving(rcv_respond(w, data))
<1> DEFINE q == w.link.sent["client"]
           b == w.link.handed["server"]
           n == data[1].n
           c == w.script[n]
           waits == [w EXCEPT !.server.not_receiving = FALSE]
           h == Handler("first_post", n, 0, 0)
           x == IF Posts(c) THEN register(waits, "server", h) ELSE w
           y == [x EXCEPT !.server.not_sending = FALSE]
<1>1. Typed(w) /\ ~Querying(w) /\ Plain(w.script)
  BY DEF Ready, Transfers
<1>2. CASE data = <<>>
  <2>1. rcv_respond(w, data) = fta_rcv_handler(w)
    BY <1>2, Zenon DEF rcv_respond
  <2> QED
    BY <1>2, <2>1, FtaNeat
<1>3. CASE data # <<>>
  <2>1. b > 0 /\ b = Len(q) /\ data[1] = q[b] /\ q[b].kind = "request" /\ q[b].k = 0
    BY <1>3
  <2>2. q \in Seq(Unit) /\ b \in Nat /\ Len(w.script) \in Nat
    BY <1>1, StreamIs
  <2>3. b \in 1..Len(q) /\ SegmentsFit(w)
    BY <1>1, <2>1, <2>2 DEF Typed
  <2>4. n \in 1..Len(w.script) /\ q[b].n = n /\ q[b] = Segment("request", n, 0)
    <3>1. q[b] \in Unit /\ q[b].n \in 1..Len(w.script)
      BY <2>2, <2>3 DEF SegmentsFit
    <3> QED
      BY <2>1, <3>1 DEF Unit, Segment
  <2>5. Gets(c) => ~Posts(c)
    BY <1>1, <2>4 DEF Plain, Gets, Posts
  <2>6. rcv_respond(w, data) = IF Gets(c) THEN get(y, n) ELSE x
    <3>1. rcv_respond(w, data) =
            CASE data = <<>> -> fta_rcv_handler(w)
              [] data # <<>> /\ data[1].kind # "request" -> Garble(w)
              [] OTHER -> IF Gets(c) THEN get(y, n) ELSE x
      BY Zenon DEF rcv_respond, n, c, x, y, waits, h
    <3>2. data[1].kind = "request"
      BY <2>1
    <3> QED
      BY <1>3, <3>1, <3>2
  <2>7. CASE Gets(c)
    <3>1. x = w
      BY <2>5, <2>7
    <3>2. y \in World /\ y.link = w.link /\ y.script = w.script /\ y.client = w.client /\ y.posted = w.posted
      BY <1>1, <3>1 DEF Typed, World, Flags
    <3> HIDE DEF y, x
    <3>3. Ready(y)
      BY <3>2, ReadyRest
    <3>4. Sending(y.script, y.link.sent["client"], y.link.handed["server"])
      <4>1. Len(q) <= b + 1
        BY <2>1, <2>2
      <4>2. Gets(w.script[q[b].n])
        BY <2>4, <2>7
      <4>3. Sending(w.script, q, b)
        BY <2>1, <4>1, <4>2, Zenon DEF Sending
      <4> QED
        BY <3>2, <4>3
    <3>5. Serving(get(y, n))
      BY <2>4, <3>2, <3>3, <3>4, GetNeat
    <3> QED
      BY <2>6, <2>7, <3>5
  <2>8. CASE ~Gets(c) /\ Posts(c)
    <3>1. waits \in World /\ waits.link = w.link /\ waits.script = w.script
          /\ waits.client = w.client /\ waits.posted = w.posted
      BY <1>1 DEF Typed, World, Flags
    <3> HIDE DEF waits
    <3>2. Ready(waits)
      BY <3>1, ReadyRest
    <3>3. Typed(waits) /\ ~Querying(waits) /\ n \in 1..Len(waits.script)
      BY <2>4, <3>1, <3>2 DEF Ready, Transfers
    <3> HIDE DEF n
    <3>4. HandlerFits(waits, "server", h) /\ h.name = "first_post" /\ h.n = n /\ h.size = 0
          /\ h.current_index = 0
      <4>1. "first_post" \in {"first_post", "post"} /\ 0 \in Int /\ 0 \in Nat
        OBVIOUS
      <4>2. HandlerFits(waits, "server", h)
        BY <3>3, <4>1, HandlerFitsIs, Zenon
      <4> QED
        BY <4>2 DEF Handler
    <3> HIDE DEF h
    <3>5. Storing(waits.script, waits.link.sent["client"], waits.link.handed["server"], h, waits.posted)
      BY <2>1, <2>4, <2>8, <3>1, <3>4 DEF Storing
    <3>6. Serving(register(waits, "server", h))
      BY <3>2, <3>4, <3>5, RegisterNeat
    <3> QED
      BY <2>6, <2>8, <3>6
  <2>9. CASE ~Gets(c) /\ ~Posts(c)
    BY <2>6, <2>9, ReadyServes
  <2> QED
    BY <2>7, <2>8, <2>9
<1> QED
  BY <1>2, <1>3

\* How far a file is stored.
LEMMA StoringIs ==
  ASSUME NEW s, NEW q, NEW n, NEW a, NEW waits, Sent(s, q, n, a, waits),
         NEW b \in 1..Len(q), NEW h \in RcvHandler, NEW f, Storing(s, q, b, h, f)
  PROVE  h.current_index > 0 => h.current_index <= s[h.n].post /\ h.size > 0
<1> SUFFICES ASSUME h.current_index > 0
             PROVE  h.current_index <= s[h.n].post /\ h.size > 0
  OBVIOUS
<1>1. h.current_index # 0 /\ h.current_index \in Nat
  BY DEF RcvHandler
<1>2. q[b] = Segment("post", h.n, h.current_index) /\ h.size = s[h.n].post
  BY <1>1 DEF Storing
<1>3. q[b].kind = "post" /\ q[b].n = h.n /\ q[b].k = h.current_index
  BY <1>2 DEF Segment
<1>4. PostAt(s, q, a, b)
  BY <1>3, SentIs
<1>5. q[b].k \in 1..s[q[b].n].post
  BY <1>4, Zenon DEF PostAt
<1>6. s[q[b].n].post \in Int
  BY SentIs
<1> QED
  BY <1>1, <1>2, <1>3, <1>5, <1>6

\* No file is stored.
LEMMA NothingPosted == Message("post", 0, 0) = <<>>
<1>1. "post" \in Kinds /\ 0 \in Nat /\ 0 \in Int /\ ~(0 > 0)
  BY DEF Kinds
<1>2. Message("post", 0, 0) \in Seq(Unit) /\ Len(Message("post", 0, 0)) = 0
  BY <1>1, MessageIs
<1> QED
  BY <1>2, EmptySeq

\* What a handler of a post is given is the next part of its file.
NextPart(h, data) ==
  \A j \in 1..Len(data) : data[j] = Segment("post", h.n, h.current_index + j)

\* A part of a file is stored behind what there is of it.
LEMMA PostedGrows ==
  ASSUME NEW s, NEW q, NEW b, NEW h \in RcvHandler, NEW posted_file \in Seq(Unit), Storing(s, q, b, h, posted_file),
         h.current_index > 0 => h.size > 0,
         NEW data \in Seq(Unit), NextPart(h, data),
         NEW kept, kept = IF h.size <= 0 THEN <<>> ELSE posted_file
  PROVE  /\ kept \o data = Message("post", h.n, h.current_index + Len(data))
         /\ Len(Message("post", h.n, h.current_index + Len(data))) = h.current_index + Len(data)
<1> DEFINE k == h.current_index
<1>1. k \in Nat /\ h.size \in Int /\ h.n \in Nat /\ "post" \in Kinds /\ Len(data) \in Nat
  BY LenProperties DEF RcvHandler, Kinds
<1>2. /\ Message("post", h.n, k) \o data = Message("post", h.n, k + Len(data))
      /\ k = 0 => data = Message("post", h.n, Len(data))
      /\ Len(Message("post", h.n, k + Len(data))) = k + Len(data)
  BY <1>1, MessageGrows DEF NextPart
<1>3. CASE k = 0
  <2>1. h.size = 0 /\ k + Len(data) = Len(data)
    BY <1>1, <1>3 DEF Storing
  <2>2. <<>> \o data = data
    OBVIOUS
  <2> QED
    BY <1>2, <1>3, <2>1, <2>2
<1>4. CASE k # 0
  <2>1. ~(h.size <= 0)
    BY <1>1, <1>4
  <2>2. posted_file = Message("post", h.n, k)
    BY <1>4 DEF Storing
  <2> QED
    BY <1>2, <2>1, <2>2
<1> QED
  BY <1>3, <1>4

\* What post does with the beginning or the next part of its file, with nothing, or
\* with bytes behind it.
LEMMA PostNeat ==
  ASSUME NEW w, Ready(w), NEW h \in RcvHandler, NEW data \in Seq(Unit), NEW b,
         h.n \in 1..Len(w.script),
         LET s == w.script
             q == w.link.sent["client"]
             size == s[h.n].post
         IN  /\ Storing(s, q, b, h, w.posted)
             /\ h.current_index > 0 => h.current_index <= size /\ h.size > 0
             /\ data = <<>> => b = w.link.handed["server"]
             /\ data # <<>> /\ h.current_index < size =>
                  /\ h.current_index + Len(data) <= size
                  /\ NextPart(h, data)
                  /\ w.link.handed["server"] > 0
                  /\ q[w.link.handed["server"]] = Segment("post", h.n, h.current_index + Len(data))
  PROVE  Serving(post(w, h, data))
<1> DEFINE s == w.script
           q == w.link.sent["client"]
           c == s[h.n]
           request_size == as_uint(w.script[h.n].post)
           first == h.size <= 0
           size == IF first THEN as_int(request_size) ELSE h.size
           kept == IF first THEN <<>> ELSE w.posted
           more == [w EXCEPT !.posted = kept \o data]
           next == Handler("post", h.n, size, h.current_index + Len(data))
           again == [h EXCEPT !.name = "post"]
<1>1. /\ Typed(w) /\ ~Querying(w) /\ w \in World /\ w.posted \in Seq(Unit)
      /\ h.current_index \in Nat /\ h.size \in Int /\ h.n \in Nat /\ Len(data) \in Nat
  BY LenProperties DEF Ready, Transfers, Typed, World, RcvHandler
<1>2. /\ c.post \in Int /\ request_size \in Nat /\ as_int(request_size) \in Int
      /\ c.post >= 0 => request_size = c.post /\ as_int(request_size) = c.post
      /\ c.post < 0 => as_int(request_size) <= 0
  BY <1>1, PostSize
<1>3. Storing(s, q, b, h, w.posted) /\ Posts(c)
      /\ (h.current_index = 0 => h.size = 0) /\ (h.current_index # 0 => h.size = c.post)
  BY DEF Storing
<1>4. h.current_index > 0 => h.current_index <= c.post /\ h.size > 0
  OBVIOUS
<1>5. size \in Int /\ kept \in Seq(Unit)
  BY <1>1, <1>2, EmptySeq

\* The size is that of the file, or there is none.
<1>6. h.current_index < size => size = c.post /\ c.post > 0
  <2>1. CASE h.current_index = 0
    <3>1. size = as_int(request_size)
      BY <1>3, <2>1
    <3> HIDE DEF size
    <3> QED
      BY <1>2, <2>1, <3>1
  <2>2. CASE h.current_index # 0
    <3>1. size = c.post /\ c.post > 0
      BY <1>1, <1>2, <1>3, <1>4, <2>2
    <3> QED
      BY <3>1
  <2> QED
    BY <2>1, <2>2
<1>7. post(w, h, data) =
        CASE data # <<>> /\ h.current_index < size -> register(more, "server", next)
          [] data # <<>> /\ ~(h.current_index < size) -> PostSpent(w, kept)
          [] data = <<>> /\ h.current_index >= request_size -> final_send(w, FALSE, FALSE)
          [] OTHER -> register(w, "server", again)
  BY Zenon DEF post, PostSpent, request_size, first, size, kept, more, next, again
<1>8. CASE data # <<>> /\ h.current_index < size
  <2>1. /\ size = c.post /\ h.current_index + Len(data) <= size
        /\ NextPart(h, data)
        /\ w.link.handed["server"] > 0
        /\ q[w.link.handed["server"]] = Segment("post", h.n, h.current_index + Len(data))
    BY <1>6, <1>8
  <2>2. /\ kept \o data = Message("post", h.n, h.current_index + Len(data))
        /\ Len(Message("post", h.n, h.current_index + Len(data))) = h.current_index + Len(data)
    <3>1. h.current_index > 0 => h.size > 0
      BY <1>4
    <3>2. Storing(s, q, b, h, w.posted)
      BY <1>3
    <3>3. kept = IF h.size <= 0 THEN <<>> ELSE w.posted
      BY Zenon DEF kept, first
    <3> HIDE DEF s, q, size, c, kept
    <3>4. w.posted \in Seq(Unit)
      BY <1>1
    <3> QED
      BY <2>1, <3>1, <3>2, <3>3, <3>4, PostedGrows, Zenon
  <2>3. h.current_index + Len(data) \in Nat /\ h.current_index + Len(data) # 0
    <3>1. Len(data) # 0
      BY <1>8, EmptySeq
    <3> QED
      BY <1>1, <3>1
  <2> DEFINE stored == kept \o data
  <2>4. stored \in Seq(Unit)
    BY <1>5, ConcatProperties
  <2> HIDE DEF stored, size, kept
  <2>5. /\ more \in World /\ more.link = w.link /\ more.script = w.script /\ more.client = w.client
        /\ more.posted = stored
    <3>1. LET x == [w EXCEPT !.posted = stored] IN
          /\ x \in World /\ x.link = w.link /\ x.script = w.script /\ x.client = w.client
          /\ x.posted = stored
      BY <1>1, <2>4 DEF World
    <3> QED
      BY <3>1 DEF stored
  <2> HIDE DEF more
  <2>6. Listens(w, more)
    BY <1>1, <2>5, ListensRest
  <2>7. Ready(more)
    <3>1. StreamFits(more) /\ Transfers(more)
      BY <2>6, ServesStream DEF Ready, Listens
    <3>2. PostFits(more)
      <4>1. stored = Message("post", h.n, Len(stored)) /\ h.n \in 0..Len(w.script)
        BY <2>2 DEF stored
      <4> QED
        BY <2>5, <4>1, Zenon DEF PostFits
    <3> QED
      BY <2>5, <3>1, <3>2 DEF Ready
  <2>8. /\ next \in RcvHandler /\ next.name = "post" /\ next.n = h.n /\ next.size = size
        /\ next.current_index = h.current_index + Len(data)
    BY <1>1, <1>5, <2>3 DEF Handler, RcvHandler, RcvNames
  <2> HIDE DEF next
  <2>9. HandlerFits(more, "server", next)
    BY <2>5, <2>8 DEF HandlerFits, Querying, Ready, Transfers
  <2>10. Storing(more.script, more.link.sent["client"], more.link.handed["server"], next, more.posted)
    <3>1. stored = Message("post", h.n, h.current_index + Len(data))
      BY <2>2 DEF stored
    <3> QED
      BY <1>3, <2>1, <2>3, <2>5, <2>8, <3>1, Zenon DEF Storing
  <2>11. Serving(register(more, "server", next))
    BY <2>7, <2>8, <2>9, <2>10, RegisterNeat
  <2> QED
    BY <1>7, <1>8, <2>11
<1>9. CASE data # <<>> /\ ~(h.current_index < size)
  <2> DEFINE x == PostSpent(w, kept)
  <2> HIDE DEF size, kept
  <2>1. /\ Listens(w, x) /\ x.posted = kept
        /\ x.link.valid_rcv_handler = w.link.valid_rcv_handler
    BY <1>1, <1>5, SpentListens DEF Ready
  <2>2. post(w, h, data) = x
    BY <1>7, <1>9
  <2> HIDE DEF x
  <2>3. ServerFits(x) /\ ~x.link.garbled
    BY <2>1 DEF ServerFits, Ready, Listens
  <2>4. PostFits(x)
    <3>1. x.script = w.script
      BY <2>1 DEF Listens, Serves, Same
    <3>2. CASE kept = w.posted
      BY <2>1, <3>1, <3>2 DEF PostFits, Ready
    <3>3. CASE kept = <<>>
      <4>1. 0 \in 0..Len(w.script) /\ Len(kept) = 0 /\ Message("post", 0, 0) = <<>>
        BY <1>1, <3>3, StreamIs, NothingPosted
      <4>2. x.posted = Message("post", 0, Len(x.posted))
        BY <2>1, <3>3, <4>1
      <4> QED
        BY <3>1, <4>1, <4>2 DEF PostFits
    <3> QED
      BY <3>2, <3>3 DEF kept
  <2> QED
    BY <2>2, <2>3, <2>4 DEF Serving
<1>10. CASE data = <<>> /\ h.current_index >= request_size
  <2>1. Ends(s, q, w.link.handed["server"], w.posted)
    <3>1. b = w.link.handed["server"]
      BY <1>10
    <3>2. CASE h.current_index = 0
      <4>1. ~Uploads(c)
        BY <1>2, <1>10, <3>2 DEF Uploads
      <4>2. q[b] = Segment("request", h.n, 0)
        BY <3>2 DEF Storing
      <4> QED
        BY <3>1, <4>1, <4>2 DEF Ends, Segment
    <3>3. CASE h.current_index # 0
      <4>1. q[b] = Segment("post", h.n, h.current_index)
            /\ w.posted = Message("post", h.n, h.current_index)
        BY <3>3 DEF Storing
      <4>2. h.current_index = c.post
        BY <1>1, <1>2, <1>4, <1>10, <3>3
      <4>3. q[b].kind # "request" /\ q[b].n = h.n /\ q[b].k = h.current_index
        BY <4>1 DEF Segment
      <4> QED
        BY <3>1, <4>1, <4>2, <4>3 DEF Ends
    <3> QED
      BY <3>2, <3>3
  <2>2. Serving(final_send(w, FALSE, FALSE))
    BY <2>1, FinalSendNeat
  <2> QED
    BY <1>7, <1>10, <2>2
<1>11. CASE data = <<>> /\ ~(h.current_index >= request_size)
  <2>1. again \in RcvHandler /\ again.name = "post" /\ again.n = h.n /\ again.size = h.size
        /\ again.current_index = h.current_index
    BY DEF RcvHandler, RcvNames
  <2> HIDE DEF again
  <2>2. HandlerFits(w, "server", again)
    BY <1>1, <2>1 DEF HandlerFits
  <2>3. b = w.link.handed["server"]
    BY <1>11
  <2>4. Storing(s, q, w.link.handed["server"], again, w.posted)
    BY <1>3, <2>1, <2>3, Zenon DEF Storing
  <2>5. Serving(register(w, "server", again))
    BY <2>1, <2>2, <2>4, RegisterNeat
  <2> QED
    BY <1>7, <1>11, <2>5
<1> QED
  BY <1>8, <1>9, <1>10, <1>11

\* What the server is called with, in a plain file transfer.
Served(w) ==
  /\ Transfers(w) /\ StreamFits(w) /\ ServerFits(w) /\ PostFits(w) /\ ~w.link.garbled
  /\ w.link.valid_rcv_handler["server"] => w.link.acked["client"] <= w.link.handed["server"]

LEMMA HandOverReady ==
  ASSUME NEW w, Transfers(w), StreamFits(w), PostFits(w), ~w.link.garbled,
         ~w.link.valid_send_handler["server"],
         w.link.acked["server"] = Len(w.link.sent["server"])
  PROVE  LET y == hand_over(w, "server") IN
         /\ Ready(y) /\ y.script = w.script /\ y.posted = w.posted
         /\ y.link.sent = w.link.sent /\ y.link.handed["server"] = w.link.taken["server"]
         /\ y.link.taken = w.link.taken
<1> DEFINE y == hand_over(w, "server")
<1>1. /\ Serves(w, y)
      /\ y.link.handed["server"] = w.link.taken["server"]
      /\ y.link.sent = w.link.sent /\ y.link.garbled = w.link.garbled
      /\ ~y.link.valid_rcv_handler["server"]
      /\ y.link.valid_send_handler = w.link.valid_send_handler
      /\ y.posted = w.posted
  BY HandOverServes DEF Transfers
<1> HIDE DEF y
<1>2. StreamFits(y) /\ Transfers(y)
  BY <1>1, ServesStream
<1>3. y.script = w.script /\ y.link.acked = w.link.acked /\ y.link.taken = w.link.taken
  BY <1>1 DEF Serves, Same
<1>4. PostFits(y)
  BY <1>1, <1>3 DEF PostFits
<1>5. Ready(y)
  BY <1>1, <1>2, <1>3, <1>4 DEF Ready
<1> QED
  BY <1>1, <1>3, <1>5 DEF y

\* The chunk that the server has not read.
LEMMA ChunkIs ==
  ASSUME NEW w, Typed(w)
  PROVE  LET data == unread(w, "server")
             q == w.link.sent["client"]
             b == w.link.handed["server"]
         IN  /\ data \in Seq(Unit)
             /\ data = <<>> => w.link.taken["server"] = b
             /\ data # <<>> => b < w.link.taken["server"] /\ b < Len(q)
             /\ Len(data) = w.link.taken["server"] - b
             /\ \A k \in 1..Len(data) : data[k] = q[b + k]
<1>1. /\ w.link.handed["server"] \in Nat /\ w.link.taken["server"] \in Nat
      /\ Len(w.link.sent["client"]) \in Nat
      /\ w.link.handed["server"] <= w.link.taken["server"]
      /\ w.link.taken["server"] <= Len(w.link.sent["client"])
  BY StreamIs
<1>2. LET data == unread(w, "server") IN
      /\ data \in Seq(Unit)
      /\ Len(data) = w.link.taken["server"] - w.link.handed["server"]
      /\ \A k \in 1..Len(data) : data[k] = w.link.sent["client"][w.link.handed["server"] + k]
      /\ data = <<>> <=> w.link.taken["server"] = w.link.handed["server"]
  <2>1. w \in World /\ "server" \in Side /\ Other("server") = "client"
    BY Sides DEF Typed
  <2> QED
    BY <1>1, <2>1, UnreadIs
<1> QED
  BY <1>1, <1>2

\* rcv_respond is called: there is one request to read, or nothing.
LEMMA RespondCalled ==
  ASSUME NEW w, Transfers(w), StreamFits(w), PostFits(w), ~w.link.garbled,
         ~w.link.valid_send_handler["server"],
         w.link.acked["server"] = Len(w.link.sent["server"]),
         LET s == w.script
             q == w.link.sent["client"]
             b == w.link.handed["server"]
         IN  /\ w.link.taken["server"] = b => Ends(s, q, b, w.posted)
             /\ b < w.link.taken["server"] =>
                  Len(q) = b + 1 /\ q[b + 1].kind = "request" /\ q[b + 1].k = 0
  PROVE  Serving(rcv_respond(hand_over(w, "server"), unread(w, "server")))
<1> DEFINE q == w.link.sent["client"]
           b == w.link.handed["server"]
           t == w.link.taken["server"]
           y == hand_over(w, "server")
           data == unread(w, "server")
<1>1. Typed(w) /\ b \in Nat /\ t \in Nat /\ Len(q) \in Nat /\ b <= t /\ t <= Len(q)
  BY StreamIs DEF Transfers
<1>2. /\ data \in Seq(Unit)
      /\ data = <<>> => t = b
      /\ data # <<>> => b < t /\ b < Len(q)
      /\ Len(data) = t - b
      /\ \A k \in 1..Len(data) : data[k] = q[b + k]
  BY <1>1, ChunkIs
<1>3. /\ Ready(y) /\ y.script = w.script /\ y.posted = w.posted
      /\ y.link.sent = w.link.sent /\ y.link.handed["server"] = t
  BY HandOverReady
<1> HIDE DEF y, data
<1>4. data = <<>> => Ends(y.script, y.link.sent["client"], y.link.handed["server"], y.posted)
  BY <1>2, <1>3
<1>5. data # <<>> =>
        LET p == y.link.handed["server"]
            r == y.link.sent["client"]
        IN  p > 0 /\ p = Len(r) /\ data[1] = r[p] /\ r[p].kind = "request" /\ r[p].k = 0
  <2> SUFFICES ASSUME data # <<>>
               PROVE  t > 0 /\ t = Len(q) /\ data[1] = q[t] /\ q[t].kind = "request" /\ q[t].k = 0
    BY <1>3
  <2>1. b < t /\ Len(q) = b + 1 /\ q[b + 1].kind = "request" /\ q[b + 1].k = 0
    BY <1>2
  <2>2. t = b + 1 /\ t > 0
    BY <1>1, <2>1
  <2>3. 1 \in 1..Len(data)
    BY <1>1, <1>2, <2>2
  <2> QED
    BY <1>2, <2>1, <2>2, <2>3
<1>6. Serving(rcv_respond(y, data))
  BY <1>2, <1>3, <1>4, <1>5, RespondNeat
<1> QED
  BY <1>6 DEF y, data

\* post is called, with the beginning of the rest of the file or with nothing.
LEMMA PostCalled ==
  ASSUME NEW w, Served(w), w.link.valid_rcv_handler["server"],
         w.link.rcv_handler["server"].name \in {"first_post", "post"}
  PROVE  Serving(post(hand_over(w, "server"), w.link.rcv_handler["server"], unread(w, "server")))
<1> DEFINE s == w.script
           q == w.link.sent["client"]
           b == w.link.handed["server"]
           t == w.link.taken["server"]
           h == w.link.rcv_handler["server"]
           y == hand_over(w, "server")
           data == unread(w, "server")
           size == s[h.n].post
           k == h.current_index
<1>1. Typed(w) /\ b \in Nat /\ t \in Nat /\ Len(q) \in Nat /\ b <= t /\ t <= Len(q)
      /\ w.link.acked["client"] <= b /\ ~Querying(w)
  BY StreamIs DEF Served, Transfers
<1>2. /\ data \in Seq(Unit)
      /\ data = <<>> => t = b
      /\ data # <<>> => b < t /\ b < Len(q)
      /\ Len(data) = t - b
      /\ \A j \in 1..Len(data) : data[j] = q[b + j]
  BY <1>1, ChunkIs
<1>3. /\ ~w.link.valid_send_handler["server"]
      /\ w.link.acked["server"] = Len(w.link.sent["server"])
      /\ Storing(s, q, b, h, w.posted)
  BY DEF Served, ServerFits
<1>4. /\ Ready(y) /\ y.script = s /\ y.posted = w.posted
      /\ y.link.sent = w.link.sent /\ y.link.handed["server"] = t
  BY <1>3, HandOverReady DEF Served
<1>5. h \in RcvHandler /\ h.n \in 1..Len(s)
  <2>1. w.link.rcv_handler \in [Side -> RcvHandler] /\ HandlersFit(w)
    BY <1>1 DEF Typed, World, LinkType
  <2> QED
    BY <2>1, Sides DEF HandlersFit
<1>6. k \in Nat /\ s[h.n].post \in Int
  BY <1>1, <1>5, PostSize DEF RcvHandler
<1>7. PICK waits : Sent(s, q, w.client.commands, w.link.acked["client"], waits)
  BY StreamFitsIs DEF Served
<1> HIDE DEF s, q, b, t, h, y, data
<1>8. b > 0
  BY <1>3 DEF Storing
<1>9. k > 0 => k <= s[h.n].post /\ h.size > 0
  <2>1. b \in 1..Len(q)
    BY <1>1, <1>8
  <2> QED
    BY <1>3, <1>5, <1>7, <2>1, StoringIs
<1>10. ASSUME data # <<>>, k < s[h.n].post
       PROVE  /\ k + Len(data) <= s[h.n].post
              /\ NextPart(h, data)
              /\ t > 0 /\ q[t] = Segment("post", h.n, k + Len(data))
  <2>1. b < Len(q) /\ b < t
    BY <1>2, <1>10
  <2>2. w.link.acked["client"] <= b
    BY <1>1
  <2>3. /\ Len(q) = b + s[h.n].post - k
        /\ \A j \in 1..s[h.n].post - k : q[b + j] = Segment("post", h.n, k + j)
    BY <1>1, <1>3, <1>5, <1>7, <1>10, <2>1, <2>2, StoringRest
  <2> HIDE DEF size, k
  <2> DEFINE l == Len(data)
  <2>4. l \in Nat /\ l = t - b /\ l <= s[h.n].post - k /\ l > 0 /\ b + l = t
    BY <1>1, <1>2, <1>6, <2>1, <2>3
  <2>5. \A j \in 1..l : j \in 1..s[h.n].post - k
    BY <1>6, <2>4
  <2>6. l \in 1..l
    BY <2>4
  <2>7. \A j \in 1..l : data[j] = Segment("post", h.n, k + j)
    BY <1>2, <2>3, <2>5
  <2>8. q[t] = Segment("post", h.n, k + l)
    BY <2>3, <2>4, <2>5, <2>6
  <2>9. k + l <= s[h.n].post
    <3> DEFINE m == s[h.n].post
    <3>1. m \in Int /\ k \in Nat /\ l \in Nat /\ l <= m - k
      BY <1>6, <2>4
    <3> HIDE DEF m, l
    <3>2. k + l <= m
      BY <3>1
    <3> QED
      BY <3>2 DEF m
  <2>10. t > 0
    BY <1>1, <2>1
  <2>11. NextPart(h, data)
    BY <2>7 DEF NextPart, k
  <2> QED
    BY <2>8, <2>9, <2>10, <2>11
<1>11. data = <<>> => b = y.link.handed["server"]
  BY <1>2, <1>4
<1>12. Storing(y.script, y.link.sent["client"], b, h, y.posted)
  BY <1>3, <1>4 DEF q
<1>13. y.link.sent["client"] = q
  BY <1>4 DEF q
<1> HIDE DEF size, k
<1>14. Serving(post(y, h, data))
  BY <1>2, <1>4, <1>5, <1>9, <1>10, <1>11, <1>12, <1>13, PostNeat DEF k
<1> QED
  BY <1>14 DEF h, y, data

\* call_rcv_handler at the server.
LEMMA ServedCalled ==
  ASSUME NEW w, Served(w)
  PROVE  Serving(call_rcv_handler(w, "server"))
<1> DEFINE s == w.script
           q == w.link.sent["client"]
           b == w.link.handed["server"]
           h == w.link.rcv_handler["server"]
<1>1. Typed(w) /\ ~Querying(w) /\ b \in Nat /\ Len(q) \in Nat
  BY StreamIs DEF Served, Transfers
<1>2. CASE ~w.link.valid_rcv_handler["server"]
  <2>1. call_rcv_handler(w, "server") = w
    BY <1>2 DEF call_rcv_handler
  <2> QED
    BY <2>1 DEF Served, Serving
<1>3. CASE w.link.valid_rcv_handler["server"] /\ h.name = "rcv_respond"
  <2>1. call_rcv_handler(w, "server") = rcv_respond(hand_over(w, "server"), unread(w, "server"))
    BY <1>3 DEF call_rcv_handler
  <2>2. /\ ~w.link.valid_send_handler["server"]
        /\ w.link.acked["server"] = Len(w.link.sent["server"])
        /\ Ends(s, q, b, w.posted) /\ w.link.acked["client"] <= b
    BY <1>3 DEF Served, ServerFits
  <2>3. ASSUME b < w.link.taken["server"]
        PROVE  Len(q) = b + 1 /\ q[b + 1].kind = "request" /\ q[b + 1].k = 0
    <3>1. b < Len(q)
      BY <1>1, <2>3, StreamIs
    <3>2. PICK waits : Sent(s, q, w.client.commands, w.link.acked["client"], waits)
      BY StreamFitsIs DEF Served
    <3> HIDE DEF s, q, b
    <3> QED
      BY <1>1, <2>2, <3>1, <3>2, EndsOne
  <2>4. Serving(rcv_respond(hand_over(w, "server"), unread(w, "server")))
    BY <2>2, <2>3, RespondCalled DEF Served
  <2> QED
    BY <2>1, <2>4
<1>4. CASE w.link.valid_rcv_handler["server"] /\ h.name \in {"first_post", "post"}
  <2>1. call_rcv_handler(w, "server") = post(hand_over(w, "server"), h, unread(w, "server"))
    BY <1>4 DEF call_rcv_handler
  <2> QED
    BY <1>4, <2>1, PostCalled
<1> QED
  BY <1>1, <1>2, <1>3, <1>4 DEF Typed, HandlersFit

\* call_send_handler at the server: the file it sent is acknowledged.
LEMMA ServedAcked ==
  ASSUME NEW w, Served(w), w.link.valid_send_handler["server"],
         w.link.acked["server"] = Len(w.link.sent["server"])
  PROVE  Serving(call_send_handler(w, "server"))
<1> DEFINE z == Clear(w, "server")
           x == final_send(z, TRUE, FALSE)
           s == w.script
           q == w.link.sent["client"]
           b == w.link.handed["server"]
<1>1. Typed(w) /\ ~Querying(w) /\ Plain(s) /\ b \in Nat /\ Len(q) \in Nat
      /\ s \in Seq(Command) /\ Len(s) \in Nat /\ q \in Seq(Unit) /\ b <= Len(q)
  BY StreamIs DEF Served, Transfers
<1>2. Clears(w, "server", z)
  BY <1>1, TypedClear, Sides
<1>3. call_send_handler(w, "server") = file_sent(z)
  BY <1>1 DEF Typed, HandlersFit, call_send_handler, Clear
<1> HIDE DEF z
<1>4. /\ z.script = s /\ z.posted = w.posted /\ z.link.sent = w.link.sent
      /\ z.link.handed = w.link.handed /\ z.link.acked = w.link.acked
      /\ Serves(w, z)
  BY <1>2, Sides DEF Clears, Same, Serves
<1>5. Sending(s, q, b)
  BY DEF Served, ServerFits
<1>6. Ready(z)
  <2>1. StreamFits(z) /\ Transfers(z)
    BY <1>4, ServesStream DEF Served
  <2>2. PostFits(z)
    BY <1>4 DEF PostFits, Served
  <2>3. ~w.link.valid_rcv_handler["server"]
    BY DEF Served, ServerFits
  <2> QED
    BY <1>2, <1>4, <2>1, <2>2, <2>3 DEF Ready, Served, Clears
<1>7. Ends(s, q, b, z.posted)
  <2>1. b \in 1..Len(q) /\ q[b].kind = "request" /\ Gets(s[q[b].n])
    <3>1. b > 0 /\ q[b].kind = "request" /\ Gets(s[q[b].n])
      BY <1>5, Zenon DEF Sending
    <3>2. b \in Nat /\ Len(q) \in Nat /\ b <= Len(q)
      BY <1>1
    <3> HIDE DEF q, b
    <3>3. b \in 1..Len(q)
      BY <3>1, <3>2
    <3> QED
      BY <3>1, <3>3
  <2>2. q[b].n \in 1..Len(s)
    BY <1>1, <2>1 DEF Typed, SegmentsFit
  <2>3. ~Posts(s[q[b].n])
    BY <1>1, <2>1, <2>2 DEF Plain, Gets, Posts
  <2> QED
    BY <2>1, <2>3 DEF Ends, Uploads
<1>8. /\ Serving(x) /\ x.posted = z.posted
      /\ x.link.valid_rcv_handler["server"] => x.link.rcv_handler["server"].name = "rcv_respond"
  BY <1>4, <1>6, <1>7, FinalSendNeat
<1>9. Listens(z, x)
  BY <1>6, FinalSend DEF Ready, Transfers
<1>10. CASE x.link.valid_rcv_handler["server"] /\ unread(x, "server") # <<>>
  <2>1. file_sent(z) = rcv_respond(hand_over(x, "server"), unread(x, "server"))
    BY <1>10, Zenon DEF file_sent
  <2> HIDE DEF x
  <2>2. /\ x.script = s /\ x.link.sent = w.link.sent /\ x.link.handed = w.link.handed
        /\ Serves(z, x)
    BY <1>4, <1>9 DEF Listens, Serves, Same
  <2>3. StreamFits(x) /\ Transfers(x)
    BY <1>6, <2>2, ServesStream DEF Ready
  <2>4. /\ ~x.link.valid_send_handler["server"]
        /\ x.link.acked["server"] = Len(x.link.sent["server"])
        /\ Ends(s, q, b, x.posted) /\ PostFits(x) /\ ~x.link.garbled
    BY <1>8, <1>10, <2>2 DEF Serving, ServerFits
  <2>5. ASSUME b < x.link.taken["server"]
        PROVE  Len(q) = b + 1 /\ q[b + 1].kind = "request" /\ q[b + 1].k = 0
    <3>1. b < Len(q)
      BY <1>1, <2>2, <2>3, <2>5, StreamIs DEF Transfers
    <3>2. PICK waits : Sent(s, q, w.client.commands, w.link.acked["client"], waits)
      BY StreamFitsIs DEF Served
    <3> HIDE DEF s, q, b
    <3> QED
      BY <1>1, <1>5, <3>1, <3>2, SendingNext
  <2>6. Serving(rcv_respond(hand_over(x, "server"), unread(x, "server")))
    BY <2>2, <2>3, <2>4, <2>5, RespondCalled
  <2> QED
    BY <1>3, <2>1, <2>6
<1>11. CASE ~(x.link.valid_rcv_handler["server"] /\ unread(x, "server") # <<>>)
  <2>1. file_sent(z) = x
    BY <1>11, Zenon DEF file_sent
  <2> QED
    BY <1>3, <1>8, <2>1
<1> QED
  BY <1>10, <1>11

\* What the handlers of the server do when the connection goes down.
LEMMA FinalSendPosted ==
  ASSUME NEW w, Typed(w), NEW is_get, NEW killed
  PROVE  final_send(w, is_get, killed).posted = w.posted
<1> DEFINE x == IF is_get THEN [w EXCEPT !.server.not_sending = TRUE]
                          ELSE [w EXCEPT !.server.not_receiving = TRUE]
           h == Handler("rcv_respond", 0, 0, 0)
<1>1. x \in World /\ x.posted = w.posted
  BY DEF Typed, World, Flags
<1>2. final_send(w, is_get, killed) \in {x, register(x, "server", h)}
  BY Zenon DEF final_send, fta_rcv_handler, x, h
<1> HIDE DEF x
<1>3. h \in RcvHandler /\ "server" \in Side
  BY Sides DEF Handler, RcvHandler, RcvNames
<1> HIDE DEF h
<1>4. register(x, "server", h).posted = x.posted
  BY <1>1, <1>3, RegisterIs
<1> QED
  BY <1>1, <1>2, <1>4

LEMMA ServerFinPosted ==
  ASSUME NEW w, Typed(w), ~Querying(w)
  PROVE  fta_server_fin(w).posted = w.posted
<1> DEFINE h == w.link.rcv_handler["server"]
           x == IF w.link.send_handler["server"] = "final_send"
                THEN final_send(w, TRUE, TRUE) ELSE w
<1>1. Listens(w, x) /\ x.posted = w.posted
  BY FinalSend, FinalSendPosted, ServesSelf
<1> HIDE DEF x
<1>2. Typed(x)
  BY <1>1 DEF Listens, Serves
<1>3. h \in RcvHandler
  BY Sides DEF Typed, World, LinkType
<1>4. \/ fta_server_fin(w) = final_send(x, FALSE, TRUE)
      \/ fta_server_fin(w) = post(x, h, <<>>)
      \/ fta_server_fin(w) = x
  <2>1. fta_server_fin(w) =
          CASE h.name = "post" -> final_send(x, FALSE, TRUE)
            [] h.name = "first_post" -> post(x, h, <<>>)
            [] OTHER -> x
    BY Zenon DEF fta_server_fin, x
  <2> HIDE DEF h
  <2> QED
    BY <2>1
<1> DEFINE again == [h EXCEPT !.name = "post"]
<1>5. \/ post(x, h, <<>>) = final_send(x, FALSE, FALSE)
      \/ post(x, h, <<>>) = register(x, "server", again)
  BY DEF post
<1>6. register(x, "server", again).posted = x.posted
  <2>1. again \in RcvHandler /\ "server" \in Side /\ x \in World
    BY <1>2, <1>3, Sides DEF RcvHandler, RcvNames, Typed
  <2> HIDE DEF again
  <2> QED
    BY <2>1, RegisterIs
<1>7. /\ final_send(x, FALSE, FALSE).posted = x.posted
      /\ final_send(x, FALSE, TRUE).posted = x.posted
  BY <1>2, FinalSendPosted
<1> QED
  BY <1>1, <1>4, <1>5, <1>6, <1>7

\* A datagram arrives at end s.
Advances(w, v, s) ==
  /\ Moves(w, v)
  /\ v.link.acked[Other(s)] = w.link.acked[Other(s)] /\ w.link.acked[s] <= v.link.acked[s]

LEMMA AdvancesNeat ==
  ASSUME NEW w, Transfers(w), Flowing(w), PostFits(w), NEW s \in Side, NEW v, Advances(w, v, s)
  PROVE  /\ Transfers(v) /\ StreamFits(v) /\ ServerFits(v) /\ PostFits(v) /\ ~v.link.garbled
         /\ ~all_acked(v, "client") \/ v.link.acked["client"] = w.link.acked["client"] =>
              ClientFits(v)
<1>1. /\ Typed(v) /\ v.script = w.script /\ v.client = w.client /\ v.posted = w.posted
      /\ v.link.up = w.link.up /\ v.link.sent = w.link.sent /\ v.link.handed = w.link.handed
      /\ v.link.garbled = w.link.garbled
      /\ v.link.rcv_handler = w.link.rcv_handler /\ v.link.send_handler = w.link.send_handler
      /\ v.link.valid_rcv_handler = w.link.valid_rcv_handler
      /\ v.link.valid_send_handler = w.link.valid_send_handler
  BY DEF Advances, Moves
<1>2. /\ w.link.acked["client"] \in Nat /\ w.link.acked["server"] \in Nat
      /\ v.link.acked["client"] \in Nat /\ v.link.acked["server"] \in Nat
      /\ Len(w.link.sent["client"]) \in Nat /\ Len(w.link.sent["server"]) \in Nat
      /\ w.link.acked["client"] <= Len(w.link.sent["client"])
      /\ v.link.acked["client"] <= Len(w.link.sent["client"])
      /\ w.link.acked["server"] <= Len(w.link.sent["server"])
      /\ v.link.acked["server"] <= Len(w.link.sent["server"])
  <2>1. \A x : Typed(x) =>
          /\ x.link.acked["client"] \in Nat /\ x.link.acked["server"] \in Nat
          /\ Len(x.link.sent["client"]) \in Nat /\ Len(x.link.sent["server"]) \in Nat
          /\ x.link.acked["client"] <= Len(x.link.sent["client"])
          /\ x.link.acked["server"] <= Len(x.link.sent["server"])
    <3> SUFFICES ASSUME NEW x, Typed(x)
                 PROVE  /\ x.link.acked["client"] \in Nat /\ x.link.acked["server"] \in Nat
                        /\ Len(x.link.sent["client"]) \in Nat /\ Len(x.link.sent["server"]) \in Nat
                        /\ x.link.acked["client"] <= Len(x.link.sent["client"])
                        /\ x.link.acked["server"] <= Len(x.link.sent["server"])
      OBVIOUS
    <3>1. /\ x.link.acked["client"] \in Nat /\ x.link.taken["server"] \in Nat
          /\ Len(x.link.sent["client"]) \in Nat
          /\ x.link.acked["client"] <= x.link.taken["server"]
          /\ x.link.taken["server"] <= Len(x.link.sent["client"])
      BY StreamIs
    <3>2. x.link.acked["client"] <= Len(x.link.sent["client"])
      BY <3>1
    <3> QED
      BY <3>2, StreamIs
  <2> QED
    BY <1>1, <2>1 DEF Transfers
<1>3. w.link.acked["client"] <= v.link.acked["client"]
      /\ w.link.acked["server"] <= v.link.acked["server"]
  BY <1>2, Sides DEF Advances
<1>4. (Awaiting(v) <=> Awaiting(w)) /\ (AsksFor(v) <=> AsksFor(w))
  BY <1>1 DEF Awaiting, AsksFor
<1>5. StreamFits(v)
  <2>1. ASSUME NEW waits, Sent(w.script, w.link.sent["client"], w.client.commands,
                               w.link.acked["client"], waits)
        PROVE  Sent(v.script, v.link.sent["client"], v.client.commands,
                    v.link.acked["client"], waits)
    <3>1. Sent(w.script, w.link.sent["client"], w.client.commands, v.link.acked["client"], waits)
      BY <1>2, <1>3, <2>1, AckedStream
    <3> QED
      BY <1>1, <3>1, Zenon
  <2> QED
    BY <1>4, <2>1 DEF StreamFits, Flowing
<1>6. ServerFits(v)
  <2>1. w.link.acked["server"] = Len(w.link.sent["server"]) =>
          v.link.acked["server"] = Len(v.link.sent["server"])
    BY <1>1, <1>2, <1>3
  <2> QED
    BY <1>1, <2>1 DEF ServerFits, Flowing
<1>7. PostFits(v) /\ ~v.link.garbled /\ Transfers(v)
  BY <1>1 DEF PostFits, Flowing, Transfers, Querying
<1>8. ASSUME ~all_acked(v, "client") \/ v.link.acked["client"] = w.link.acked["client"]
      PROVE  ClientFits(v)
  <2>1. ClientFits(w)
    BY DEF Flowing
  <2>2. w.link.up["client"] =>
          (w.link.valid_send_handler["client"] <=>
             v.link.acked["client"] < Len(w.link.sent["client"]))
    <3> SUFFICES ASSUME w.link.up["client"]
                 PROVE  w.link.valid_send_handler["client"] <=>
                          v.link.acked["client"] < Len(w.link.sent["client"])
      OBVIOUS
    <3>1. w.link.valid_send_handler["client"] <=>
            w.link.acked["client"] < Len(w.link.sent["client"])
      BY <2>1 DEF ClientFits
    <3>2. ~w.link.valid_send_handler["client"] \/ v.link.acked["client"] # Len(w.link.sent["client"])
      <4>1. CASE ~all_acked(v, "client")
        BY <1>1, <4>1 DEF all_acked
      <4>2. CASE v.link.acked["client"] = w.link.acked["client"]
        BY <1>2, <3>1, <4>2
      <4> QED
        BY <1>8, <4>1, <4>2
    <3> QED
      BY <1>2, <1>3, <3>1, <3>2
  <2> QED
    BY <1>1, <1>4, <2>1, <2>2 DEF ClientFits
<1> QED
  BY <1>5, <1>6, <1>7, <1>8

\* A handler of the server keeps the whole of it.
LEMMA ServingNeat ==
  ASSUME NEW w, Transfers(w), StreamFits(w), ClientFits(w), NEW x, Serves(w, x), Serving(x)
  PROVE  Neat(x)
<1>1. StreamFits(x) /\ ClientFits(x) /\ Transfers(x)
  BY ServesStream
<1>2. IdleFits(x)
  BY <1>1, FlowingIdle DEF Serving, Transfers
<1> QED
  BY <1>1, <1>2 DEF Neat, Flowing, Serving

LEMMA ServerCallNeat ==
  ASSUME NEW w, Transfers(w), Neat(w), ~w.link.garbled, Drained(w, "server"),
         NEW v, Advances(w, v, "server")
  PROVE  Neat(call_rcv_handler(v, "server"))
<1>1. Flowing(w) /\ PostFits(w) /\ "server" \in Side /\ Other("server") = "client"
  BY Sides DEF Neat
<1>2. /\ Transfers(v) /\ StreamFits(v) /\ ServerFits(v) /\ PostFits(v) /\ ~v.link.garbled
      /\ ClientFits(v) /\ v.link.acked["client"] = w.link.acked["client"]
  BY <1>1, AdvancesNeat DEF Advances
<1>3. v.link.valid_rcv_handler["server"] => v.link.acked["client"] <= v.link.handed["server"]
  <2>1. w.link.valid_rcv_handler["server"] => w.link.acked["client"] <= w.link.handed["server"]
    BY StreamIs DEF Drained, Transfers
  <2> QED
    BY <1>2, <2>1 DEF Advances, Moves
<1>4. Served(v)
  BY <1>2, <1>3 DEF Served
<1>5. Serving(call_rcv_handler(v, "server"))
  BY <1>4, ServedCalled
<1>6. Serves(v, call_rcv_handler(v, "server"))
  BY <1>2, ServerCalled DEF Reads, Transfers
<1> QED
  BY <1>2, <1>5, <1>6, ServingNeat

LEMMA ServerAckNeat ==
  ASSUME NEW w, Transfers(w), Neat(w), ~w.link.garbled, Drained(w, "server"),
         NEW v, Advances(w, v, "server"), all_acked(v, "server")
  PROVE  Neat(call_rcv_handler(call_send_handler(v, "server"), "server"))
<1> DEFINE y == call_send_handler(v, "server")
<1>1. Flowing(w) /\ PostFits(w) /\ "server" \in Side /\ Other("server") = "client"
  BY Sides DEF Neat
<1>2. /\ Transfers(v) /\ StreamFits(v) /\ ServerFits(v) /\ PostFits(v) /\ ~v.link.garbled
      /\ ClientFits(v) /\ v.link.acked["client"] = w.link.acked["client"]
      /\ v.link.valid_send_handler["server"]
      /\ v.link.acked["server"] = Len(v.link.sent["server"])
  BY <1>1, AdvancesNeat DEF Advances, all_acked
<1>3. Served(v)
  BY <1>2 DEF Served, ServerFits
<1>4. Serving(y)
  BY <1>2, <1>3, ServedAcked
<1>5. Serves(v, y) /\ Drained(y, "server")
  BY <1>2, ServerAcked DEF Reads, Transfers
<1> HIDE DEF y
<1>6. Transfers(y) /\ StreamFits(y) /\ ClientFits(y)
  BY <1>2, <1>5, ServesStream
<1>7. y.link.valid_rcv_handler["server"] => y.link.acked["client"] <= y.link.handed["server"]
  BY <1>5, <1>6, StreamIs DEF Drained, Transfers
<1>8. Served(y)
  BY <1>4, <1>6, <1>7 DEF Served, Serving
<1>9. Serving(call_rcv_handler(y, "server"))
  BY <1>8, ServedCalled
<1>10. Serves(y, call_rcv_handler(y, "server"))
  BY <1>6, ServerCalled DEF Reads, Transfers
<1>11. Neat(call_rcv_handler(y, "server"))
  BY <1>6, <1>9, <1>10, ServingNeat
<1> QED
  BY <1>11 DEF y

LEMMA ServerDownNeat ==
  ASSUME NEW w, Transfers(w), Neat(w), ~w.link.garbled
  PROVE  Neat(take_down(fta_server_fin(w), "server"))
<1> DEFINE y == fta_server_fin(w)
           x == take_down(y, "server")
<1>1. Listens(w, y) /\ y.posted = w.posted
  BY ServerFin, ServerFinPosted DEF Transfers
<1> HIDE DEF y
<1>2. Transfers(y) /\ StreamFits(y) /\ ClientFits(y) /\ PostFits(y) /\ ~y.link.garbled
  <2>1. Serves(w, y) /\ y.link.garbled = w.link.garbled /\ y.script = w.script
    BY <1>1 DEF Listens, Serves, Same
  <2> QED
    BY <1>1, <2>1, ServesStream DEF Neat, Flowing, PostFits
<1>3. TakesDown(y, "server", x) /\ Other("server") = "client"
  BY <1>2, TypedDown, Sides DEF Transfers
<1> HIDE DEF x
<1>4. /\ x.script = y.script /\ x.client = y.client /\ x.posted = y.posted
      /\ x.link.sent = y.link.sent /\ x.link.acked = y.link.acked
      /\ x.link.garbled = y.link.garbled /\ x.link.send_handler = y.link.send_handler
      /\ ~x.link.valid_rcv_handler["server"] /\ ~x.link.valid_send_handler["server"]
      /\ x.link.up["client"] = y.link.up["client"]
      /\ x.link.valid_rcv_handler["client"] = y.link.valid_rcv_handler["client"]
      /\ x.link.valid_send_handler["client"] = y.link.valid_send_handler["client"]
  BY <1>3 DEF TakesDown
<1>5. (Awaiting(x) <=> Awaiting(y)) /\ (AsksFor(x) <=> AsksFor(y))
  BY <1>4 DEF Awaiting, AsksFor
<1>6. StreamFits(x)
  BY <1>2, <1>4, <1>5, Zenon DEF StreamFits
<1>7. ClientFits(x)
  BY <1>2, <1>4, <1>5 DEF ClientFits
<1>8. ServerFits(x) /\ IdleFits(x) /\ PostFits(x) /\ ~x.link.garbled
  BY <1>2, <1>4 DEF ServerFits, IdleFits, PostFits
<1> QED
  BY <1>6, <1>7, <1>8 DEF Neat, Flowing, x, y

-----------------------------------------------------------------------------
(* The client's end of a plain file transfer *)

\* A handler of the client leaves what the server has read and stored.
LEMMA ActsServer ==
  ASSUME NEW w, NEW x, Transfers(w), Acts(w, x)
  PROVE  /\ Transfers(x)
         /\ PostFits(w) => PostFits(x)
         /\ x.link.sent["client"] = w.link.sent["client"] /\ ServerFits(w) => ServerFits(x)
<1>1. /\ x.script = w.script /\ x.posted = w.posted /\ x.link.acked = w.link.acked
      /\ x.link.sent["server"] = w.link.sent["server"]
      /\ x.link.handed["server"] = w.link.handed["server"]
      /\ x.link.rcv_handler["server"] = w.link.rcv_handler["server"]
      /\ x.link.valid_rcv_handler["server"] = w.link.valid_rcv_handler["server"]
      /\ x.link.valid_send_handler["server"] = w.link.valid_send_handler["server"]
      /\ Typed(x)
  BY DEF Acts, Same
<1> QED
  BY <1>1 DEF Transfers, Querying, PostFits, ServerFits

\* It sends more: the server's program has been given what it had.
LEMMA ActsMore ==
  ASSUME NEW w, NEW x, Transfers(w), Acts(w, x), NEW m \in Seq(Unit),
         x.link.sent["client"] = w.link.sent["client"] \o m
  PROVE  /\ IdleFits(w) => IdleFits(x)
         /\ ServerFits(w) /\ ~(w.link.valid_send_handler["server"] /\ m # <<>>) => ServerFits(x)
<1> DEFINE q == w.link.sent["client"]
           r == x.link.sent["client"]
           b == w.link.handed["server"]
           s == w.script
<1>1. /\ x.script = w.script /\ x.posted = w.posted /\ x.link.acked = w.link.acked
      /\ x.link.sent["server"] = w.link.sent["server"]
      /\ x.link.handed["server"] = w.link.handed["server"]
      /\ x.link.rcv_handler["server"] = w.link.rcv_handler["server"]
      /\ x.link.valid_rcv_handler["server"] = w.link.valid_rcv_handler["server"]
      /\ x.link.valid_send_handler["server"] = w.link.valid_send_handler["server"]
  BY DEF Acts, Same
<1>2. q \in Seq(Unit) /\ Len(q) \in Nat /\ b \in Nat /\ b <= Len(q)
  BY StreamIs DEF Transfers
<1>3. \A p \in 1..b : r[p] = q[p]
  BY <1>2
<1>4. b > 0 => r[b] = q[b]
  BY <1>2, <1>3
<1> HIDE DEF q, r, b, s
<1>5. ASSUME IdleFits(w) PROVE IdleFits(x)
  <2> SUFFICES ASSUME x.link.valid_rcv_handler["server"],
                      x.link.rcv_handler["server"].name = "rcv_respond"
               PROVE  /\ ~x.link.valid_send_handler["server"]
                      /\ \A p \in 1..b : LastAt(x, p) /\ Uploads(s[r[p].n]) =>
                           w.posted = Message("post", r[p].n, s[r[p].n].post)
    BY <1>1 DEF IdleFits, b, r, s
  <2>1. /\ ~w.link.valid_send_handler["server"]
        /\ \A p \in 1..b : LastAt(w, p) /\ Uploads(s[q[p].n]) =>
             w.posted = Message("post", q[p].n, s[q[p].n].post)
    BY <1>1, <1>5 DEF IdleFits, b, q, s
  <2>2. ASSUME NEW p \in 1..b, LastAt(x, p) PROVE LastAt(w, p)
    <3>1. \A t \in p + 1..b : t \in 1..b
      BY <1>2
    <3> QED
      BY <1>1, <1>3, <2>2, <3>1 DEF LastAt, b, q, r
  <2> QED
    BY <1>1, <1>3, <2>1, <2>2
<1>6. ASSUME ServerFits(w), ~(w.link.valid_send_handler["server"] /\ m # <<>>)
      PROVE  ServerFits(x)
  <2>1. Ends(s, q, b, w.posted) => Ends(s, r, b, w.posted)
    BY <1>4 DEF Ends
  <2>2. ASSUME NEW h, Storing(s, q, b, h, w.posted) PROVE Storing(s, r, b, h, w.posted)
    BY <1>4, <2>2 DEF Storing
  <2>3. m = <<>> => r = q
    BY <1>2 DEF q, r
  <2>4. ServerFits(w) => ServerFits(x)
    <3>1. CASE m = <<>>
      BY <1>1, <2>3, <3>1 DEF ServerFits, q, r, b, s
    <3>2. CASE ~w.link.valid_send_handler["server"]
      BY <1>1, <2>1, <2>2, <3>2 DEF ServerFits, q, r, b, s
    <3> QED
      BY <1>6, <3>1, <3>2
  <2> QED
    BY <1>6, <2>4
<1> QED
  BY <1>5, <1>6

\* A file that a handler takes does not change what is sent.
LEMMA HearsStream ==
  ASSUME NEW w, NEW x, Transfers(w), Hears(w, x)
  PROVE  /\ Transfers(x)
         /\ StreamFits(w) => StreamFits(x)
         /\ PostFits(w) => PostFits(x)
         /\ ServerFits(w) => ServerFits(x)
         /\ x.link.garbled = w.link.garbled
         /\ Awaiting(x) <=> Awaiting(w)
<1>1. /\ Acts(w, x) /\ x.script = w.script /\ x.client.commands = w.client.commands
      /\ x.link.sent = w.link.sent /\ x.link.acked = w.link.acked
      /\ x.link.garbled = w.link.garbled
      /\ x.link.send_handler = w.link.send_handler
      /\ x.link.valid_send_handler = w.link.valid_send_handler
  BY DEF Hears, Acts, Same
<1>2. Awaiting(x) <=> Awaiting(w)
  BY <1>1 DEF Awaiting
<1>3. StreamFits(w) => StreamFits(x)
  BY <1>1, <1>2, Zenon DEF StreamFits
<1> QED
  BY <1>1, <1>2, <1>3, ActsServer

\* And leaves the client's end as it should be, when nothing is unacknowledged.
LEMMA HearsClient ==
  ASSUME NEW w, NEW x, Hears(w, x), ClientFits(w), ~w.link.valid_send_handler["client"],
         x.client.prompt \in {w.client.prompt, "ask"}
  PROVE  ClientFits(x)
<1>1. /\ x.script = w.script /\ x.client.commands = w.client.commands
      /\ x.link.up = w.link.up
      /\ x.link.sent = w.link.sent /\ x.link.acked = w.link.acked
      /\ x.link.send_handler = w.link.send_handler
      /\ x.link.valid_send_handler = w.link.valid_send_handler
  BY DEF Hears, Acts, Same
<1>2. AsksFor(x) => x.client.prompt = "ask"
  BY DEF ClientFits, AsksFor
<1> QED
  BY <1>1, <1>2 DEF ClientFits

LEMMA GetsPrompt ==
  ASSUME NEW w, NEW h, NEW data, NEW x, Typed(w), GetsFile(w, h, data, x)
  PROVE  x.client.prompt \in {w.client.prompt, "ask"}
<1>1. w.client \in Client
  BY DEF Typed, World
<1> QED
  BY <1>1 DEF GetsFile, Client

\* call_rcv_handler at the client.
LEMMA CalledNeat ==
  ASSUME NEW w, Transfers(w), Flowing(w), PostFits(w)
  PROVE  LET x == call_rcv_handler(w, "client") IN
         Transfers(x) /\ Flowing(x) /\ PostFits(x)
<1> DEFINE x == call_rcv_handler(w, "client")
           y == hand_over(w, "client")
<1>1. CASE ~w.link.valid_rcv_handler["client"]
  <2>1. x = w
    BY <1>1 DEF call_rcv_handler
  <2> QED
    BY <2>1
<1>2. CASE w.link.valid_rcv_handler["client"]
  <2>1. /\ GetsFile(y, w.link.rcv_handler["client"], unread(w, "client"), x)
        /\ Hears(w, x)
    BY <1>2, ClientCalled DEF Transfers
  <2>2. Hears(w, y) /\ y.client = w.client
    BY HandOverHears DEF Transfers
  <2> HIDE DEF x, y
  <2>3. x.client.prompt \in {w.client.prompt, "ask"}
    BY <2>1, <2>2, GetsPrompt DEF Hears, Acts
  <2>4. ClientFits(x)
    <3>1. ClientFits(w) /\ ~w.link.valid_send_handler["client"]
      BY <1>2 DEF Flowing, ClientFits
    <3> QED
      BY <2>1, <2>3, <3>1, HearsClient
  <2>5. Transfers(x) /\ StreamFits(x) /\ PostFits(x) /\ ServerFits(x) /\ ~x.link.garbled
    BY <2>1, HearsStream DEF Flowing
  <2> QED
    BY <2>4, <2>5 DEF Flowing, x
<1> QED
  BY <1>1, <1>2

\* What handle_req waits for leaves the prompt, or asks.
LEMMA StartsGetPrompt ==
  ASSUME NEW w, Typed(w), ~Querying(w), NEW y, StartsGet(w, y)
  PROVE  y.client.prompt \in {w.client.prompt, "ask"}
<1>1. CASE y = w
  BY <1>1
<1>2. ASSUME NEW x, Starts(w, x), y = x \/ y = call_rcv_handler(x, "client")
      PROVE  y.client.prompt \in {w.client.prompt, "ask"}
  <2>1. Typed(x) /\ ~Querying(x) /\ x.link.valid_rcv_handler["client"]
    BY <1>2 DEF Starts, Hears, Acts, Same, Querying
  <2>2. x.client.prompt = w.client.prompt
    <3>1. w.client \in Client /\ x.client = [w.client EXCEPT !.not_receiving = FALSE]
      BY <1>2 DEF Starts, Typed, World
    <3> QED
      BY <3>1 DEF Client
  <2>3. call_rcv_handler(x, "client").client.prompt \in {x.client.prompt, "ask"}
    <3> DEFINE z == hand_over(x, "client")
               u == call_rcv_handler(x, "client")
    <3>1. GetsFile(z, x.link.rcv_handler["client"], unread(x, "client"), u)
      BY <2>1, ClientCalled
    <3>2. Hears(x, z) /\ z.client = x.client
      BY <2>1, HandOverHears
    <3> HIDE DEF z, u
    <3>3. u.client.prompt \in {x.client.prompt, "ask"}
      BY <3>1, <3>2, GetsPrompt DEF Hears, Acts
    <3> QED
      BY <3>3 DEF u
  <2> QED
    BY <1>2, <2>2, <2>3
<1> QED
  BY <1>1, <1>2 DEF StartsGet

\* All that the client has sent is acknowledged, and its send handler is called.
Acked(w) ==
  /\ Transfers(w) /\ StreamFits(w) /\ ServerFits(w) /\ PostFits(w) /\ ~w.link.garbled
  /\ w.link.valid_send_handler["client"]
  /\ w.link.acked["client"] = Len(w.link.sent["client"])
  /\ ~w.link.valid_rcv_handler["client"] /\ ~AsksFor(w)

\* What a client is left with that has nothing more to send.
LEMMA AckedClient ==
  ASSUME NEW x, Typed(x), ~x.link.valid_send_handler["client"],
         x.link.acked["client"] = Len(x.link.sent["client"]),
         AsksFor(x) => x.client.prompt = "ask",
         x.link.send_handler["client"] = "handle_req" /\ x.client.commands > 0 =>
           ~Posts(x.script[x.client.commands])
  PROVE  ClientFits(x)
<1>1. ~(x.link.acked["client"] < Len(x.link.sent["client"]))
  BY StreamIs
<1> QED
  BY <1>1 DEF ClientFits

LEMMA UploadIs ==
  ASSUME NEW w, Typed(w), NEW n \in 1..Len(w.script)
  PROVE  LET m == UploadOf(w.script, n) IN
         /\ w.script[n].post \in Int
         /\ m \in Seq(Unit)
         /\ m # <<>> <=> w.script[n].post > 0
         /\ w.script[n].post > 0 => Len(m) > 0
<1>1. w.script[n].post \in Int /\ n \in Nat /\ "post" \in Kinds
  BY PostSize DEF Kinds
<1> DEFINE size == w.script[n].post
           f == Message("post", n, size)
<1>2. f \in Seq(Unit) /\ Len(f) = IF size > 0 THEN size ELSE 0
  BY <1>1, MessageIs
<1>3. UploadOf(w.script, n) = IF size > 0 THEN f ELSE <<>>
  BY DEF UploadOf
<1> HIDE DEF f, size
<1>4. size > 0 => f # <<>> /\ Len(f) > 0
  BY <1>1, <1>2, EmptySeq DEF size
<1>5. size \in Int
  BY <1>1 DEF size
<1> QED
  BY <1>2, <1>3, <1>4, <1>5, EmptySeq DEF size

\* Behind a request for a file there is none to post.
LEMMA SendingLast ==
  ASSUME NEW w, Transfers(w), ServerFits(w), w.link.valid_send_handler["server"],
         NEW n, NEW a, Sent(w.script, w.link.sent["client"], n, a, TRUE)
  PROVE  ~Posts(w.script[n])
<1> DEFINE s == w.script
           q == w.link.sent["client"]
           b == w.link.handed["server"]
<1>1. q \in Seq(Unit) /\ Len(q) \in Nat /\ b \in Nat /\ b <= Len(q)
  BY StreamIs DEF Transfers
<1>2. b > 0 /\ q[b].kind = "request" /\ Gets(s[q[b].n])
  BY DEF ServerFits, Sending
<1>3. q[Len(q)] = Segment("request", n, 0)
  BY DEF Sent, Stream
<1> HIDE DEF s, q, b
<1>4. b \in 1..Len(q) /\ Len(q) \in b..Len(q)
  BY <1>1, <1>2
<1>5. Sent(s, q, n, a, TRUE)
  BY DEF s, q
<1>6. RequestAt(s, q, n, a, TRUE, b)
  BY <1>2, <1>4, <1>5, SentIs
<1>7. ~Posts(s[q[Len(q)].n])
  BY <1>2, <1>4, <1>6 DEF RequestAt
<1>8. q[Len(q)].n = n
  BY <1>3 DEF Segment
<1> QED
  BY <1>7, <1>8 DEF s

\* The file that a request announces is sent when the request is acknowledged.
LEMMA PostAcked ==
  ASSUME NEW w, Acked(w), w.link.send_handler["client"] = "handle_req", NEW n, n = w.client.commands,
         n \in 1..Len(w.script), Posts(w.script[n]),
         NEW z, Clears(w, "client", z)
  PROVE  LET x == client_post(z, n) IN
         Transfers(x) /\ Flowing(x) /\ PostFits(x)
<1> DEFINE x == client_post(z, n)
           s == w.script
           q == w.link.sent["client"]
           m == UploadOf(s, n)
           a == w.link.acked["client"]
<1>1. /\ Typed(z) /\ z.script = w.script /\ z.client = w.client /\ z.posted = w.posted
      /\ z.link.up = w.link.up /\ z.link.acked = w.link.acked
      /\ z.link.sent = w.link.sent /\ z.link.handed = w.link.handed
      /\ z.link.garbled = w.link.garbled
      /\ z.link.rcv_handler = w.link.rcv_handler
      /\ z.link.valid_rcv_handler = w.link.valid_rcv_handler
      /\ z.link.valid_send_handler["server"] = w.link.valid_send_handler["server"]
  BY Sides DEF Clears, Same
<1>2. Transfers(z) /\ ServerFits(z) /\ PostFits(z)
  BY <1>1 DEF Acked, Transfers, Querying, ServerFits, PostFits
<1>3. /\ ClientPosts(z, x)
      /\ x.link.sent["client"] = q \o m
      /\ x.link.valid_send_handler["client"] <=> m # <<>>
  <2>1. /\ ClientPosts(z, x)
        /\ x.link.sent["client"] = z.link.sent["client"] \o UploadOf(z.script, n)
        /\ x.link.valid_send_handler["client"] <=> UploadOf(z.script, n) # <<>>
    <3>1. Typed(z) /\ ~Querying(z) /\ n \in 1..Len(z.script)
      BY <1>1, <1>2 DEF Transfers
    <3> QED
      BY <3>1, ClientPostIs, Zenon
  <2> HIDE DEF x
  <2> QED
    BY <1>1, <2>1, Zenon
<1>4. s[n].post \in Int /\ m \in Seq(Unit) /\ (m # <<>> <=> s[n].post > 0)
      /\ (s[n].post > 0 => Len(m) > 0) /\ q \in Seq(Unit) /\ Len(q) \in Nat /\ a = Len(q)
      /\ (Uploads(s[n]) <=> s[n].post > 0)
  BY StreamIs, UploadIs DEF Acked, Transfers, Uploads
<1>5. Sent(s, q, n, a, TRUE)
  BY DEF Acked, StreamFits, Awaiting
<1> HIDE DEF x
<1>6. /\ Acts(z, x) /\ x.script = s /\ x.client.commands = n /\ x.link.acked = w.link.acked
      /\ x.link.up = w.link.up
      /\ x.link.valid_rcv_handler = w.link.valid_rcv_handler
      /\ x.link.send_handler["client"] = "client_finish"
      /\ x.link.garbled <=> w.link.garbled \/ a < Len(q)
      /\ x.client.prompt # w.client.prompt => x.client.prompt = "ask"
  BY <1>1, <1>3 DEF ClientPosts, Acts, Same
<1>7. Transfers(x) /\ PostFits(x) /\ ~x.link.garbled
  BY <1>2, <1>4, <1>6, ActsServer DEF Acked
<1>8. ~(z.link.valid_send_handler["server"] /\ m # <<>>)
  BY <1>1, <1>5, SendingLast DEF Acked
<1>9. ServerFits(x)
  <2>1. x.link.sent["client"] = z.link.sent["client"] \o m
    BY <1>1, <1>3
  <2> HIDE DEF m
  <2> QED
    BY <1>2, <1>4, <1>6, <1>8, <2>1, ActsMore
<1>10. StreamFits(x)
  <2>1. ~Awaiting(x)
    BY <1>6 DEF Awaiting
  <2>2. Sent(s, q \o m, n, a, FALSE)
    <3>1. CASE Uploads(s[n])
      <4>1. m = Message("post", n, s[n].post)
        BY <3>1 DEF UploadOf, Uploads
      <4> QED
        BY <1>4, <1>5, <3>1, <4>1, PostSent
    <3>2. CASE ~Uploads(s[n])
      <4>1. m = <<>> /\ q \o <<>> = q
        BY <1>4, <3>2
      <4> QED
        BY <1>5, <3>2, <4>1, NothingToPost
    <3> QED
      BY <3>1, <3>2
  <2> QED
    BY <1>3, <1>6, <2>1, <2>2, Zenon DEF StreamFits
<1>11. ClientFits(x)
  <2>1. ~x.link.valid_rcv_handler["client"] /\ (AsksFor(x) => x.client.prompt = "ask")
    BY <1>6 DEF Acked, AsksFor
  <2>2. CASE m = <<>>
    <3>1. q \o <<>> = q
      BY <1>4
    <3> QED
      BY <1>3, <1>4, <1>6, <1>7, <2>1, <2>2, <3>1, AckedClient DEF Transfers
  <2>3. CASE m # <<>>
    <3>1. a < Len(x.link.sent["client"])
      <4>1. Len(m) \in Nat /\ Len(m) > 0 /\ Len(q \o m) = Len(q) + Len(m)
        BY <1>4, <2>3, LenProperties, ConcatProperties
      <4> QED
        <5>1. Len(q) \in Nat /\ a = Len(q)
          BY <1>4
        <5> HIDE DEF q, m, a
        <5>2. a < Len(q \o m)
          BY <4>1, <5>1
        <5> QED
          BY <1>3, <5>2, Zenon
    <3>2. x.client.prompt = w.client.prompt
      <4>1. x = async_send([z EXCEPT !.client.not_sending = FALSE], "client", m, "client_finish")
        <5>1. s[n].post > 0 /\ z.script = s
          BY <1>1, <1>4, <2>3
        <5> QED
          BY <5>1, Zenon DEF client_post, x, UploadOf
      <4>2. z.client \in Client /\ z \in World
        BY <1>1 DEF Typed, World
      <4> QED
        BY <1>1, <4>1, <4>2 DEF async_send, World, Client
    <3> QED
      BY <1>3, <1>6, <2>1, <2>3, <3>1, <3>2 DEF ClientFits, Acked, AsksFor
  <2> QED
    BY <2>2, <2>3
<1> QED
  BY <1>7, <1>9, <1>10, <1>11 DEF Flowing, x

\* What call_send_handler does before the handler leaves the rest as it was.
LEMMA ClearIs ==
  ASSUME NEW w, Acked(w), NEW z, Clears(w, "client", z)
  PROVE  /\ Transfers(z) /\ ServerFits(z) /\ PostFits(z) /\ ~z.link.garbled
         /\ z.script = w.script /\ z.client = w.client
         /\ z.link.sent = w.link.sent /\ z.link.acked = w.link.acked
         /\ z.link.send_handler = w.link.send_handler
         /\ ~z.link.valid_send_handler["client"]
         /\ \A waits : Sent(w.script, w.link.sent["client"], w.client.commands,
                            w.link.acked["client"], waits) =>
                       Sent(z.script, z.link.sent["client"], z.client.commands,
                            z.link.acked["client"], waits)
<1>1. /\ Typed(z) /\ z.script = w.script /\ z.client = w.client /\ z.posted = w.posted
      /\ z.link.up = w.link.up /\ z.link.acked = w.link.acked
      /\ z.link.sent = w.link.sent /\ z.link.handed = w.link.handed
      /\ z.link.garbled = w.link.garbled /\ z.link.send_handler = w.link.send_handler
      /\ z.link.rcv_handler = w.link.rcv_handler
      /\ z.link.valid_rcv_handler = w.link.valid_rcv_handler
      /\ z.link.valid_send_handler["server"] = w.link.valid_send_handler["server"]
      /\ ~z.link.valid_send_handler["client"]
  BY Sides DEF Clears, Same
<1>2. Transfers(z) /\ ServerFits(z) /\ PostFits(z)
  BY <1>1 DEF Acked, Transfers, Querying, ServerFits, PostFits
<1> QED
  BY <1>1, <1>2 DEF Acked

\* A handler that sends nothing leaves a client that has nothing more to send.
LEMMA HeardAcked ==
  ASSUME NEW w, Acked(w), NEW z, Clears(w, "client", z), NEW x, Hears(z, x),
         x.client.prompt \in {w.client.prompt, "ask"},
         Sent(w.script, w.link.sent["client"], w.client.commands, w.link.acked["client"], FALSE),
         w.link.send_handler["client"] = "handle_req" => ~Posts(w.script[w.client.commands])
  PROVE  Transfers(x) /\ Flowing(x) /\ PostFits(x)
<1>1. /\ Transfers(z) /\ ServerFits(z) /\ PostFits(z) /\ ~z.link.garbled
      /\ z.script = w.script /\ z.client = w.client
      /\ z.link.sent = w.link.sent /\ z.link.acked = w.link.acked
      /\ z.link.send_handler = w.link.send_handler
      /\ ~z.link.valid_send_handler["client"]
      /\ Sent(z.script, z.link.sent["client"], z.client.commands, z.link.acked["client"], FALSE)
  BY ClearIs
<1>2. StreamFits(z)
  BY <1>1 DEF StreamFits, Awaiting
<1>3. Transfers(x) /\ StreamFits(x) /\ PostFits(x) /\ ServerFits(x) /\ ~x.link.garbled
  BY <1>1, <1>2, HearsStream
<1>4. /\ x.script = w.script /\ x.client.commands = w.client.commands
      /\ x.link.sent = w.link.sent /\ x.link.acked = w.link.acked
      /\ x.link.send_handler = w.link.send_handler
      /\ ~x.link.valid_send_handler["client"]
  BY <1>1 DEF Hears, Acts, Same
<1>5. ClientFits(x)
  <2>1. AsksFor(x) => x.client.prompt = "ask"
    BY DEF Acked, AsksFor
  <2>2. x.link.acked["client"] = Len(x.link.sent["client"])
    BY <1>4 DEF Acked
  <2>3. x.link.send_handler["client"] = "handle_req" => ~Posts(x.script[x.client.commands])
    BY <1>4
  <2> QED
    BY <1>3, <1>4, <2>1, <2>2, <2>3, AckedClient DEF Transfers
<1> QED
  BY <1>3, <1>5 DEF Flowing

\* handle_req, when the request is acknowledged.
LEMMA RequestAckedNeat ==
  ASSUME NEW w, Acked(w), w.link.send_handler["client"] = "handle_req",
         NEW z, Clears(w, "client", z)
  PROVE  LET x == handle_req(z) IN Transfers(x) /\ Flowing(x) /\ PostFits(x)
<1> DEFINE n == w.client.commands
           c == w.script[n]
           x == handle_req(z)
<1>1. /\ Transfers(z) /\ z.script = w.script /\ z.client = w.client /\ n \in 1..Len(w.script)
      /\ z.client.commands > 0
  <2>1. Transfers(z) /\ z.script = w.script /\ z.client = w.client
    BY ClearIs
  <2>2. n > 0 /\ n \in Nat /\ Len(w.script) \in Nat /\ n <= Len(w.script)
    BY StreamIs DEF Acked, Transfers, Typed, CommandsFit
  <2> QED
    BY <2>1, <2>2
<1>2. /\ ~Posts(c) => StartsGet(z, x)
      /\ Posts(c) /\ ~Gets(c) /\ z.client.prompt # "ask" => x = client_post(z, n)
  <2>1. /\ ~Posts(z.script[z.client.commands]) => StartsGet(z, x)
        /\ Posts(z.script[z.client.commands]) /\ ~Gets(z.script[z.client.commands])
             /\ z.client.prompt # "ask" => x = client_post(z, z.client.commands)
    BY <1>1, HandleReqIs DEF Transfers
  <2> HIDE DEF x
  <2> QED
    BY <1>1, <2>1, Zenon
<1> HIDE DEF x
<1>3. CASE Posts(c)
  <2>1. ~Gets(c)
    <3>1. c.name # "get-post"
      BY <1>1 DEF Acked, Transfers, Plain
    <3> QED
      BY <1>3, <3>1 DEF Posts, Gets
  <2>2. z.client.prompt # "ask"
    BY <1>1 DEF Acked, AsksFor
  <2>3. x = client_post(z, n)
    BY <1>2, <1>3, <2>1, <2>2
  <2>4. Transfers(client_post(z, n)) /\ Flowing(client_post(z, n)) /\ PostFits(client_post(z, n))
    BY <1>1, <1>3, PostAcked
  <2> QED
    BY <2>3, <2>4 DEF x
<1>4. CASE ~Posts(c)
  <2>1. StartsGet(z, x)
    BY <1>2, <1>4
  <2>2. Hears(z, x) /\ x.client.prompt \in {w.client.prompt, "ask"}
    BY <1>1, <2>1, StartsGetActs, StartsGetPrompt DEF Transfers
  <2>3. Sent(w.script, w.link.sent["client"], n, w.link.acked["client"], FALSE)
    <3>1. Sent(w.script, w.link.sent["client"], n, w.link.acked["client"], TRUE)
      BY DEF Acked, StreamFits, Awaiting
    <3> QED
      BY <1>4, <3>1, NothingToPost DEF Uploads
  <2> QED
    BY <1>4, <2>2, <2>3, HeardAcked DEF x
<1> QED
  BY <1>3, <1>4

\* call_send_handler at the client.
LEMMA ClientAcked ==
  ASSUME NEW w, Acked(w)
  PROVE  LET x == call_send_handler(w, "client") IN Transfers(x) /\ Flowing(x) /\ PostFits(x)
<1> DEFINE z == Clear(w, "client")
           x == call_send_handler(w, "client")
           h == w.link.send_handler["client"]
<1>1. Clears(w, "client", z)
  BY TypedClear, Sides DEF Acked, Transfers
<1>2. h \in {"handle_req", "client_finish"}
  BY DEF Acked, Transfers, Typed, HandlersFit
<1>3. CASE h = "handle_req"
  <2>1. x = handle_req(z)
    BY <1>3, Zenon DEF call_send_handler, Clear
  <2> HIDE DEF z, x
  <2>2. Transfers(handle_req(z)) /\ Flowing(handle_req(z)) /\ PostFits(handle_req(z))
    BY <1>1, <1>3, RequestAckedNeat
  <2> QED
    BY <2>1, <2>2 DEF x
<1>4. CASE h = "client_finish"
  <2>1. x = client_finish(z, FALSE)
    BY <1>4 DEF call_send_handler, Clear
  <2> HIDE DEF z, x
  <2>2. Typed(z) /\ z.client = w.client
    BY <1>1, ClearIs DEF Transfers
  <2>3. Finishes(z, FALSE, x)
    BY <2>1, <2>2, FinishIs
  <2>4. Hears(z, x) /\ x.client.prompt \in {w.client.prompt, "ask"}
    BY <2>2, <2>3 DEF Finishes, Changes
  <2>5. Sent(w.script, w.link.sent["client"], w.client.commands, w.link.acked["client"], FALSE)
    BY <1>4 DEF Acked, StreamFits, Awaiting
  <2> QED
    BY <1>1, <1>4, <2>4, <2>5, HeardAcked DEF x
<1> QED
  BY <1>2, <1>3, <1>4

LEMMA FlowingNeat ==
  ASSUME NEW x, Transfers(x), Flowing(x), PostFits(x)
  PROVE  Neat(x)
<1>1. IdleFits(x)
  BY FlowingIdle DEF Transfers, Flowing
<1> QED
  BY <1>1 DEF Neat, Flowing

LEMMA ClientCallNeat ==
  ASSUME NEW w, Transfers(w), Neat(w), ~w.link.garbled,
         NEW v, Advances(w, v, "client"), ~all_acked(v, "client") \/ v.link.acked = w.link.acked
  PROVE  Neat(call_rcv_handler(v, "client"))
<1>1. Flowing(w) /\ PostFits(w) /\ "client" \in Side
  BY Sides DEF Neat
<1>2. Transfers(v) /\ Flowing(v) /\ PostFits(v)
  BY <1>1, AdvancesNeat DEF Flowing
<1> QED
  BY <1>2, CalledNeat, FlowingNeat

LEMMA ClientAckNeat ==
  ASSUME NEW w, Transfers(w), Neat(w), ~w.link.garbled, ~AsksFor(w),
         NEW v, Advances(w, v, "client"), all_acked(v, "client")
  PROVE  Neat(call_rcv_handler(call_send_handler(v, "client"), "client"))
<1> DEFINE y == call_send_handler(v, "client")
<1>1. Flowing(w) /\ PostFits(w) /\ "client" \in Side
  BY Sides DEF Neat
<1>2. Transfers(v) /\ StreamFits(v) /\ ServerFits(v) /\ PostFits(v) /\ ~v.link.garbled
  BY <1>1, AdvancesNeat
<1>3. /\ v.link.valid_send_handler["client"]
      /\ v.link.acked["client"] = Len(v.link.sent["client"])
  BY DEF all_acked
<1>4. ~v.link.valid_rcv_handler["client"] /\ ~AsksFor(v)
  BY <1>1, <1>3 DEF Advances, Moves, Flowing, ClientFits, AsksFor
<1>5. Acked(v)
  BY <1>2, <1>3, <1>4 DEF Acked
<1>6. Transfers(y) /\ Flowing(y) /\ PostFits(y)
  BY <1>5, ClientAcked
<1> HIDE DEF y
<1>7. Neat(call_rcv_handler(y, "client"))
  BY <1>6, CalledNeat, FlowingNeat
<1> QED
  BY <1>7 DEF y

\* The client's end is taken down: the upload that handle_req begins is garbled,
\* since its request is not acknowledged.
LEMMA TakenDown ==
  ASSUME NEW z, Transfers(z), PostFits(z), IdleFits(z), ~AsksFor(z),
         z.link.garbled \/
           /\ StreamFits(z) /\ ServerFits(z)
           /\ Awaiting(z) => ~Posts(z.script[z.client.commands])
  PROVE  Neat(take_down(z, "client"))
<1> DEFINE x == take_down(z, "client")
<1>1. TakesDown(z, "client", x) /\ Other("client") = "server"
  BY TypedDown, Sides DEF Transfers
<1> HIDE DEF x
<1>2. /\ x.script = z.script /\ x.client = z.client /\ x.posted = z.posted
      /\ x.link.sent = z.link.sent /\ x.link.acked = z.link.acked
      /\ x.link.handed = z.link.handed /\ x.link.rcv_handler = z.link.rcv_handler
      /\ x.link.garbled = z.link.garbled
      /\ ~x.link.valid_rcv_handler["client"] /\ ~x.link.valid_send_handler["client"]
      /\ ~x.link.up["client"]
      /\ x.link.valid_rcv_handler["server"] = z.link.valid_rcv_handler["server"]
      /\ x.link.valid_send_handler["server"] = z.link.valid_send_handler["server"]
  BY <1>1 DEF TakesDown
<1>3. PostFits(x) /\ IdleFits(x)
  BY <1>2 DEF PostFits, IdleFits, LastAt
<1>4. ASSUME ~z.link.garbled PROVE Flowing(x)
  <2>1. ~Awaiting(x) /\ ~AsksFor(x)
    BY <1>2 DEF Awaiting, AsksFor
  <2>2. Sent(z.script, z.link.sent["client"], z.client.commands, z.link.acked["client"], FALSE)
    <3>1. CASE Awaiting(z)
      <4>1. Sent(z.script, z.link.sent["client"], z.client.commands, z.link.acked["client"], TRUE)
        BY <1>4, <3>1, Zenon DEF StreamFits
      <4>2. ~Uploads(z.script[z.client.commands])
        BY <1>4, <3>1 DEF Uploads
      <4> QED
        BY <4>1, <4>2, NothingToPost
    <3>2. CASE ~Awaiting(z)
      BY <1>4, <3>2, Zenon DEF StreamFits
    <3> QED
      BY <3>1, <3>2
  <2>3. StreamFits(x)
    BY <1>2, <2>1, <2>2, Zenon DEF StreamFits
  <2>4. ServerFits(x)
    BY <1>2, <1>4 DEF ServerFits
  <2>5. ClientFits(x)
    BY <1>2, <2>1 DEF ClientFits
  <2> QED
    BY <1>2, <1>4, <2>3, <2>4, <2>5 DEF Flowing
<1> QED
  BY <1>2, <1>3, <1>4 DEF Neat, x

LEMMA ClientDownNeat ==
  ASSUME NEW w, Transfers(w), Neat(w), ~w.link.garbled, w.link.up["client"], ~AsksFor(w)
  PROVE  Neat(take_down(fta_client_fin(w), "client"))
<1> DEFINE asked == w.link.send_handler["client"] = "handle_req"
           n == w.client.commands
           y == IF asked THEN handle_req(w) ELSE w
           z == fta_client_fin(w)
           end(p) == [y EXCEPT !.client.prompt = p]
<1>1. /\ Typed(w) /\ ~Querying(w) /\ Flowing(w) /\ PostFits(w) /\ IdleFits(w)
      /\ asked => n \in 1..Len(w.script) /\ n > 0
  <2>1. Typed(w) /\ n \in Nat /\ n <= Len(w.script) /\ Len(w.script) \in Nat
    BY StreamIs DEF Transfers
  <2>2. asked => n > 0
    BY <2>1 DEF Typed, CommandsFit
  <2> QED
    BY <2>1, <2>2 DEF Neat, Transfers
<1>2. \E p \in {"gone", "stuck"} : z = end(p)
  BY Zenon DEF fta_client_fin
<1>3. asked /\ ~Posts(w.script[n]) => Hears(w, y)
  <2> SUFFICES ASSUME asked, ~Posts(w.script[n]) PROVE Hears(w, handle_req(w))
    BY DEF y
  <2>1. StartsGet(w, handle_req(w))
    BY <1>1, HandleReqIs
  <2> QED
    BY <1>1, <2>1, StartsGetActs
<1>4. ~asked => Hears(w, y)
  BY <1>1 DEF Hears, Acts, Same
<1>5. asked /\ Posts(w.script[n]) =>
        /\ Acts(w, y) /\ y.link.garbled
        /\ \E m \in Seq(Unit) : y.link.sent["client"] = w.link.sent["client"] \o m
  <2> SUFFICES ASSUME asked, Posts(w.script[n])
               PROVE  LET x == handle_req(w) IN
                      /\ Acts(w, x) /\ x.link.garbled
                      /\ \E m \in Seq(Unit) : x.link.sent["client"] = w.link.sent["client"] \o m
    BY DEF y
  <2>1. w.link.acked["client"] < Len(w.link.sent["client"])
    BY <1>1 DEF Flowing, ClientFits
  <2>2. ~Gets(w.script[n])
    <3>1. w.script[n].name # "get-post"
      BY <1>1 DEF Transfers, Plain
    <3> QED
      BY <3>1 DEF Posts, Gets
  <2>3. w.client.prompt # "ask"
    BY DEF AsksFor
  <2>4. handle_req(w) = client_post(w, n)
    BY <1>1, <2>2, <2>3, HandleReqIs
  <2>5. ClientPosts(w, client_post(w, n))
    BY <1>1, ClientPostIs
  <2> QED
    BY <2>1, <2>4, <2>5, Zenon DEF ClientPosts
<1> HIDE DEF y, z
<1>6. Acts(w, y)
  BY <1>3, <1>4, <1>5 DEF Hears
<1>7. Changes(y, z) /\ ~AsksFor(z)
  <2>1. PICK p \in {"gone", "stuck"} : z = end(p)
    BY <1>2
  <2>2. Typed(y)
    BY <1>6 DEF Acts
  <2>3. /\ z \in World /\ z.link = y.link /\ z.script = y.script
        /\ z.server = y.server /\ z.posted = y.posted
        /\ z.client = [y.client EXCEPT !.prompt = p]
        /\ z.client.commands = y.client.commands /\ z.client.prompt = p
    BY <2>1, <2>2 DEF Typed, World, Client, Prompts
  <2>4. z.client.prompt # "ask_then_post" /\ ~AsksFor(z)
    BY <2>3 DEF AsksFor
  <2> QED
    BY <2>2, <2>3, <2>4, ChangesRest
<1>8. Acts(w, z)
  BY <1>6, <1>7, ActsAgain DEF Changes, Hears
<1>9. Transfers(z) /\ PostFits(z)
  BY <1>1, <1>8, ActsServer
<1>10. CASE asked /\ Posts(w.script[n])
  <2>1. PICK m \in Seq(Unit) : y.link.sent["client"] = w.link.sent["client"] \o m
    BY <1>5, <1>10
  <2>2. z.link.sent["client"] = w.link.sent["client"] \o m /\ z.link.garbled
    BY <1>5, <1>7, <1>10, <2>1 DEF Changes
  <2>3. IdleFits(z)
    BY <1>1, <1>8, <2>2, ActsMore
  <2> QED
    BY <1>7, <1>9, <2>2, <2>3, TakenDown DEF z
<1>11. CASE ~(asked /\ Posts(w.script[n]))
  <2>1. Hears(w, z)
    BY <1>3, <1>4, <1>7, <1>11, HearsAgain DEF Changes
  <2>2. StreamFits(z) /\ ServerFits(z) /\ ~z.link.garbled
    BY <1>1, <2>1, HearsStream DEF Flowing
  <2>3. IdleFits(z)
    BY <1>9, <2>2, FlowingIdle DEF Transfers
  <2>4. Awaiting(z) => ~Posts(z.script[z.client.commands])
    <3>1. z.client.commands = n /\ z.script = w.script /\ z.link.send_handler = w.link.send_handler
      BY <2>1 DEF Hears, Acts, Same
    <3> QED
      BY <1>11, <3>1 DEF Awaiting
  <2> QED
    BY <1>7, <1>9, <2>2, <2>3, <2>4, TakenDown DEF z
<1> QED
  BY <1>10, <1>11

\* What the client finds when the next line is typed: all it has sent is acknowledged.
LEMMA CommandFinds ==
  ASSUME NEW w, Fits(w), Transfers(w), Neat(w), ~w.link.garbled, AsksFor(w),
         NEW n, n = w.client.commands + 1, n \in 1..Len(w.script)
  PROVE  LET s == w.script
             q == w.link.sent["client"]
         IN  /\ w.client.prompt = "ask" /\ w.link.up["client"] /\ Flowing(w) /\ PostFits(w)
             /\ ~w.link.valid_send_handler["client"] /\ ~w.link.valid_rcv_handler["client"]
             /\ w.link.acked["client"] = Len(q)
             /\ Sent(s, q, n - 1, w.link.acked["client"], FALSE) /\ n - 1 < Len(s)
             /\ n - 1 = w.client.commands
             /\ w.link.valid_send_handler["server"] => Len(q) <= w.link.handed["server"]
<1> DEFINE s == w.script
           q == w.link.sent["client"]
           a == w.link.acked["client"]
           b == w.link.handed["server"]
<1>1. Flowing(w) /\ PostFits(w) /\ ~Querying(w)
  BY DEF Neat, Transfers
<1>2. w.link.up["client"] /\ Quiet(w) /\ ~Awaiting(w) /\ ~w.link.valid_rcv_handler["client"]
  BY <1>1, CommandQuiet
<1>3. w.client.prompt = "ask" /\ ~w.link.valid_send_handler["client"]
  BY <1>1 DEF Flowing, ClientFits
<1>4. /\ Len(q) \in Nat /\ a \in Nat /\ a <= Len(q) /\ b \in Nat /\ b <= Len(q)
      /\ w.client.commands \in Nat /\ Len(s) \in Nat
  <2> DEFINE k == w.link.taken["server"]
  <2>1. /\ Len(q) \in Nat /\ a \in Nat /\ b \in Nat /\ k \in Nat
        /\ a <= k /\ b <= k /\ k <= Len(q)
        /\ w.client.commands \in Nat /\ Len(s) \in Nat
    BY StreamIs, Zenon DEF Transfers
  <2> HIDE DEF q, a, b, k, s
  <2> QED
    BY <2>1
<1>5. a = Len(q)
  <2>1. ~(a < Len(q))
    BY <1>1, <1>2, <1>3 DEF Flowing, ClientFits
  <2> QED
    BY <1>4, <2>1
<1>6. n - 1 = w.client.commands /\ n - 1 < Len(s)
  BY <1>4
<1>7. Sent(s, q, n - 1, a, FALSE)
  BY <1>1, <1>2, <1>6, Zenon DEF Flowing, StreamFits
<1>8. ASSUME w.link.valid_send_handler["server"] PROVE Len(q) <= b
  <2> SUFFICES ASSUME b < Len(q) PROVE FALSE
    BY <1>4
  <2>1. Sending(s, q, b)
    BY <1>1, <1>8 DEF Flowing, ServerFits
  <2> HIDE DEF s, q, a, b
  <2>2. Len(q) = b + 1 /\ q[b + 1].kind = "request" /\ Gets(s[q[b + 1].n])
    BY <1>4, <1>7, <2>1, SendingNext
  <2>3. b + 1 \in b + 1..Len(q)
    BY <1>4, <2>2
  <2>4. Asked(w, b + 1)
    BY <2>2, <2>3 DEF Asked, s, q, b
  <2> QED
    BY <1>2, <2>4 DEF Quiet
<1> QED
  BY <1>1, <1>2, <1>3, <1>5, <1>6, <1>7, <1>8

\* A command that needs no request.
LEMMA CommandRestNeat ==
  ASSUME NEW w, Fits(w), Transfers(w), Neat(w), ~w.link.garbled, AsksFor(w),
         NEW n, n = w.client.commands + 1, n \in 1..Len(w.script),
         ~Posts(w.script[n]), NEW p \in {"busy", "gone"}, NEW x, Enters(w, n, p, x),
         x.posted = w.posted
  PROVE  Neat(x)
<1>1. /\ w.link.up["client"] /\ Flowing(w) /\ PostFits(w)
      /\ Sent(w.script, w.link.sent["client"], n - 1, w.link.acked["client"], FALSE)
      /\ n - 1 < Len(w.script) /\ n - 1 + 1 = n
      /\ ~w.link.valid_send_handler["client"] /\ ~w.link.valid_rcv_handler["client"]
  <2>1. n \in Int
    OBVIOUS
  <2> QED
    BY <2>1, CommandFinds
<1>2. /\ Typed(x) /\ ~Querying(x) /\ x.link = w.link /\ x.script = w.script
      /\ x.client.commands = n /\ ~AsksFor(x) /\ ~Awaiting(x)
  BY DEF Enters, Same, AsksFor
<1>3. Transfers(x)
  BY <1>2 DEF Transfers
<1>4. StreamFits(x)
  <2>1. Sent(w.script, w.link.sent["client"], n - 1 + 1, w.link.acked["client"], FALSE)
    BY <1>1, NextCommand
  <2> QED
    BY <1>1, <1>2, <2>1, Zenon DEF StreamFits
<1>5. ServerFits(x) /\ PostFits(x)
  BY <1>1, <1>2 DEF Flowing, ServerFits, PostFits
<1>6. ClientFits(x)
  BY <1>1, <1>2 DEF Flowing, ClientFits
<1>7. Flowing(x)
  BY <1>2, <1>4, <1>5, <1>6 DEF Flowing
<1> QED
  BY <1>3, <1>5, <1>7, FlowingNeat

\* A request is sent.
LEMMA RequestNeat ==
  ASSUME NEW w, Fits(w), Transfers(w), Neat(w), ~w.link.garbled, AsksFor(w),
         NEW n, n = w.client.commands + 1, n \in 1..Len(w.script),
         Gets(w.script[n]) \/ Posts(w.script[n]), NEW x, Enters(w, n, "busy", x),
         x.posted = w.posted
  PROVE  Neat(async_send(x, "client", <<Segment("request", n, 0)>>, "handle_req"))
<1> DEFINE s == w.script
           q == w.link.sent["client"]
           a == w.link.acked["client"]
           b == w.link.handed["server"]
           u == Segment("request", n, 0)
           z == async_send(x, "client", <<u>>, "handle_req")
           r == q \o <<u>>
<1>1. /\ w.link.up["client"] /\ Flowing(w) /\ PostFits(w)
      /\ Sent(s, q, n - 1, a, FALSE) /\ n - 1 < Len(s) /\ n - 1 + 1 = n
      /\ ~w.link.valid_send_handler["client"] /\ ~w.link.valid_rcv_handler["client"]
      /\ a = Len(q)
      /\ w.link.valid_send_handler["server"] => Len(q) <= b
  <2>1. n \in Int
    OBVIOUS
  <2> QED
    BY <2>1, CommandFinds
<1>2. /\ Typed(x) /\ ~Querying(x) /\ x.link = w.link /\ x.script = w.script
      /\ x.client.commands = n /\ x.client.prompt = "busy"
  BY DEF Enters, Same
<1>3. Transfers(x) /\ ServerFits(x) /\ PostFits(x)
  BY <1>1, <1>2 DEF Transfers, Flowing, ServerFits, PostFits
<1>4. /\ q \in Seq(Unit) /\ Len(q) \in Nat /\ b \in Nat /\ b <= Len(q) /\ n \in Nat /\ n > 0
  BY StreamIs DEF Transfers
<1>5. u \in Unit /\ u.n = n /\ <<u>> \in Seq(Unit) /\ Len(<<u>>) = 1 /\ <<u>> # <<>> /\ <<u>>[1] = u
  <2>1. u \in Unit /\ u.n = n
    BY <1>4 DEF Segment, Unit, Kinds
  <2> HIDE DEF u
  <2> QED
    BY <2>1
<1> HIDE DEF u
<1>6. SendsMore(x, "client", <<u>>, "handle_req", z)
  <2>1. "client" \in Side /\ "handle_req" \in SendNames /\ SendFits(x, "client", "handle_req")
    BY <1>2, <1>4, Sides DEF SendNames, SendFits
  <2>2. \A k \in 1..Len(<<u>>) : <<u>>[k].n \in 1..Len(x.script)
    BY <1>2, <1>5
  <2> QED
    BY <1>2, <1>5, <2>1, <2>2, TypedSend
<1> HIDE DEF z
<1>7. /\ Typed(z) /\ z.script = s /\ z.client = x.client /\ z.posted = w.posted
      /\ z.link.up = w.link.up /\ z.link.acked = w.link.acked /\ z.link.handed = w.link.handed
      /\ z.link.rcv_handler = w.link.rcv_handler
      /\ z.link.valid_rcv_handler = w.link.valid_rcv_handler
      /\ z.link.valid_send_handler["server"] = w.link.valid_send_handler["server"]
      /\ z.link.valid_send_handler["client"]
      /\ z.link.send_handler["client"] = "handle_req"
      /\ z.link.sent["client"] = r /\ z.link.sent["server"] = w.link.sent["server"]
      /\ z.link.garbled <=> w.link.garbled \/ a < Len(q)
  <2>1. /\ w.link.sent \in [Side -> Seq(Unit)] /\ w.link.send_handler \in [Side -> SendNames]
    BY DEF Transfers, Typed, World, LinkType
  <2> QED
    BY <1>2, <1>5, <1>6, <2>1, Sides DEF SendsMore, Same
<1>8. ~z.link.garbled /\ Transfers(z) /\ PostFits(z) /\ ~AsksFor(z) /\ Awaiting(z)
  <2>1. ~z.link.garbled
    <3>1. ~(a < Len(q)) /\ ~w.link.garbled
      BY <1>1, <1>4
    <3> QED
      BY <1>7, <3>1, Zenon
  <2>2. Transfers(z)
    BY <1>7, SameScript, Zenon DEF Transfers
  <2>3. PostFits(z)
    BY <1>1, <1>7, Zenon DEF PostFits
  <2>4. ~AsksFor(z) /\ Awaiting(z)
    <3>1. z.client.prompt = "busy"
      BY <1>2, <1>7, Zenon
    <3> QED
      BY <1>7, <3>1 DEF AsksFor, Awaiting
  <2> QED
    BY <2>1, <2>2, <2>3, <2>4
<1>9. StreamFits(z)
  <2>1. Sent(s, q \o <<Segment("request", n - 1 + 1, 0)>>, n - 1 + 1, a, TRUE)
    <3>1. Gets(s[n - 1 + 1]) \/ Posts(s[n - 1 + 1])
      BY <1>1
    <3>2. Plain(s)
      BY DEF Transfers
    <3> QED
      BY <1>1, <3>1, <3>2, RequestSent
  <2>2. Sent(s, r, n, a, TRUE)
    BY <1>1, <2>1, Zenon DEF u
  <2> QED
    BY <1>2, <1>7, <1>8, <2>2, Zenon DEF StreamFits
<1>10. ServerFits(z)
  <2>1. CASE w.link.valid_send_handler["server"]
    <3>1. ~w.link.valid_rcv_handler["server"] /\ Sending(s, q, b)
      BY <1>1, <2>1 DEF Flowing, ServerFits
    <3>2. b > 0 /\ q[b].kind = "request" /\ Gets(s[q[b].n])
      BY <3>1, Zenon DEF Sending
    <3>3. r[b] = q[b] /\ Len(r) = Len(q) + 1
      <4>1. /\ Len(r) = Len(q) + Len(<<u>>)
            /\ \A i \in 1..Len(q) + Len(<<u>>) : r[i] = IF i <= Len(q) THEN q[i] ELSE <<u>>[i - Len(q)]
        BY <1>4, <1>5, ConcatProperties
      <4>2. b \in 1..Len(q) + Len(<<u>>) /\ b <= Len(q)
        <5>1. b > 0 /\ b \in Nat /\ b <= Len(q) /\ Len(q) \in Nat /\ Len(<<u>>) = 1
          BY <1>4, <1>5, <3>2, Zenon
        <5> HIDE DEF q, b
        <5> QED
          BY <5>1
      <4> QED
        BY <1>5, <4>1, <4>2
    <3>4. Len(r) <= b + 1
      BY <1>1, <1>4, <2>1, <3>3
    <3> HIDE DEF q, r, s, b
    <3>5. Sending(s, r, b)
      BY <3>2, <3>3, <3>4 DEF Sending
    <3> QED
      BY <1>7, <3>1, <3>5 DEF ServerFits, b
  <2>2. CASE ~w.link.valid_send_handler["server"]
    <3>1. Acts(x, z)
      BY <1>2, <1>6, Sides DEF SendsMore, Acts
    <3>2. z.link.sent["client"] = x.link.sent["client"] \o <<u>> /\ ~x.link.valid_send_handler["server"]
      BY <1>2, <1>7, <2>2
    <3> QED
      BY <1>3, <1>5, <3>1, <3>2, ActsMore
  <2> QED
    BY <2>1, <2>2
<1>11. ClientFits(z)
  <2>1. Len(r) = Len(q) + 1
    BY <1>4, <1>5, ConcatProperties
  <2>2. a < Len(r)
    BY <1>1, <1>4, <2>1
  <2> HIDE DEF q, r
  <2> QED
    BY <1>1, <1>7, <1>8, <2>2 DEF ClientFits
<1>12. Flowing(z)
  BY <1>8, <1>9, <1>10, <1>11 DEF Flowing
<1> QED
  BY <1>8, <1>12, FlowingNeat DEF z, u

\* accept_command, with the line that was typed.
LEMMA CommandNeat ==
  ASSUME NEW w, Fits(w), Transfers(w), Neat(w), ~w.link.garbled, AsksFor(w),
         w.client.commands < Len(w.script)
  PROVE  Neat(command(w, w.client.commands + 1))
<1> DEFINE n == w.client.commands + 1
           c == w.script[n]
           x == Entered(w, n, "busy")
           gone == [x EXCEPT !.client.prompt = "gone"]
           y == IF Gets(c) \/ Posts(c)
                THEN async_send(x, "client", <<Segment("request", n, 0)>>, "handle_req") ELSE x
           z == command(w, n)
<1>1. n \in 1..Len(w.script) /\ w \in World /\ ~Querying(w)
  BY StreamIs DEF Transfers, Typed
<1>2. w.client.prompt = "ask"
  BY DEF Neat, Flowing, ClientFits
<1>3. z = CASE c.name = "disconnect" -> gone
            [] c.name # "disconnect" /\ w.client.prompt = "ask" -> y
            [] OTHER -> client_post(y, n - 1)
  BY Zenon DEF command, Entered
<1>4. gone = Entered(w, n, "gone")
  BY <1>1 DEF World, Client, Entered
<1> HIDE DEF gone, n, z, x
<1>5. n = w.client.commands + 1
  BY DEF n
<1>6. ASSUME NEW p \in {"busy", "gone"}
      PROVE  Enters(w, n, p, Entered(w, n, p)) /\ Entered(w, n, p).posted = w.posted
  <2>1. Enters(w, n, p, Entered(w, n, p))
    BY <1>1, <1>5, CommandTyped
  <2>2. Entered(w, n, p).posted = w.posted
    BY <1>1 DEF Entered, World
  <2> QED
    BY <2>1, <2>2
<1>7. CASE c.name = "disconnect"
  <2>1. z = Entered(w, n, "gone") /\ ~Posts(c)
    BY <1>3, <1>4, <1>7 DEF Posts
  <2> QED
    BY <1>1, <1>5, <1>6, <2>1, CommandRestNeat DEF z, n
<1>8. CASE c.name # "disconnect"
  <2>1. z = y
    BY <1>2, <1>3, <1>8
  <2>2. Enters(w, n, "busy", x) /\ x.posted = w.posted
    BY <1>6 DEF x
  <2>3. CASE Gets(c) \/ Posts(c)
    <3>1. Neat(async_send(x, "client", <<Segment("request", n, 0)>>, "handle_req"))
      BY <1>1, <1>5, <2>2, <2>3, RequestNeat
    <3> QED
      BY <2>1, <2>3, <3>1 DEF z, n
  <2>4. CASE ~(Gets(c) \/ Posts(c))
    <3>1. Neat(x)
      BY <1>1, <1>5, <2>2, <2>4, CommandRestNeat
    <3> QED
      BY <2>1, <2>4, <3>1 DEF z, n
  <2> QED
    BY <2>3, <2>4
<1> QED
  BY <1>7, <1>8

-----------------------------------------------------------------------------
(* A database connection *)

\* A query is sent once and answered once, and no file is posted.
QueryNeat(w) ==
  /\ ~w.link.garbled /\ w.posted = <<>>
  /\ w.link.valid_rcv_handler["server"] => w.link.sent["server"] = <<>>
  /\ w.client.commands = 0 => w.link.sent["client"] = <<>>

LEMMA QuerySame ==
  ASSUME NEW w, QueryNeat(w), NEW x, x.posted = w.posted,
         x.link.garbled = w.link.garbled, x.link.sent = w.link.sent,
         x.client.commands = w.client.commands,
         x.link.valid_rcv_handler["server"] => w.link.valid_rcv_handler["server"]
  PROVE  QueryNeat(x)
BY DEF QueryNeat

\* A handler of the client that sends nothing.
LEMMA ResponseNeat ==
  ASSUME NEW w, QueryNeat(w), NEW x, Response(w, x)
  PROVE  QueryNeat(x)
<1>1. /\ x.posted = w.posted /\ x.link.garbled = w.link.garbled /\ x.link.sent = w.link.sent
      /\ x.client.commands = w.client.commands
      /\ x.link.valid_rcv_handler["server"] = w.link.valid_rcv_handler["server"]
  BY DEF Response, Hears, Acts
<1> QED
  BY <1>1, QuerySame

\* call_rcv_handler at the engine: it answers what it is called with.
LEMMA EngineNeat ==
  ASSUME NEW w, Typed(w), Querying(w), QueryNeat(w)
  PROVE  QueryNeat(call_rcv_handler(w, "server"))
<1> DEFINE data == unread(w, "server")
           y == hand_over(w, "server")
           x == call_rcv_handler(w, "server")
<1>1. CASE ~w.link.valid_rcv_handler["server"]
  BY <1>1 DEF call_rcv_handler
<1>2. CASE w.link.valid_rcv_handler["server"]
  <2>1. x = handle_query(y, data)
    BY <1>2 DEF Typed, HandlersFit, call_rcv_handler
  <2>2. HandsOver(w, "server", y)
    BY TypedHandOver, Sides
  <2>3. data \in Seq(Unit)
    BY UnreadByServer
  <2> HIDE DEF y, x, data
  <2>4. /\ Typed(y) /\ Querying(y) /\ y.client = w.client /\ y.posted = <<>>
        /\ ~y.link.garbled /\ y.link.sent = w.link.sent /\ y.link.sent["server"] = <<>>
        /\ y.link.acked = w.link.acked
        /\ ~y.link.valid_rcv_handler["server"]
        /\ y.client.commands = 0 => y.link.sent["client"] = <<>>
    <3>1. w.link.valid_rcv_handler \in [Side -> BOOLEAN]
      BY DEF Typed, World, LinkType
    <3> QED
      BY <1>2, <2>2, <3>1, Sides DEF HandsOver, Same, Querying, QueryNeat
  <2>5. y.link.acked["server"] = 0
    <3>1. y.link.acked["server"] \in Nat /\ y.link.acked["server"] <= Len(y.link.sent["server"])
      BY <2>4, StreamIs
    <3> QED
      BY <2>4, <3>1
  <2>6. CASE data = <<>>
    <3>1. x = register(y, "server", Handler("handle_query", 0, 0, 0))
      BY <2>1, <2>6 DEF handle_query, dba_rcv_handler
    <3>2. HandlerFits(y, "server", Handler("handle_query", 0, 0, 0))
      BY <2>4 DEF HandlerFits, Handler, RcvHandler, RcvNames
    <3>3. Registers(y, "server", Handler("handle_query", 0, 0, 0), x)
      BY <2>4, <3>1, <3>2, TypedRegister, Sides
    <3>4. QueryNeat(x)
      BY <2>4, <3>3 DEF Registers, QueryNeat
    <3> QED
      BY <3>4 DEF x
  <2>7. CASE data # <<>>
    <3> DEFINE n == Len(data)
               m == Message("answer", n, y.script[1].get)
    <3>1. x = async_send(y, "server", m, "close_connection")
      BY <2>1, <2>7, Zenon DEF handle_query
    <3>2. n \in Nat /\ y.script[1].get \in Int /\ "answer" \in Kinds
      BY <2>3, <2>4, QueryingIs DEF Kinds
    <3>3. m \in Seq(Unit)
      BY <3>2, MessageIs
    <3> HIDE DEF m
    <3>4. "close_connection" \in SendNames /\ SendFits(y, "server", "close_connection")
      BY <2>4, Sides DEF SendNames, SendFits
    <3>5. SendsMore(y, "server", m, "close_connection", x)
      BY <2>4, <3>1, <3>3, <3>4, TypedSend, Sides
    <3>6. /\ x.client = y.client /\ x.posted = y.posted
          /\ x.link.valid_rcv_handler = y.link.valid_rcv_handler
          /\ x.link.garbled <=> y.link.garbled \/ y.link.acked["server"] < Len(y.link.sent["server"])
          /\ x.link.sent["client"] = y.link.sent["client"]
      <4>1. y.link.sent \in [Side -> Seq(Unit)]
        BY <2>4 DEF Typed, World, LinkType
      <4> QED
        BY <3>5, <4>1, Sides DEF SendsMore
    <3>7. QueryNeat(x)
      BY <2>4, <2>5, <3>6 DEF QueryNeat
    <3> QED
      BY <3>7 DEF x
  <2> QED
    BY <2>6, <2>7
<1> QED
  BY <1>1, <1>2

\* call_send_handler, at either end.
LEMMA QueryAcked ==
  ASSUME NEW v, Typed(v), Querying(v), QueryNeat(v), NEW s \in Side, v.link.valid_send_handler[s]
  PROVE  LET y == call_send_handler(v, s) IN Typed(y) /\ Querying(y) /\ QueryNeat(y)
<1> DEFINE z == Clear(v, s)
           y == call_send_handler(v, s)
<1>1. Clears(v, s, z)
  BY TypedClear
<1>2. /\ s = "client" => y = await_response(z)
      /\ s = "server" => y = z
  BY DEF Typed, HandlersFit, call_send_handler, Clear
<1> HIDE DEF z, y
<1>3. Typed(z) /\ Querying(z)
  BY <1>1 DEF Clears, Same, Querying
<1>4. QueryNeat(z)
  <2>1. /\ z.posted = v.posted /\ z.link.garbled = v.link.garbled /\ z.link.sent = v.link.sent
        /\ z.client.commands = v.client.commands
        /\ z.link.valid_rcv_handler = v.link.valid_rcv_handler
    BY <1>1 DEF Clears
  <2> QED
    BY <2>1, QuerySame
<1>5. Response(z, await_response(z))
  BY <1>3, AwaitResponse
<1>6. LET r == await_response(z) IN Typed(r) /\ Querying(r) /\ QueryNeat(r)
  <2>1. QueryNeat(await_response(z))
    BY <1>4, <1>5, ResponseNeat
  <2>2. Typed(await_response(z)) /\ Querying(await_response(z))
    BY <1>3, <1>5 DEF Response, Hears, Acts, Same, Querying
  <2> QED
    BY <2>1, <2>2
<1>7. Typed(y) /\ Querying(y) /\ QueryNeat(y)
  BY <1>2, <1>3, <1>4, <1>6, Sides
<1> QED
  BY <1>7 DEF y

LEMMA QueryCalled ==
  ASSUME NEW v, Typed(v), Querying(v), QueryNeat(v), NEW s \in Side
  PROVE  QueryNeat(call_rcv_handler(v, s))
<1>1. CASE s = "client"
  BY <1>1, ClientResponds, ResponseNeat
<1>2. CASE s = "server"
  BY <1>2, EngineNeat
<1> QED
  BY <1>1, <1>2, Sides

LEMMA QueryTakenDown ==
  ASSUME NEW y, Typed(y), QueryNeat(y), NEW s \in Side
  PROVE  QueryNeat(take_down(y, s))
<1> DEFINE x == take_down(y, s)
<1>1. TakesDown(y, s, x)
  BY TypedDown
<1> HIDE DEF x
<1>2. x.link.valid_rcv_handler["server"] => y.link.valid_rcv_handler["server"]
  BY <1>1, Sides DEF TakesDown
<1>3. QueryNeat(x)
  BY <1>1, <1>2, QuerySame DEF TakesDown
<1> QED
  BY <1>3 DEF x

LEMMA QueryFinNeat ==
  ASSUME NEW w, Typed(w), Querying(w), QueryNeat(w)
  PROVE  QueryNeat(take_down(db_client_fin(w), "client"))
<1> DEFINE y == await_response(w)
           z == db_client_fin(w)
           stuck == [y EXCEPT !.client.prompt = "stuck"]
<1>1. Response(w, y)
  BY AwaitResponse
<1>2. z = IF y.client.prompt = "gone" THEN y ELSE stuck
  BY Zenon DEF db_client_fin
<1> HIDE DEF y, z
<1>3. Typed(y) /\ QueryNeat(y)
  BY <1>1, ResponseNeat DEF Response, Hears, Acts
<1>4. Typed(stuck) /\ QueryNeat(stuck)
  <2>1. /\ stuck \in World /\ stuck.link = y.link /\ stuck.script = y.script
        /\ stuck.server = y.server /\ stuck.posted = y.posted
        /\ stuck.client = [y.client EXCEPT !.prompt = "stuck"]
        /\ stuck.client.commands = y.client.commands /\ stuck.client.prompt = "stuck"
    BY <1>3 DEF Typed, World, Client, Prompts
  <2> HIDE DEF stuck
  <2>2. Changes(y, stuck)
    BY <1>3, <2>1, ChangesRest
  <2>3. QueryNeat(stuck)
    BY <1>3, <2>1, QuerySame
  <2> QED
    BY <2>2, <2>3 DEF Changes, Hears, Acts
<1> HIDE DEF stuck
<1>5. Typed(z) /\ QueryNeat(z)
  BY <1>2, <1>3, <1>4
<1>6. QueryNeat(take_down(z, "client"))
  BY <1>5, QueryTakenDown, Sides
<1> QED
  BY <1>6 DEF z

\* main of the database client: the query is sent when nothing else has been.
LEMMA QuerySentNeat ==
  ASSUME NEW w, Typed(w), Querying(w), QueryNeat(w), w.client.commands < Len(w.script)
  PROVE  LET m == Message("query", 1, w.script[1].post)
             y == async_send(Entered(w, 1, "busy"), "client", m, "await_response")
         IN  QueryNeat(y)
<1> DEFINE x == Entered(w, 1, "busy")
           m == Message("query", 1, w.script[1].post)
           y == async_send(x, "client", m, "await_response")
<1>1. w \in World /\ w.client.commands = 0 /\ w.link.sent["client"] = <<>>
  <2>1. w \in World /\ w.client.commands \in Nat /\ Len(w.script) = 1
    BY QueryingIs DEF Typed, World, Client
  <2> QED
    BY <2>1 DEF QueryNeat
<1>2. w.link.acked["client"] = 0
  <2>1. /\ w.link.acked["client"] \in Nat /\ w.link.taken["server"] \in Nat
        /\ w.link.acked["client"] <= w.link.taken["server"]
        /\ w.link.taken["server"] <= Len(w.link.sent["client"])
    BY StreamIs
  <2>2. Len(w.link.sent["client"]) = 0
    BY <1>1
  <2> QED
    BY <2>1, <2>2
<1>3. /\ x \in World /\ x.link = w.link /\ x.posted = w.posted /\ x.client.commands = 1
  <2> DEFINE c == [w.client EXCEPT !.commands = 1, !.prompt = "busy"]
  <2>1. "busy" \in Prompts /\ w.client \in Client
    BY <1>1 DEF World, Prompts
  <2>2. c \in Client /\ c.commands = 1
    BY <2>1 DEF Client
  <2>3. x = [w EXCEPT !.client = c]
    BY <1>1 DEF World, Entered
  <2> HIDE DEF c, x
  <2> QED
    BY <1>1, <2>2, <2>3 DEF World
<1>4. m \in Seq(Unit) /\ "await_response" \in SendNames
  <2>1. w.script[1].post \in Int /\ "query" \in Kinds /\ 1 \in Nat
    BY QueryingIs DEF Kinds
  <2>2. m \in Seq(Unit)
    BY <2>1, MessageIs
  <2> QED
    BY <2>2 DEF SendNames
<1> HIDE DEF x, m
<1>5. Sends(x, "client", x.link.sent["client"] \o m, m # <<>>, "await_response", y)
  BY <1>3, <1>4, AsyncSendIs, Sides
<1> HIDE DEF y
<1>6. y.link.sent["server"] = x.link.sent["server"]
      /\ y.link.valid_rcv_handler = x.link.valid_rcv_handler
      /\ y.posted = x.posted /\ y.client = x.client
      /\ (y.link.garbled <=> x.link.garbled \/ x.link.acked["client"] < Len(x.link.sent["client"]))
  <2>1. x.link \in LinkType
    BY <1>3 DEF World
  <2> QED
    BY <1>5, <2>1, Sides DEF Sends, LinkType
<1>7. ~(x.link.acked["client"] < Len(x.link.sent["client"]))
  BY <1>1, <1>2, <1>3
<1>8. QueryNeat(y)
  BY <1>3, <1>6, <1>7 DEF QueryNeat
<1> QED
  BY <1>8 DEF y, m, x

LEMMA QueryNeatly ==
  ASSUME NEW w, Sound(w), Querying(w), QueryNeat(w), w.client.commands < Len(w.script)
  PROVE  QueryNeat(query(w))
<1> DEFINE m == Message("query", 1, w.script[1].post)
           y == async_send(Entered(w, 1, "busy"), "client", m, "await_response")
<1>1. Typed(y) /\ Querying(y) /\ QueryNeat(y)
  BY QuerySent, QuerySentNeat DEF Sound, Fits
<1>2. query(w) = IF w.script[1].post > 0 THEN y ELSE await_response(y)
  BY Zenon DEF query, Entered
<1> HIDE DEF y
<1>3. QueryNeat(await_response(y))
  BY <1>1, AwaitResponse, ResponseNeat
<1> QED
  BY <1>1, <1>2, <1>3

-----------------------------------------------------------------------------
(* What a step keeps when the scripts are plain *)

Neatly(w) ==
  /\ Querying(w) => QueryNeat(w)
  /\ ~Querying(w) /\ Plain(w.script) => Neat(w)

LEMMA TypesNeatly ==
  ASSUME NEW w, Sound(w), Neatly(w), AsksFor(w), ~w.link.garbled,
         w.client.commands < Len(w.script)
  PROVE  Neatly(IF Querying(w) THEN query(w) ELSE command(w, w.client.commands + 1))
<1>1. CASE Querying(w)
  <2>1. QueryNeat(query(w)) /\ query(w).script = w.script
    BY <1>1, QueryNeatly, QueryFits DEF Neatly
  <2> QED
    BY <1>1, <2>1, SameScript DEF Neatly
<1>2. CASE ~Querying(w)
  <2> DEFINE x == command(w, w.client.commands + 1)
  <2>1. x.script = w.script
    BY <1>2, CommandFits DEF Sound
  <2>2. ASSUME Plain(w.script) PROVE Neat(x)
    <3>1. Transfers(w) /\ Neat(w) /\ Fits(w)
      BY <1>2, <2>2 DEF Neatly, Transfers, Sound, Fits
    <3> QED
      BY <3>1, CommandNeat
  <2> HIDE DEF x
  <2>3. Neatly(x)
    BY <1>2, <2>1, <2>2, SameScript DEF Neatly
  <2> QED
    BY <1>2, <2>3 DEF x
<1> QED
  BY <1>1, <1>2

\* A datagram arrives at end s: perhaps its send handler is called, then its
\* receive handler.
Called(v, s) == call_rcv_handler(IF all_acked(v, s) THEN call_send_handler(v, s) ELSE v, s)

LEMMA QueryArrives ==
  ASSUME NEW w, Querying(w), QueryNeat(w), NEW s \in Side, NEW v, Advances(w, v, s)
  PROVE  QueryNeat(Called(v, s)) /\ QueryNeat(call_rcv_handler(v, s))
<1>1. Typed(v) /\ Querying(v) /\ QueryNeat(v)
  <2>1. Typed(v) /\ Querying(v)
    BY DEF Advances, Moves, Querying
  <2>2. QueryNeat(v)
    BY QuerySame DEF Advances, Moves
  <2> QED
    BY <2>1, <2>2
<1>2. QueryNeat(call_rcv_handler(v, s))
  BY <1>1, QueryCalled
<1>3. CASE all_acked(v, s)
  <2> DEFINE y == call_send_handler(v, s)
  <2>1. v.link.valid_send_handler[s]
    BY <1>3 DEF all_acked
  <2>2. Typed(y) /\ Querying(y) /\ QueryNeat(y)
    BY <1>1, <2>1, QueryAcked
  <2> HIDE DEF y
  <2>3. QueryNeat(call_rcv_handler(y, s))
    BY <2>2, QueryCalled
  <2> QED
    BY <1>2, <1>3, <2>3 DEF Called, y
<1>4. CASE ~all_acked(v, s)
  BY <1>2, <1>4 DEF Called
<1> QED
  BY <1>2, <1>3, <1>4

LEMMA NeatArrives ==
  ASSUME NEW w, Transfers(w), Neat(w), ~w.link.garbled, Drained(w, "server"),
         NEW s \in Side, s = "client" => ~AsksFor(w), NEW v, Advances(w, v, s)
  PROVE  /\ Neat(Called(v, s))
         /\ v.link.acked = w.link.acked => Neat(call_rcv_handler(v, s))
<1>1. CASE s = "client"
  <2>1. all_acked(v, "client") => Neat(Called(v, "client"))
    BY <1>1, ClientAckNeat DEF Called
  <2>2. ~all_acked(v, "client") => Neat(Called(v, "client"))
    BY <1>1, ClientCallNeat DEF Called
  <2>3. v.link.acked = w.link.acked => Neat(call_rcv_handler(v, "client"))
    BY <1>1, ClientCallNeat
  <2> QED
    BY <1>1, <2>1, <2>2, <2>3
<1>2. CASE s = "server"
  <2>1. all_acked(v, "server") => Neat(Called(v, "server"))
    BY <1>2, ServerAckNeat DEF Called
  <2>2. Neat(call_rcv_handler(v, "server"))
    BY <1>2, ServerCallNeat
  <2>3. ~all_acked(v, "server") => Neat(Called(v, "server"))
    BY <2>2 DEF Called
  <2> QED
    BY <1>2, <2>1, <2>2, <2>3
<1> QED
  BY <1>1, <1>2, Sides

\* An end runs, and a datagram arrives there.
Running(w, s) ==
  /\ Sound(w) /\ Neatly(w) /\ s \in Side /\ w.link.up[s] /\ ~w.link.garbled
  /\ s = "client" => ~AsksFor(w)

LEMMA ArrivesNeatly ==
  ASSUME NEW w, NEW s, Running(w, s), NEW v, Advances(w, v, s), NEW x, x.script = w.script,
         x = Called(v, s) \/ (v.link.acked = w.link.acked /\ x = call_rcv_handler(v, s))
  PROVE  Neatly(x)
<1>1. (Querying(x) <=> Querying(w)) /\ (Plain(x.script) <=> Plain(w.script)) /\ s \in Side
  BY SameScript DEF Running
<1>2. ASSUME Querying(w) PROVE QueryNeat(x)
  BY <1>1, <1>2, QueryArrives DEF Running, Neatly
<1>3. ASSUME ~Querying(w), Plain(w.script) PROVE Neat(x)
  <2>1. Transfers(w) /\ Neat(w) /\ Drained(w, "server") /\ ~w.link.garbled
        /\ (s = "client" => ~AsksFor(w))
    BY <1>3 DEF Running, Neatly, Transfers, Sound, Fits
  <2> QED
    BY <1>1, <2>1, NeatArrives
<1> QED
  BY <1>1, <1>2, <1>3 DEF Neatly

LEMMA DownNeatly ==
  ASSUME NEW w, NEW s, Running(w, s)
  PROVE  Neatly(take_down(
               CASE s = "client" /\ Querying(w) -> db_client_fin(w)
                 [] s = "client" /\ ~Querying(w) -> fta_client_fin(w)
                 [] s = "server" /\ Querying(w) -> w
                 [] s = "server" /\ ~Querying(w) -> fta_server_fin(w), s))
<1> DEFINE x == take_down(
               CASE s = "client" /\ Querying(w) -> db_client_fin(w)
                 [] s = "client" /\ ~Querying(w) -> fta_client_fin(w)
                 [] s = "server" /\ Querying(w) -> w
                 [] s = "server" /\ ~Querying(w) -> fta_server_fin(w), s)
<1>1. x.script = w.script /\ s \in Side
  BY DownSound DEF Running
<1>2. (Querying(x) <=> Querying(w)) /\ (Plain(x.script) <=> Plain(w.script))
  BY <1>1, SameScript
<1>3. ASSUME Querying(w) PROVE QueryNeat(x)
  <2>1. Typed(w) /\ QueryNeat(w)
    BY <1>3 DEF Running, Neatly, Sound, Fits
  <2>2. CASE s = "client"
    BY <1>3, <2>1, <2>2, QueryFinNeat
  <2>3. CASE s = "server"
    BY <1>1, <1>3, <2>1, <2>3, QueryTakenDown
  <2> QED
    BY <1>1, <2>2, <2>3, Sides
<1>4. ASSUME ~Querying(w), Plain(w.script) PROVE Neat(x)
  <2>1. Transfers(w) /\ Neat(w) /\ ~w.link.garbled /\ w.link.up[s]
        /\ (s = "client" => ~AsksFor(w))
    BY <1>4 DEF Running, Neatly, Transfers, Sound, Fits
  <2>2. CASE s = "client"
    BY <1>4, <2>1, <2>2, ClientDownNeat
  <2>3. CASE s = "server"
    BY <1>4, <2>1, <2>3, ServerDownNeat
  <2> QED
    BY <1>1, <2>2, <2>3, Sides
<1> HIDE DEF x
<1>5. Neatly(x)
  BY <1>2, <1>3, <1>4 DEF Neatly
<1> QED
  BY <1>5 DEF x

LEMMA ServerNeatly ==
  ASSUME NEW w, Typed(w), Neatly(w), NEW f \in Flags
  PROVE  Neatly([w EXCEPT !.server = f])
<1> DEFINE x == [w EXCEPT !.server = f]
<1>1. x.link = w.link /\ x.script = w.script /\ x.client = w.client /\ x.posted = w.posted
  BY DEF Typed, World
<1> HIDE DEF x
<1>2. (Querying(x) <=> Querying(w)) /\ (Plain(x.script) <=> Plain(w.script))
  BY <1>1, SameScript
<1>3. QueryNeat(w) => QueryNeat(x)
  BY <1>1, QuerySame
<1>4. /\ StreamFits(w) => StreamFits(x)
      /\ ServerFits(w) => ServerFits(x)
      /\ ClientFits(w) => ClientFits(x)
      /\ PostFits(w) => PostFits(x)
      /\ IdleFits(w) => IdleFits(x)
  <2>1. (Awaiting(x) <=> Awaiting(w)) /\ (AsksFor(x) <=> AsksFor(w))
    BY <1>1, Zenon DEF Awaiting, AsksFor
  <2>2. StreamFits(w) => StreamFits(x)
    BY <1>1, <2>1, Zenon DEF StreamFits
  <2>3. ClientFits(w) => ClientFits(x)
    BY <1>1, <2>1, Zenon DEF ClientFits
  <2>4. ServerFits(w) => ServerFits(x)
    BY <1>1, Zenon DEF ServerFits
  <2>5. PostFits(w) => PostFits(x)
    BY <1>1, Zenon DEF PostFits
  <2>6. IdleFits(w) => IdleFits(x)
    BY <1>1, Zenon DEF IdleFits, LastAt
  <2> QED
    BY <2>2, <2>3, <2>4, <2>5, <2>6
<1>5. Neat(w) => Neat(x)
  BY <1>1, <1>4 DEF Neat, Flowing
<1>6. Neatly(x)
  BY <1>2, <1>3, <1>5 DEF Neatly
<1> QED
  BY <1>6 DEF x

-----------------------------------------------------------------------------
(* The invariant of the programs *)

Good(w) == Sound(w) /\ Neatly(w)

IInv ==
  /\ script \in Scripts /\ server \in Flags
  /\ client \in [Clients -> Client]
  /\ link \in [Clients -> LinkType]
  /\ posted \in [Clients -> Seq(Unit)]
  /\ \A i \in Clients : Good(At(i))

LEMMA AtIs ==
  ASSUME NEW i \in Clients
  PROVE  /\ At(i).server = server /\ At(i).client = client[i] /\ At(i).link = link[i]
         /\ At(i).posted = posted[i] /\ At(i).script = script[i]
         /\ Queries(i) <=> Querying(At(i))
         /\ Asking(i) <=> AsksFor(At(i))
BY DEF At, Queries, Querying, Asking, AsksFor

LEMMA StepKeeps ==
  ASSUME IInv, NEW i \in Clients, NEW x, Good(x), x.script = script[i], Becomes(i, x)
  PROVE  IInv'
<1>1. x \in World
  BY DEF Good, Sound, Fits, Typed
<1>2. /\ x.server \in Flags /\ x.client \in Client /\ x.link \in LinkType /\ x.posted \in Seq(Unit)
  BY <1>1 DEF World
<1>3. /\ script' \in Scripts /\ server' \in Flags
      /\ client' \in [Clients -> Client]
      /\ link' \in [Clients -> LinkType]
      /\ posted' \in [Clients -> Seq(Unit)]
  BY <1>2 DEF IInv, Becomes
<1>4. ASSUME NEW j \in Clients PROVE Good(At(j))'
  <2>1. CASE j = i
    <3>1. /\ server' = x.server /\ client'[i] = x.client /\ link'[i] = x.link
          /\ posted'[i] = x.posted /\ script'[i] = x.script
      BY DEF IInv, Becomes
    <3>2. x = [server |-> x.server, client |-> x.client, link |-> x.link,
               posted |-> x.posted, script |-> x.script]
      BY <1>1 DEF World
    <3>3. At(i)' = x
      BY <3>1, <3>2, Zenon DEF At
    <3> QED
      BY <2>1, <3>3
  <2>2. CASE j # i
    <3>1. /\ server' = x.server /\ client'[j] = client[j] /\ link'[j] = link[j]
          /\ posted'[j] = posted[j] /\ script'[j] = script[j]
      BY <2>2 DEF IInv, Becomes
    <3>2. At(j)' = [At(j) EXCEPT !.server = x.server]
      BY <3>1 DEF At
    <3>3. Good(At(j))
      BY DEF IInv
    <3>4. Good([At(j) EXCEPT !.server = x.server])
      BY <1>2, <3>3, ServerChanges, ServerNeatly DEF Good, Sound, Fits
    <3> QED
      BY <3>2, <3>4
  <2> QED
    BY <2>1, <2>2
<1> QED
  BY <1>3, <1>4 DEF IInv

LEMMA TypesKeeps ==
  ASSUME IInv, NEW i \in Clients, Types(i)
  PROVE  IInv'
<1> DEFINE w == At(i)
           x == IF Querying(w) THEN query(w) ELSE command(w, w.client.commands + 1)
<1>1. Good(w) /\ w.client = client[i] /\ w.link = link[i] /\ w.script = script[i]
      /\ (Queries(i) <=> Querying(w)) /\ (Asking(i) <=> AsksFor(w))
  BY AtIs DEF IInv
<1>2. AsksFor(w) /\ ~w.link.garbled /\ w.client.commands < Len(w.script)
  BY <1>1, Zenon DEF Types
<1>3. Becomes(i, x)
  BY <1>1, Zenon DEF Types
<1>4. Good(x) /\ x.script = script[i]
  <2>1. Good(x) /\ x.script = w.script
    BY <1>1, <1>2, TypesSound, TypesNeatly DEF Good
  <2> QED
    BY <1>1, <2>1, Zenon
<1> QED
  BY <1>3, <1>4, StepKeeps

\* An end that may run can be called with whatever has arrived.
LEMMA RunsSound ==
  ASSUME IInv, NEW i \in Clients, NEW s \in Side, Runs(i, s)
  PROVE  /\ Running(At(i), s) /\ At(i).script = script[i] /\ At(i).link = link[i]
         /\ CallSound(At(i), s) /\ AckSound(At(i), s)
<1> DEFINE w == At(i)
<1>1. /\ Running(w, s) /\ w.link = link[i] /\ w.script = script[i]
      /\ Sound(w) /\ w.link.up[s] /\ ~w.link.garbled
      /\ s = "client" => ~AsksFor(w)
  BY AtIs DEF IInv, Runs, AsksFor, Running, Good
<1> HIDE DEF w
<1>2. CASE s = "client"
  <2>1. CallSound(w, "client") /\ AckSound(w, "client")
    BY <1>1, <1>2, ClientCallSound, ClientAckSound
  <2> QED
    BY <1>1, <1>2, <2>1 DEF w
<1>3. CASE s = "server"
  <2>1. CallSound(w, "server") /\ AckSound(w, "server")
    BY <1>1, <1>3, ServerCallSound, ServerAckSound
  <2> QED
    BY <1>1, <1>3, <2>1 DEF w
<1> QED
  BY <1>2, <1>3, Sides

LEMMA TakeDataKeeps ==
  ASSUME IInv, NEW i \in Clients, NEW s \in Side, TakeData(i, s)
  PROVE  IInv'
<1> DEFINE w == At(i)
<1>1. PICK n \in link[i].taken[s] + 1 .. Len(link[i].sent[Other(s)]) :
        /\ Runs(i, s)
        /\ Becomes(i, call_rcv_handler([w EXCEPT !.link.taken[s] = n], s))
  BY DEF TakeData
<1> DEFINE v == [w EXCEPT !.link.taken[s] = n]
           x == call_rcv_handler(v, s)
<1>2. /\ Running(w, s) /\ w.script = script[i] /\ w.link = link[i] /\ CallSound(w, s)
      /\ Typed(w) /\ Drained(w, "client") /\ Drained(w, "server")
  BY <1>1, RunsSound DEF Running, Sound, Fits
<1> HIDE DEF w
<1>3. Moves(w, v) /\ v.link.taken[Other(s)] = w.link.taken[Other(s)]
  <2>1. n \in w.link.taken[s] + 1 .. Len(w.link.sent[Other(s)])
    BY <1>1, <1>2
  <2> QED
    BY <1>2, <2>1, TypedTake
<1>4. v.link.acked = w.link.acked /\ w.link.acked[s] <= w.link.acked[s]
  <2>1. w.link.acked[s] \in Nat /\ w \in World /\ w.link \in LinkType
    BY <1>2 DEF Typed, World, LinkType
  <2>2. v.link = [w.link EXCEPT !.taken[s] = n]
    BY <2>1 DEF World
  <2> HIDE DEF v
  <2>3. v.link.acked = w.link.acked
    BY <2>1, <2>2 DEF LinkType
  <2> QED
    BY <2>1, <2>3
<1> HIDE DEF v
<1>5. Good(x) /\ x.script = script[i]
  <2>1. Drained(v, Other(s))
    BY <1>2, <1>3, Sides DEF Moves, Drained
  <2>2. Sound(x) /\ x.script = w.script
    BY <1>3, <1>2, <2>1 DEF CallSound
  <2>3. Advances(w, v, s)
    BY <1>3, <1>4 DEF Advances
  <2> HIDE DEF x
  <2>4. Neatly(x)
    BY <1>2, <1>4, <2>2, <2>3, ArrivesNeatly DEF x
  <2> QED
    BY <1>2, <2>2, <2>4 DEF Good
<1>6. Becomes(i, x)
  BY <1>1 DEF v
<1> QED
  BY <1>5, <1>6, StepKeeps

LEMMA TakeAckKeeps ==
  ASSUME IInv, NEW i \in Clients, NEW s \in Side, TakeAck(i, s)
  PROVE  IInv'
<1> DEFINE w == At(i)
<1>1. PICK n \in link[i].acked[s] + 1 .. link[i].taken[Other(s)] :
        LET v == [w EXCEPT !.link.acked[s] = n] IN
        /\ Runs(i, s)
        /\ Becomes(i, call_rcv_handler(IF all_acked(v, s) THEN call_send_handler(v, s) ELSE v, s))
  BY DEF TakeAck
<1> DEFINE v == [w EXCEPT !.link.acked[s] = n]
           x == call_rcv_handler(IF all_acked(v, s) THEN call_send_handler(v, s) ELSE v, s)
<1>2. /\ Running(w, s) /\ w.script = script[i] /\ w.link = link[i]
      /\ CallSound(w, s) /\ AckSound(w, s)
      /\ Typed(w) /\ Drained(w, "client") /\ Drained(w, "server")
  BY <1>1, RunsSound DEF Running, Sound, Fits
<1> HIDE DEF w
<1>3. Moves(w, v) /\ v.link.taken = w.link.taken /\ Advances(w, v, s)
  <2>1. n \in w.link.acked[s] + 1 .. w.link.taken[Other(s)]
    BY <1>1, <1>2
  <2>2. /\ Moves(w, v) /\ v.link.taken = w.link.taken
        /\ v.link.acked[s] = n /\ v.link.acked[Other(s)] = w.link.acked[Other(s)]
    BY <1>2, <2>1, TypedAck
  <2>3. w.link.acked[s] <= n
    <3>1. w.link.acked[s] \in Nat
      BY <1>2 DEF Typed, World, LinkType
    <3> QED
      BY <2>1, <3>1
  <2> HIDE DEF v
  <2> QED
    BY <2>2, <2>3 DEF Advances
<1>4. Becomes(i, x)
  BY <1>1
<1> HIDE DEF v
<1>5. Drained(v, "client") /\ Drained(v, "server")
  BY <1>2, <1>3, Sides DEF Moves, Drained
<1>6. Sound(x) /\ x.script = script[i]
  <2>1. CASE all_acked(v, s)
    <3>1. v.link.valid_send_handler[s]
      BY <2>1 DEF all_acked
    <3> QED
      BY <1>2, <1>3, <1>5, <2>1, <3>1, Zenon DEF AckSound
  <2>2. CASE ~all_acked(v, s)
    <3>1. Drained(v, Other(s))
      BY <1>5, Sides
    <3> QED
      BY <1>2, <1>3, <2>2, <3>1, Zenon DEF CallSound
  <2> QED
    BY <2>1, <2>2
<1>7. x = Called(v, s)
  BY Zenon DEF Called
<1> HIDE DEF x
<1>8. Neatly(x)
  BY <1>2, <1>3, <1>6, <1>7, ArrivesNeatly
<1> QED
  BY <1>4, <1>6, <1>8, StepKeeps DEF Good

LEMMA TakeNothingKeeps ==
  ASSUME IInv, NEW i \in Clients, NEW s \in Side, TakeNothing(i, s)
  PROVE  IInv'
<1> DEFINE w == At(i)
           x == call_rcv_handler(w, s)
<1>1. Runs(i, s) /\ Becomes(i, x)
  BY DEF TakeNothing
<1>2. Running(w, s) /\ w.script = script[i] /\ CallSound(w, s)
  BY <1>1, RunsSound
<1> HIDE DEF w
<1>3. Moves(w, w) /\ Drained(w, Other(s))
  BY <1>2, Sides DEF Moves, Running, Sound, Fits
<1>4. Good(x) /\ x.script = script[i]
  <2>1. Sound(x) /\ x.script = w.script
    BY <1>2, <1>3 DEF CallSound
  <2>2. w.link.acked[s] <= w.link.acked[s]
    BY <1>2, <1>3 DEF Moves, Running, Typed, World, LinkType
  <2>3. Advances(w, w, s)
    BY <1>3, <2>2 DEF Advances
  <2> HIDE DEF x
  <2>4. Neatly(x)
    BY <1>2, <2>1, <2>3, ArrivesNeatly DEF x
  <2> QED
    BY <1>2, <2>1, <2>4 DEF Good
<1> QED
  BY <1>1, <1>4, StepKeeps

LEMMA GoDownKeeps ==
  ASSUME IInv, NEW i \in Clients, NEW s \in Side, GoDown(i, s)
  PROVE  IInv'
<1> DEFINE w == At(i)
           x == take_down(
                  CASE s = "client" /\ Querying(w) -> db_client_fin(w)
                    [] s = "client" /\ ~Querying(w) -> fta_client_fin(w)
                    [] s = "server" /\ Querying(w) -> w
                    [] s = "server" /\ ~Querying(w) -> fta_server_fin(w), s)
<1>1. Runs(i, s)
  BY DEF GoDown
<1>2. /\ Running(w, s) /\ w.script = script[i]
      /\ Queries(i) <=> Querying(w)
  BY <1>1, RunsSound, AtIs
<1>3. Becomes(i, x)
  BY <1>2, Zenon DEF GoDown
<1>4. Good(x) /\ x.script = script[i]
  <2>1. Good(x) /\ x.script = w.script
    BY <1>2, DownSound, DownNeatly DEF Good, Running
  <2> QED
    BY <1>2, <2>1, Zenon
<1> QED
  BY <1>3, <1>4, StepKeeps

LEMMA NextKeeps == IInv /\ [Next]_vars => IInv'
<1> SUFFICES ASSUME IInv, [Next]_vars PROVE IInv'
  OBVIOUS
<1>1. CASE UNCHANGED vars
  BY <1>1 DEF IInv, vars, At
<1>2. ASSUME NEW i \in Clients, Types(i) PROVE IInv'
  BY <1>2, TypesKeeps
<1>3. ASSUME NEW i \in Clients, NEW s \in Side, Step(i, s) PROVE IInv'
  BY <1>3, TakeDataKeeps, TakeAckKeeps, TakeNothingKeeps, GoDownKeeps DEF Step
<1> QED
  BY <1>1, <1>2, <1>3 DEF Next

\* A connection on which the server's receiver callback has run, and nothing else.
Idle(w) ==
  /\ w \in World /\ ScriptFits(w)
  /\ w.client.prompt = "ask" /\ w.client.commands = 0 /\ w.client.got = <<>>
  /\ w.client.not_receiving
  /\ w.link.up["client"] /\ ~w.link.garbled /\ w.posted = <<>>
  /\ \A s \in Side :
       /\ w.link.sent[s] = <<>> /\ w.link.acked[s] = 0 /\ w.link.taken[s] = 0
       /\ w.link.handed[s] = 0 /\ w.link.send_handler[s] = "none"
       /\ ~w.link.valid_send_handler[s]
  /\ ~w.link.valid_rcv_handler["client"]
  /\ w.link.rcv_handler["server"].name = IF Querying(w) THEN "handle_query" ELSE "rcv_respond"

LEMMA IdleSound ==
  ASSUME NEW w, Idle(w)
  PROVE  Sound(w)
<1>1. w \in World /\ Len(w.script) \in Nat
  BY LenProperties DEF Idle, World
<1>2. Typed(w)
  <2>1. SegmentsFit(w) /\ CountsFit(w)
    BY Sides DEF Idle, SegmentsFit, CountsFit
  <2>2. HandlersFit(w)
    BY Sides DEF Idle, HandlersFit
  <2>3. CommandsFit(w)
    BY Sides DEF Idle, CommandsFit
  <2> QED
    BY <1>1, <2>1, <2>2, <2>3 DEF Typed, Idle
<1>3. Drained(w, "client") /\ Drained(w, "server")
  BY Sides DEF Idle, Drained
<1>4. Quiet(w)
  BY Sides DEF Idle, Quiet, Asked, AllHanded, Fresh
<1>5. Rules(w)
  BY Sides DEF Idle, Rules, AsksFor, Awaiting, Getting
<1>6. Prefix(w)
  <2>1. /\ Message("get", 0, 0) \in Seq(Unit) /\ Len(Message("get", 0, 0)) = 0
    <3>1. "get" \in Kinds /\ 0 \in Nat /\ 0 \in Int /\ ~(0 > 0)
      BY DEF Kinds
    <3> QED
      BY <3>1, MessageIs
  <2>2. Message("get", 0, 0) = <<>>
    BY <2>1, EmptySeq
  <2>3. Len(w.client.got) = 0 /\ 0 \in 0..w.client.commands
    BY DEF Idle
  <2> QED
    BY <2>2, <2>3 DEF Prefix, Idle
<1>7. Answered(w)
  <2> SUFFICES ASSUME Querying(w), Short(w) PROVE AnswerFits(w)
    BY DEF Answered
  <2>1. w.script[1].post \in Int /\ 0 <= w.script[1].post
    BY <1>2, QueryingIs
  <2> QED
    BY <2>1, Sides DEF Idle, AnswerFits
<1> QED
  BY <1>2, <1>3, <1>4, <1>5, <1>6, <1>7 DEF Sound, Fits, FilesFit, OnTrack, Idle

LEMMA IdleNeatly ==
  ASSUME NEW w, Idle(w)
  PROVE  Neatly(w)
<1>1. /\ Typed(w) /\ ~w.link.garbled /\ w.posted = <<>>
      /\ w.link.sent["client"] = <<>> /\ w.link.sent["server"] = <<>>
      /\ w.link.acked["client"] = 0 /\ w.link.acked["server"] = 0
      /\ w.link.handed["server"] = 0 /\ w.link.send_handler["client"] = "none"
      /\ ~w.link.valid_send_handler["client"] /\ ~w.link.valid_send_handler["server"]
      /\ ~w.link.valid_rcv_handler["client"] /\ w.client.prompt = "ask" /\ w.client.commands = 0
  BY IdleSound, Sides DEF Idle, Sound, Fits
<1>2. QueryNeat(w)
  BY <1>1 DEF QueryNeat
<1>3. ASSUME ~Querying(w), Plain(w.script) PROVE Neat(w)
  <2>1. w.script \in Seq(Command)
    BY <1>1, StreamIs
  <2>2. StreamFits(w)
    <3>1. Sent(w.script, <<>>, 0, 0, FALSE)
      BY <2>1, NothingSent
    <3>2. ~Awaiting(w)
      BY <1>1 DEF Awaiting
    <3> QED
      BY <1>1, <3>1, <3>2, Zenon DEF StreamFits
  <2>3. ServerFits(w)
    BY <1>1, <1>3 DEF ServerFits, Ends, Idle
  <2>4. ClientFits(w)
    BY <1>1 DEF ClientFits
  <2>5. PostFits(w)
    <3>1. Len(w.posted) = 0 /\ 0 \in 0..Len(w.script)
      BY <1>1, <2>1, StreamIs
    <3> QED
      BY <1>1, <3>1, NothingPosted DEF PostFits
  <2> QED
    BY <1>1, <1>3, <2>2, <2>3, <2>4, <2>5, FlowingNeat DEF Transfers, Flowing
<1> QED
  BY <1>2, <1>3 DEF Neatly

LEMMA NewLinkIs ==
  ASSUME NEW h \in RcvHandler
  PROVE  LET l == register([link |-> NewLink], "server", h).link IN
         /\ l \in LinkType
         /\ l = [NewLink EXCEPT !.rcv_handler = [NewLink.rcv_handler EXCEPT !["server"] = h],
                                !.valid_rcv_handler = [NewLink.valid_rcv_handler EXCEPT !["server"] = TRUE]]
<1>1. NewLink \in LinkType
  BY DEF NewLink, LinkType, NoHandler, Handler, RcvHandler, RcvNames, SendNames
<1> QED
  BY <1>1, Sides DEF register, LinkType

LEMMA InitHolds == Init => IInv
<1> SUFFICES ASSUME Init PROVE IInv
  OBVIOUS
<1> DEFINE hq == Handler("handle_query", 0, 0, 0)
           hr == Handler("rcv_respond", 0, 0, 0)
           l(h) == register([link |-> NewLink], "server", h).link
<1>1. hq \in RcvHandler /\ hr \in RcvHandler /\ hq.name = "handle_query" /\ hr.name = "rcv_respond"
  BY DEF Handler, RcvHandler, RcvNames
<1>2. script \in Scripts /\ script \in [Clients -> Seq(Command)]
  BY ScriptAssumption DEF Init
<1>3. server \in Flags
  BY DEF Init, Flags
<1>4. client \in [Clients -> Client] /\ posted \in [Clients -> Seq(Unit)]
  <2>1. <<>> \in Seq(Unit)
    OBVIOUS
  <2> QED
    BY <2>1 DEF Init, Client, Prompts
<1>5. link = [i \in Clients |-> IF Queries(i) THEN l(hq) ELSE l(hr)]
  BY Zenon DEF Init, dba_rcv_handler, fta_rcv_handler
<1>6. ASSUME NEW h \in RcvHandler
      PROVE  /\ l(h) \in LinkType /\ l(h).up["client"] /\ ~l(h).garbled
             /\ \A s \in Side :
                  /\ l(h).sent[s] = <<>> /\ l(h).acked[s] = 0 /\ l(h).taken[s] = 0
                  /\ l(h).handed[s] = 0 /\ l(h).send_handler[s] = "none"
                  /\ ~l(h).valid_send_handler[s]
             /\ ~l(h).valid_rcv_handler["client"]
             /\ l(h).rcv_handler["server"] = h
  <2> DEFINE k == l(h)
  <2>1. /\ k \in LinkType
        /\ k = [NewLink EXCEPT !.rcv_handler = [NewLink.rcv_handler EXCEPT !["server"] = h],
                               !.valid_rcv_handler = [NewLink.valid_rcv_handler EXCEPT !["server"] = TRUE]]
    BY NewLinkIs
  <2> HIDE DEF k
  <2>2. /\ k.garbled = NewLink.garbled /\ k.up = NewLink.up /\ k.sent = NewLink.sent /\ k.acked = NewLink.acked
        /\ k.taken = NewLink.taken /\ k.handed = NewLink.handed
        /\ k.send_handler = NewLink.send_handler
        /\ k.valid_send_handler = NewLink.valid_send_handler
        /\ k.rcv_handler = [NewLink.rcv_handler EXCEPT !["server"] = h]
        /\ k.valid_rcv_handler = [NewLink.valid_rcv_handler EXCEPT !["server"] = TRUE]
    BY <2>1 DEF NewLink
  <2>3. /\ k.up["client"] /\ ~k.garbled
        /\ \A s \in Side :
             /\ k.sent[s] = <<>> /\ k.acked[s] = 0 /\ k.taken[s] = 0
             /\ k.handed[s] = 0 /\ k.send_handler[s] = "none"
             /\ ~k.valid_send_handler[s]
        /\ ~k.valid_rcv_handler["client"]
        /\ k.rcv_handler["server"] = h
    BY <2>2, Sides DEF NewLink
  <2> QED
    BY <2>1, <2>3 DEF k
<1> HIDE DEF l, hq, hr
<1>7. link \in [Clients -> LinkType]
  BY <1>1, <1>5, <1>6
<1>8. ASSUME NEW i \in Clients PROVE Good(At(i))
  <2> DEFINE w == At(i)
             h == IF Queries(i) THEN hq ELSE hr
  <2>1. /\ w.server = server /\ w.client = client[i] /\ w.link = link[i]
        /\ w.posted = posted[i] /\ w.script = script[i]
        /\ Queries(i) <=> Querying(w)
    BY AtIs
  <2>2. w \in World
    BY <1>2, <1>3, <1>4, <1>7 DEF At, World
  <2> HIDE DEF w
  <2>3. ScriptFits(w)
    BY <1>2, <2>1, ScriptAssumption DEF ScriptFits
  <2>4. w.link = l(h) /\ h \in RcvHandler
        /\ h.name = IF Querying(w) THEN "handle_query" ELSE "rcv_respond"
    BY <1>1, <1>5, <2>1
  <2>5. w.client.prompt = "ask" /\ w.client.commands = 0 /\ w.client.got = <<>>
        /\ w.client.not_receiving /\ w.posted = <<>>
    BY <2>1 DEF Init
  <2> HIDE DEF h
  <2>6. Idle(w)
    BY <1>6, <2>2, <2>3, <2>4, <2>5 DEF Idle
  <2> QED
    BY <2>6, IdleSound, IdleNeatly DEF Good, w
<1> QED
  BY <1>2, <1>3, <1>4, <1>7, <1>8 DEF IInv

LEMMA Invariance == Spec => []IInv
<1>1. IInv /\ [Next]_vars => IInv'
  BY NextKeeps
<1> QED
  BY <1>1, InitHolds, PTL DEF Spec

-----------------------------------------------------------------------------
(* The theorems *)

LEMMA IInvTypes == IInv => TypeOK
<1> SUFFICES ASSUME IInv PROVE TypeOK
  OBVIOUS
<1>1. server \in [not_sending : BOOLEAN, not_receiving : BOOLEAN]
  BY DEF IInv, Flags
<1>2. ASSUME NEW i \in Clients
      PROVE  /\ client[i].prompt \in {"ask", "ask_then_post", "busy", "gone", "stuck"}
             /\ client[i].commands \in 0..Len(script[i])
             /\ \A s \in Side :
                  /\ link[i].taken[s] \in 0..Len(link[i].sent[Other(s)])
                  /\ link[i].handed[s] \in 0..link[i].taken[s]
                  /\ link[i].acked[Other(s)] \in 0..link[i].taken[s]
                  /\ link[i].valid_rcv_handler[s] => link[i].handed[s] = link[i].taken[s]
  <2> DEFINE w == At(i)
  <2>1. /\ Typed(w) /\ Drained(w, "client") /\ Drained(w, "server")
        /\ w.client = client[i] /\ w.link = link[i] /\ w.script = script[i]
    BY AtIs DEF IInv, Good, Sound, Fits
  <2> HIDE DEF w
  <2>2. /\ w.client.prompt \in Prompts /\ w.client.commands \in Nat
        /\ w.client.commands <= Len(w.script) /\ Len(w.script) \in Nat
    BY <2>1, LenProperties DEF Typed, World, Client
  <2>3. ASSUME NEW s \in Side
        PROVE  /\ w.link.taken[s] \in 0..Len(w.link.sent[Other(s)])
               /\ w.link.handed[s] \in 0..w.link.taken[s]
               /\ w.link.acked[Other(s)] \in 0..w.link.taken[s]
               /\ w.link.valid_rcv_handler[s] => w.link.handed[s] = w.link.taken[s]
    <3>1. /\ w.link.taken[s] \in Nat /\ w.link.handed[s] \in Nat /\ w.link.acked[Other(s)] \in Nat
          /\ Len(w.link.sent[Other(s)]) \in Nat
      BY <2>1, Sides, LenProperties DEF Typed, World, LinkType
    <3>2. /\ w.link.taken[s] <= Len(w.link.sent[Other(s)])
          /\ w.link.handed[s] <= w.link.taken[s]
          /\ w.link.acked[Other(s)] <= w.link.taken[s]
      BY <2>1 DEF Typed, CountsFit
    <3>3. w.link.valid_rcv_handler[s] => w.link.handed[s] = w.link.taken[s]
      BY <2>1, Sides DEF Drained
    <3> QED
      BY <3>1, <3>2, <3>3
  <2>4. client[i].prompt \in {"ask", "ask_then_post", "busy", "gone", "stuck"}
    BY <2>1, <2>2 DEF Prompts
  <2>5. client[i].commands \in 0..Len(script[i])
    <3>1. w.client.commands \in 0..Len(w.script)
      BY <2>2
    <3> QED
      BY <2>1, <3>1, Zenon
  <2> QED
    BY <2>1, <2>3, <2>4, <2>5, Zenon
<1> QED
  BY <1>1, <1>2 DEF TypeOK

\* What a program has been given never runs ahead of what has arrived, nor that
\* of what the other has sent; an acknowledgement stands for what has arrived;
\* and a receive handler that is due has nothing left to read, so that
\* call_rcv_handler never keeps back data from a handler that waits for it.
THEOREM ProgramTypes == Spec => []TypeOK
<1>1. IInv => TypeOK
  BY IInvTypes
<1> QED
  BY <1>1, Invariance, PTL

LEMMA IInvGot == IInv /\ NeverGarbled => GotIsPrefix
<1> SUFFICES ASSUME IInv, NeverGarbled, NEW i \in Clients, ~Queries(i)
             PROVE  LET n == client[i].commands IN
                    /\ \E k \in 0..n : client[i].got = Message("get", k, Len(client[i].got))
                    /\ Asking(i) /\ n > 0 /\ Gets(script[i][n]) =>
                         client[i].got = Message("get", n, script[i][n].get)
  BY DEF GotIsPrefix
<1> DEFINE w == At(i)
<1>1. /\ Sound(w) /\ w.client = client[i] /\ w.link = link[i] /\ w.script = script[i]
      /\ ~Querying(w)
      /\ Asking(i) <=> AsksFor(w)
  BY AtIs DEF IInv, Good
<1> HIDE DEF w
<1>2. FilesFit(w)
  BY <1>1 DEF Sound, Fits
<1>3. \E k \in 0..client[i].commands : client[i].got = Message("get", k, Len(client[i].got))
  BY <1>1, <1>2 DEF FilesFit, Prefix
<1>4. ASSUME Asking(i), client[i].commands > 0, Gets(script[i][client[i].commands])
      PROVE  client[i].got = Message("get", client[i].commands, script[i][client[i].commands].get)
  <2>1. AsksFor(w) /\ Getting(w)
    BY <1>1, <1>4, Zenon DEF Getting
  <2>2. w.link.up["client"]
    BY <1>2, <2>1 DEF FilesFit
  <2>3. ~w.link.garbled
    BY <1>1, <2>2, Zenon DEF NeverGarbled
  <2>4. Complete(w)
    BY <1>2, <2>1, <2>2, <2>3, Zenon DEF FilesFit, Rules
  <2> QED
    BY <1>1, <2>4, Zenon DEF Complete, FileSize
<1> QED
  BY <1>3, <1>4

\* Files of any size, any number of commands, gets and posts of several clients
\* in any order: as long as no connection is garbled while its client runs, what
\* client_get_handler has stored is the beginning of a file the client asked for,
\* and a client that prompts for a command has all of the last file, each segment
\* once and in order, however the stream was cut into reads and whether the file
\* came before or after the acknowledgement of the request.
THEOREM GotIsRight == Spec => [](NeverGarbled => GotIsPrefix)
<1>1. IInv => (NeverGarbled => GotIsPrefix)
  BY IInvGot
<1> QED
  BY <1>1, Invariance, PTL

\* A query and its answer fill one segment each, or the query is empty.
ShortQueries ==
  \A typed \in Scripts : \A i \in Clients :
    typed[i] # <<>> /\ typed[i][1].name = "query" =>
      typed[i][1].get = 1 /\ typed[i][1].post <= 1

LEMMA IInvAnswer ==
  ASSUME ShortQueries, IInv
  PROVE  AnswerIsPrinted
<1> SUFFICES ASSUME NEW i \in Clients, Queries(i), client[i].prompt = "gone"
             PROVE  client[i].got = Message("answer", script[i][1].post, script[i][1].get)
  BY DEF AnswerIsPrinted
<1> DEFINE w == At(i)
<1>1. Sound(w) /\ w.client = client[i] /\ w.script = script[i] /\ Querying(w)
  BY AtIs DEF IInv, Good
<1> HIDE DEF w
<1>2. Short(w)
  BY <1>1, Zenon DEF IInv, Queries, Short, ShortQueries
<1>3. AnswerFits(w)
  BY <1>1, <1>2 DEF Sound, Answered
<1> QED
  BY <1>1, <1>3, Zenon DEF AnswerFits

\* As long as a query and its answer fill one segment each, a database client
\* that ends has printed the answer to its own query, wherever the answer
\* arrives: before the query is acknowledged, after, or with the FIN.
THEOREM ShortAnswerIsPrinted ==
  ASSUME ShortQueries
  PROVE  Spec => []AnswerIsPrinted
<1>1. IInv => AnswerIsPrinted
  BY IInvAnswer
<1> QED
  BY <1>1, Invariance, PTL

\* A user gets files and posts files, but not both at once, and posts none after
\* a get; or queries a database.
PlainScripts ==
  \A typed \in Scripts : \A i \in Clients :
    \/ typed[i] # <<>> /\ typed[i][1].name = "query"
    \/ Plain(typed[i])

LEMMA PlainClient ==
  ASSUME PlainScripts, IInv, NEW i \in Clients
  PROVE  LET w == At(i) IN
         /\ Typed(w) /\ w.client = client[i] /\ w.link = link[i]
         /\ w.posted = posted[i] /\ w.script = script[i]
         /\ Querying(w) => QueryNeat(w)
         /\ ~Querying(w) => Neat(w)
<1> DEFINE w == At(i)
<1>1. /\ Typed(w) /\ Neatly(w) /\ w.client = client[i] /\ w.link = link[i]
      /\ w.posted = posted[i] /\ w.script = script[i]
  BY AtIs DEF IInv, Good, Sound, Fits
<1> HIDE DEF w
<1>2. ~Querying(w) => Plain(w.script)
  BY <1>1, Zenon DEF IInv, PlainScripts, Querying
<1>3. (Querying(w) => QueryNeat(w)) /\ (~Querying(w) => Neat(w))
  BY <1>1, <1>2 DEF Neatly
<1> QED
  BY <1>1, <1>3 DEF w

LEMMA IInvNeverGarbled ==
  ASSUME PlainScripts, IInv
  PROVE  NeverGarbled
<1> SUFFICES ASSUME NEW i \in Clients, link[i].up["client"] PROVE ~link[i].garbled
  BY DEF NeverGarbled
<1> QED
  BY PlainClient DEF Neat, QueryNeat

LEMMA IInvPosted ==
  ASSUME PlainScripts, IInv
  PROVE  PostedIsPrefix
<1> SUFFICES ASSUME NEW i \in Clients
             PROVE  \E n \in 0..Len(script[i]) : posted[i] = Message("post", n, Len(posted[i]))
  BY DEF PostedIsPrefix
<1> DEFINE w == At(i)
<1>1. /\ Typed(w) /\ w.posted = posted[i] /\ w.script = script[i]
      /\ Querying(w) => QueryNeat(w)
      /\ ~Querying(w) => Neat(w)
  BY PlainClient
<1> HIDE DEF w
<1>2. CASE Querying(w)
  <2>1. posted[i] = <<>> /\ Len(posted[i]) = 0
    BY <1>1, <1>2 DEF QueryNeat
  <2>2. 0 \in 0..Len(script[i])
    BY <1>1, StreamIs
  <2> QED
    BY <2>1, <2>2, NothingPosted
<1>3. CASE ~Querying(w)
  BY <1>1, <1>3 DEF Neat, PostFits
<1> QED
  BY <1>2, <1>3

LEMMA IInvIdle ==
  ASSUME PlainScripts, IInv
  PROVE  RequestEndsWhenIdle
<1> SUFFICES ASSUME NEW i \in Clients, link[i].valid_rcv_handler["server"],
                    link[i].rcv_handler["server"].name = "rcv_respond"
             PROVE  /\ ~link[i].valid_send_handler["server"]
                    /\ \A p \in 1..link[i].handed["server"] :
                         LET n == link[i].sent["client"][p].n
                             c == script[i][n]
                         IN  LastRequest(i, p) /\ Posts(c) /\ c.post > 0 =>
                               posted[i] = Message("post", n, c.post)
  BY DEF RequestEndsWhenIdle
<1> DEFINE w == At(i)
<1>1. /\ Typed(w) /\ w.link = link[i] /\ w.posted = posted[i] /\ w.script = script[i]
      /\ ~Querying(w) => Neat(w)
  BY PlainClient
<1> HIDE DEF w
<1>2. ~Querying(w)
  BY <1>1 DEF Typed, HandlersFit
<1>3. IdleFits(w)
  BY <1>1, <1>2 DEF Neat
<1>4. \A p : LastRequest(i, p) <=> LastAt(w, p)
  BY <1>1, Zenon DEF LastRequest, LastAt
<1> QED
  BY <1>1, <1>3, <1>4, Zenon DEF IdleFits, Uploads

\* When no user gets and posts at once or posts after a get, no send ever replaces
\* one that is not acknowledged, and rcv_respond never reads the bytes of a file as
\* a request, while the client runs: what is unread when the server waits for a
\* request begins with one, and a client sends only when all it sent before is
\* acknowledged.
THEOREM PlainNeverGarbled ==
  ASSUME PlainScripts
  PROVE  Spec => []NeverGarbled
<1>1. IInv => NeverGarbled
  BY IInvNeverGarbled
<1> QED
  BY <1>1, Invariance, PTL

\* Then what the server's post stores is the beginning of one file that the client
\* posted, wherever the stream is cut into reads and whenever either end goes down.
THEOREM PlainPostIsPrefix ==
  ASSUME PlainScripts
  PROVE  Spec => []PostedIsPrefix
<1>1. IInv => PostedIsPrefix
  BY IInvPosted
<1> QED
  BY <1>1, Invariance, PTL

\* Then a server that waits for a request on a connection is done with the last
\* one: final_send registers rcv_respond only when the file it sent is acknowledged
\* and, unless it is empty, the file that was posted is all stored.
THEOREM PlainRequestEnds ==
  ASSUME PlainScripts
  PROVE  Spec => []RequestEndsWhenIdle
<1>1. IInv => RequestEndsWhenIdle
  BY IInvIdle
<1> QED
  BY <1>1, Invariance, PTL

\* And then what a client stores is the beginning of a file it asked for, and all of
\* it when the client prompts for the next command, without a condition.
THEOREM PlainGotIsRight ==
  ASSUME PlainScripts
  PROVE  Spec => []GotIsPrefix
<1>1. IInv => GotIsPrefix
  BY IInvGot, IInvNeverGarbled
<1> QED
  BY <1>1, Invariance, PTL

=============================================================================
