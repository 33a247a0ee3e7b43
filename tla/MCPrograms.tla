----------------------------- MODULE MCPrograms -----------------------------
(* Small instances of Programs. *)
EXTENDS Programs, TLC

CONSTANTS A, B  \* the clients

Get(n) == [name |-> "get", get |-> n, post |-> 0]
Post(n) == [name |-> "post", get |-> 0, post |-> n]
GetPost(m, n) == [name |-> "get-post", get |-> m, post |-> n]
Line(word) == [name |-> word, get |-> 0, post |-> 0]
Query(m, n) == [name |-> "query", get |-> m, post |-> n]

Both(a, b) == (A :> a) @@ (B :> b)

\* The instances in which everything holds.
Sessions ==
  { Both(<<Get(2), Get(1)>>, <<Get(2)>>),
    Both(<<Get(3), Get(2), Line("disconnect")>>, <<>>),
    Both(<<Post(2), Post(0)>>, <<Get(2)>>),
    Both(<<GetPost(2, 2)>>, <<>>),
    Both(<<GetPost(1, 0)>>, <<>>),
    Both(<<Post(0), Line("disconnect")>>, <<Post(Absent)>>),
    Both(<<Query(1, 1)>>, <<Get(2)>>) }

PostThenGet == {Both(<<Post(1), Get(1)>>, <<>>)}
TwoClients == {Both(<<GetPost(1, 2)>>, <<Get(1)>>)}
=============================================================================
