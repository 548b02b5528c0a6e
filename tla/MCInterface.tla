------------------------------ MODULE MCInterface ------------------------------
(* Two rows with a user; each shape of three rows that are sorted, and one of  *)
(* five with lists of one and of two below a list of two; two columns, two     *)
(* torrents, and the requests of two connections; values of two keys.          *)
EXTENDS Interface, Sequences, TLC

CONSTANTS r1, r2, q1, q2, q3, q4, q5, q6, t1, t2

MCMayHold     == {<<"root", r1>>, <<"root", r2>>, <<r1, r2>>}
MCMayHoldSorted == {"root"} \X {q1, q2, q3} \cup {<<q1, q2>>, <<q1, q3>>, <<q3, q2>>}
MCMayHoldNested == {<<"root", r1>>, <<"root", r2>>, <<r1, q6>>, <<r2, q4>>, <<r2, q5>>}
MCOrders      == {1, -1}
MCMessages ==
  {[columns |-> [i \in DOMAIN order |-> [id |-> order[i], width |-> w, visible |-> v]],
    enabled |-> e, sortBy |-> [i \in DOMAIN by |-> [id |-> by[i], ascending |-> FALSE]]] :
     order \in {<<"a", "b">>, <<"b", "a">>, <<"b">>, <<"a", "a">>, <<"b", "a", "b">>},
     w \in {MaxWidth, MaxWidth + 1}, by \in {<<>>, <<"b", "a">>}, v, e \in BOOLEAN}

Ask(method, ids, list) == [method |-> method, ids |-> ids, list |-> list, allowed |-> TRUE]
All(method) == Ask(method, "all", <<>>)
MCQuestions ==
  <<{All("torrent-get"), Ask("torrent-get", "recent", <<>>), All("torrent-start"),
     Ask("torrent-stop", "list", <<1>>)},
    {Ask("torrent-remove", "list", <<1, 9>>), All("torrent-add-url"),
     Ask("torrent-verify", "recent", <<>>)}>>
MCChanges ==
  <<{All(m) : m \in {"torrent-set", "web", "torrent-add", "torrent-add-nothing", "no-query", "put", "upload",
                     "unknown", "port-test", "torrent-reannounce"}}
    \cup {Ask("torrent-set", "list", <<1>>), Ask("torrent-remove", "list", <<1, 9>>),
          [All("session-get") EXCEPT !.allowed = FALSE]}>>
Change(l, f, u, a, rm, rp) ==
  [limit |-> l, files |-> f, unwanted |-> u, add |-> a, remove |-> rm, replace |-> rp]
MCArguments ==
  {Change(1, TRUE, <<0, 2>>, <<>>, <<>>, <<>>), Change(1, FALSE, <<>>, <<"a", "bad", "b">>, <<>>, <<>>),
   Change(0, TRUE, <<>>, <<>>, <<0, 1>>, <<>>), Change(0, TRUE, <<1>>, <<"b">>, <<0>>, <<>>),
   Change(0, FALSE, <<>>, <<>>, <<>>, <<[pos |-> 0, url |-> "b"]>>)}

Val(type, n) == [type |-> type, n |-> n, kids |-> <<>>]
Dict(pairs)  == [Val("dict", 0) EXCEPT !.kids = pairs]
MCScalars == {Val("int", 1), Val("bool", 1), Val("real", 10000050), Val("real", 12345678), Val("str", 3)}
MCUpdates ==
  {Dict(<<Val("str", 3), Val("int", 0), Val("str", 4), Dict(<<Val("str", 3), Val("str", 4)>>)>>),
   Dict(<<Val("str", 3),
          [Val("list", 0) EXCEPT !.kids = <<Val("int", 1), Dict(<<Val("str", 4), Val("int", 1)>>)>>]>>)}
Token(t, n) == [t |-> t, n |-> n]
MCIncoming ==
  {Token("int", 1), Token("str", 3)} \cup {Token(t, 0) : t \in {"l", "d", "e", "bad", "?"}}
================================================================================
