------------------------------ MODULE MCGetters ------------------------------
(* A small instance of Getters. *)
EXTENDS Getters

\* "", "a)", "a a" and "a) (".
CommandNames == {<<>>, <<"a", ")">>, <<"a", " ", "a">>, <<"a", ")", " ", "(">>}

UpTo(n, S) == UNION {[1..k -> S] : k \in 0..n}

MCArguments == UpTo(3, {<< >>, <<"a">>, <<"a", "b">>})

\* "a=b", "a=", "b==", "ab= a" and "b", which assigns nothing.
MCEnvironments ==
  UpTo(2, {<<"a", "=", "b">>, <<"a", "=">>, <<"b", "=", "=">>, <<"a", "b", "=", " ", "a">>, <<"b">>})

MCLists == UpTo(3, {<<"a">>, <<"a", "b">>})

\* Around every change of unit, of precision and of the first digits.
MCSizes ==
  LET Near(n) == {k \in n - 3..n + 3 : k >= 0}
  IN  UNION {Near(n) : n \in {0, 972, 1024}}
        \cup UNION {Near(q * 512) : q \in 2..24}
        \cup UNION {Near(q * 1024 + r) : q \in {1, 8, 9, 10, 972}, r \in {0, 511, 972, 1022}}
        \cup UNION {Near(q * 1048576 + r * 1024) : q \in {0, 1, 8, 9, 10, 60},
                                                    r \in {0, 51, 511, 972, 973, 1022, 1023}}

MCUsages == {u \in (0..12) \X (0..12) \X (0..12) : u[3] <= u[2] /\ u[2] <= u[1]}

MCSeconds == UNION {{n - 1, n, n + 1} : n \in {1, 60, 3600, 86400, 90000, 172800, 864000}}

MCMessages ==
  [family : {"AF_INET", "AF_INET6"}, src : [1..2 -> 0..1], dst : [1..2 -> 0..1],
   sport : {<<0, 0>>, <<0, 1>>}, dport : {<<0, 0>>, <<1, 0>>}]

\* A hash of three values only, so that many sockets share one.
MCSum64(bytes) == FoldLeft(LAMBDA h, b : (2 * h + b) % 3, 1, bytes)

=============================================================================
