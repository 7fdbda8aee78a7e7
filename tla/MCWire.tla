------------------------------- MODULE MCWire -------------------------------
(* TLC instance of Wire.                                                   *)
EXTENDS Wire

Num(n) == <<"int", n>>
ByteStr(s) == <<"bytes", s>>
Tuple(s) == <<"tuple", s>>
Many(n, x) == [i \in 1..n |-> x]

(* The limits of the encodings.                                            *)
Edges ==
  {Num(n) : n \in {-49, -48, 159, 160, 0, 1234567, -1000}}
  \cup {ByteStr(Many(n, 10)) : n \in {0, 1, 4, 5, 255, 256}}
  \cup {Tuple(Many(n, Num(5))) : n \in {0, 1, 4, 5, 255, 256}}
  \cup {<<"str", s>> : s \in {<<>>, <<97>>, <<233, 97>>}}
  \cup {<<"single", s>> : s \in DOMAIN Singletons}
  \cup {<<"float", Many(8, 0)>>, <<"complex", Many(16, 20)>>,
        <<"slice", <<Num(1), <<"single", "none">>, Num(200)>>>>,
        <<"fset", <<Tuple(<<Num(1)>>), ByteStr(<<0>>)>>>>,
        Tuple(<<Tuple(<<>>), <<"str", <<97>>>>, Tuple(<<ByteStr(<<>>), Num(-1)>>)>>)}

(* A conversation of frames that hold what frames are made of.             *)
Talks ==
  { << ByteStr(<<0, 0, 0, 0>>), Num(10), ByteStr(<<10, 0, 0>>) >>,
    << ByteStr(<<>>), <<"str", <<Surrogate>>>>, Tuple(<<Num(7), Num(7)>>) >> }

Case(values, loop, readers) == [values |-> values, loop |-> loop, readers |-> readers]

MCCases ==
  {Case(<<v>>, FALSE, {r}) : v \in Edges, r \in {"loop", "serve"}}
  \cup {Case(t, l, {r}) : t \in Talks, l \in BOOLEAN, r \in {"loop", "serve"}}

(* A sender whose loop reads.                                              *)
MCLoops == {Case(t, TRUE, {"loop"}) : t \in Talks}

(* A loop that reads, and a synchronous request of its thread.             *)
MCBoth == {Case(t, FALSE, {"loop", "serve"}) : t \in Talks}

=============================================================================
