------------------------ MODULE MCHardwareInterface ------------------------
EXTENDS HardwareInterface, TLC

Names == <<"j1", "j2", "j3", "j4">>
Pairs == {<<a, b>> : a, b \in ToSet(Names) \union {"other"}}
Base(yaml) == [joints |-> Names, yaml |-> yaml, sim |-> FALSE, cycles |-> 0, calls |-> 1, moves |-> 0,
               raw |-> [c \in DOMAIN yaml |-> <<0, 0>>], zero |-> [c \in DOMAIN yaml |-> <<0, 1>>]]
Yamls == {<<p>> : p \in Pairs} \union (Pairs \X Pairs)
\* one module, its names in both orders, over all offsets of its zeros
One(names, r) ==
  [Base(<<names>>) EXCEPT !.joints = <<"j1", "j2">>, !.raw = <<<<r, 0>>>>, !.zero = <<<<0, r>>>>,
                          !.cycles = 3, !.calls = 5, !.moves = 2]
\* two modules in both orders
Two(yaml) == [Base(yaml) EXCEPT !.raw = <<<<0, 1>>, <<2, 3>>>>, !.cycles = 2, !.calls = 3, !.moves = 1]
MCSetups == {Base(y) : y \in Yamls}
  \union {One(names, r) : names \in {<<"j1", "j2">>, <<"j2", "j1">>}, r \in {-6, -3, -2, 1, 2, 5}}
  \union {Two(y) : y \in {<<<<"j1", "j2">>, <<"j3", "j4">>>>, <<<<"j4", "j3">>, <<"j1", "j2">>>>}}
  \union {[Base(<<>>) EXCEPT !.sim = TRUE, !.joints = <<"j1">>, !.cycles = 3, !.calls = 5],
          [Base(<<>>) EXCEPT !.joints = <<"j1">>]}
=============================================================================
