-------------------------------- MODULE MCBus --------------------------------
(* Bus on small networks: every chain of up to three of eight kinds of     *)
(* slaves, and every tree of up to four simple slaves, with and without    *)
(* clocks, cabled by any of their ports.                                   *)
EXTENDS Bus

At(start, len) == [start |-> start, len |-> len, on |-> TRUE]
Nowhere == <<>>        \* no sync manager of that direction
Simple  == [man |-> 1, id |-> 1, rev |-> 1, mbx |-> FALSE, proto |-> {}, ca |-> FALSE, dc |-> TRUE,
            sm |-> <<At(10, 1), At(20, 1)>>, comm |-> <<>>, pdo |-> <<>>, soe |-> <<0, 0>>,
            rx |-> 0 :> 4, tx |-> 1 :> 5, real |-> <<4, 5>>]
Mailbox(id, rev) == [Simple EXCEPT !.id = id, !.rev = rev, !.mbx = TRUE, !.proto = {"coe"}, !.rx = Nowhere, !.tx = Nowhere,
                       !.sm = <<At(10, 8), At(20, 8), At(30, 0), At(40, 0)>>]
MCDevice ==
  [bits  |-> Simple,
   plain |-> [Simple EXCEPT !.id = 2, !.dc = FALSE],
   drive |-> [Mailbox(3, 1) EXCEPT !.ca = TRUE, !.comm = <<1, 2, 3, 4>>,
                !.pdo = (2 :> <<8, 8>>) @@ (3 :> <<16, 8>>), !.real = <<16, 24>>],
   \* the types are one too low, and the outputs are in two places
   split |-> [Mailbox(3, 2) EXCEPT !.comm = <<0, 1, 2, 2, 3>>,
                !.sm = <<At(10, 8), At(20, 8), At(30, 0), At(50, 0), At(60, 0)>>,
                !.pdo = (2 :> <<8>>) @@ (3 :> <<12>>) @@ (4 :> <<3>>), !.real = <<20, 3>>],
   three |-> [Mailbox(6, 1) EXCEPT !.comm = <<1, 2, 3, 3, 3, 4>>,
                !.sm = <<At(10, 8), At(20, 8), At(30, 0), At(40, 0), At(50, 0), At(60, 0)>>,
                !.pdo = (2 :> <<8>>) @@ (3 :> <<8>>) @@ (4 :> <<8>>) @@ (5 :> <<8>>), !.real = <<24, 8>>],
   \* SM2 and SM3 are said to be unused
   mute  |-> [Mailbox(4, 1) EXCEPT !.ca = TRUE, !.comm = <<1, 2, 0, 0>>,
                !.pdo = (2 :> <<8>>) @@ (3 :> <<8>>), !.real = <<8, 8>>],
   half  |-> [Mailbox(4, 2) EXCEPT !.ca = TRUE, !.comm = <<1, 2, 0, 4>>,
                !.pdo = (2 :> <<8>>) @@ (3 :> <<8>>), !.real = <<8, 8>>],
   sercos |-> [Mailbox(5, 1) EXCEPT !.proto = {"soe"}, !.soe = <<16, 8>>, !.real = <<16, 8>>]]

Chain(n, kind, o) ==
  [n |-> n, up |-> [s \in 1 .. n |-> s - 1], out |-> [s \in 1 .. n |-> 1], entry |-> [s \in 1 .. n |-> 0],
   cable |-> [s \in 1 .. n |-> 1], kind |-> kind,
   noise |-> IF n < 3 THEN 1 ELSE 0, overlap |-> o, epoch |-> [s \in 1 .. n |-> 0], calls |-> {}]
Chains == UNION {{Chain(n, kind, o) : kind \in [1 .. n -> DOMAIN MCDevice], o \in BOOLEAN} : n \in 1 .. 3}

(* Trees numbered in the order of a frame.                                 *)
WellNumbered(b) ==
  /\ \A s \in 2 .. b.n : b.up[s] >= 1 /\ b.up[s] < s /\ b.out[s] # b.entry[b.up[s]]
  /\ \A s \in 3 .. b.n : \E p \in 1 .. s - 1 : p = b.up[s] /\ \A m \in p + 1 .. s - 1 : b.up[m] >= p
  /\ \A s, r \in 2 .. b.n : (s < r /\ b.up[s] = b.up[r]) =>
       Rank(b, b.up[s], b.out[s]) < Rank(b, b.up[r], b.out[r])
Tree(n, up, out, entry, kind) ==
  [n |-> n, up |-> up, out |-> out, entry |-> entry, cable |-> [s \in 1 .. n |-> s], kind |-> kind,
   noise |-> 0, overlap |-> FALSE, epoch |-> [s \in 1 .. n |-> 0], calls |-> IF n = 2 THEN {<<4, 1>>, <<4, 4, 1>>} ELSE {}]
Ups(n) == {up \in [1 .. n -> 0 .. n - 1] : up[1] = 0 /\ \A s \in 2 .. n : up[s] \in 1 .. s - 1}
\* all slaves have clocks, and any port is used
Ported == {b \in UNION {{Tree(n, up, out, [s \in 1 .. n |-> 0], [s \in 1 .. n |-> "bits"]) :
                          up \in Ups(n), out \in {f \in [1 .. n -> 1 .. 3] : f[1] = 1}} : n \in 2 .. 4} : WellNumbered(b)}
\* a slave in a line may be cabled the wrong way round
Reversed == {Tree(3, [s \in 1 .. 3 |-> s - 1], [s \in 1 .. 3 |-> IF s > 1 /\ e[s - 1] = 1 THEN 0 ELSE 1], e, [s \in 1 .. 3 |-> "bits"]) :
               e \in [1 .. 3 -> {0, 1}]}
\* a split is entered by any port
Turned == {b \in {Tree(3, <<0, 1, 1>>, <<1>> \o out, <<e, 0, 0>>, [s \in 1 .. 3 |-> "bits"]) : e \in Ports, out \in Ports \X Ports} :
             WellNumbered(b)}
\* some slaves have no clock
FirstFree(n, up) == [s \in 1 .. n |-> <<3, 1, 2>>[1 + (Cardinality({c \in 2 .. s - 1 : up[c] = up[s]}) % 3)]]
Clockless == {b \in UNION {{Tree(n, up, FirstFree(n, up), [s \in 1 .. n |-> 0], kind) :
                          up \in Ups(n), kind \in [1 .. n -> {"bits", "plain"}]} : n \in 2 .. 4} : WellNumbered(b)}
\* clocks that wrap while the frame is on the bus, or have wrapped before
Late(b) == [b EXCEPT !.epoch = [s \in 1 .. b.n |-> <<20, 40, 26, 56>>[1 + (s % 4)]]]
Trees   == Ported \union Reversed \union Turned \union Clockless
MCBuses == Chains \union Trees \union {Late(b) : b \in Trees}
             \union {Chain(5, [s \in 1 .. 5 |-> "plain"], FALSE)}
=============================================================================
