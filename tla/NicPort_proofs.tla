-------------------------- MODULE NicPort_proofs --------------------------
(***************************************************************************)
(* Proofs about the port, for any number of threads, slaves and buffers:   *)
(* who works on which index, whose answer a call takes, and what the       *)
(* redundant mode makes of a line that is cut anywhere.                    *)
(***************************************************************************)
EXTENDS NicPort, FiniteSetTheorems, TLAPS

Places    == {"idle", "claim", "out", "dummy", "look", "recv", "store", "test", "decide",
              "resend", "result"}
Marks     == {"empty", "alloc", "tx", "rcvd", "complete"}
Commands  == {"LRW", "LRD", "LWR", "FP", "BRD"}
Datagrams == [own : Threads \cup {"dummy"}, seg : Nat, cmd : Commands, path : Seq(Nat)]
Frames    == [idx : 0 .. MaxBuf, dg : Datagrams, src : {"pri", "sec"}, fresh : BOOLEAN]
Entries   == [i : Idx, seg : Nat]

Types ==
  /\ redstate \in {"none", "double"} /\ cut \in -1 .. Slaves /\ layout \in Layouts
  /\ stat \in [Stacks -> [Idx -> Marks]]
  /\ txbuf \in [Idx -> Datagrams]
  /\ rxbuf \in [Stacks -> [Idx -> Frames]]
  /\ sock \in [Stacks -> Seq(Frames)]
  /\ held \in [Threads -> Seq(Entries)]
  /\ pc \in [Threads -> Places]
  /\ stack \in [Threads -> Stacks]
  /\ resent \in [Threads -> BOOLEAN]
  /\ got \in [Threads -> SUBSET Stacks]
  /\ pend \in [Threads -> Frames]

(* A call holds an index for every datagram it has set up and not yet taken *)
(* the answer of.                                                           *)
Shape(t) ==
  /\ pc[t] = "idle" => held[t] = << >>
  /\ pc[t] = "claim" => Len(held[t]) < Len(Cmds(t))
  /\ pc[t] \notin {"idle", "claim"} => Len(held[t]) > 0 /\ Len(held[t]) <= Len(Cmds(t))
  /\ pc[t] \in {"idle", "claim", "out", "dummy"} => got[t] = {}
  /\ pc[t] = "store" => pend[t].idx \in Idx
  /\ ~Double => stack[t] = 0 /\ ~resent[t] /\ pc[t] \notin {"dummy", "decide", "resend"}
Shapes == \A t \in Threads : Shape(t)

(* The k-th index of t.                                                     *)
Slots(t) == 1 .. Len(held[t])
At(t, k) == held[t][k].i

Separate ==
  \A t, u \in Threads : \A k \in Slots(t), l \in Slots(u) : At(t, k) = At(u, l) => t = u /\ k = l

Kept ==
  /\ \A t \in Threads : \A k \in Slots(t) : stat[0][At(t, k)] # "empty"
  /\ \A i \in Idx : (\A t \in Threads : \A k \in Slots(t) : At(t, k) # i) =>
       stat[0][i] \in {"empty", "rcvd"}

(* A frame of this use of an index carries the datagram it was claimed for, *)
(* unless it is the dummy.                                                  *)
Good(t, k, f) ==
  /\ f.fresh
  /\ f.src = "pri" => f.dg.own = t /\ f.dg.seg = held[t][k].seg
  /\ f.src = "sec" => Double

(* A receive buffer with the answer to the k-th datagram                    *)
Filled(t, k, s) ==
  \/ stat[s][At(t, k)] \in {"rcvd", "complete"} /\ (s = 0 \/ Double)
  \/ k = 1 /\ s \in got[t]

(* The datagram of a slot, and its frames in the sockets, in the hands of   *)
(* who reads them, and in the receive buffers                               *)
GoodTx(t, k)   == txbuf[At(t, k)].own = t /\ txbuf[At(t, k)].seg = held[t][k].seg
GoodSock(t, k) ==
  \A s \in Stacks : \A j \in 1 .. Len(sock[s]) : sock[s][j].idx = At(t, k) => Good(t, k, sock[s][j])
GoodHand(t, k) ==
  \A u \in Threads : pc[u] = "store" /\ pend[u].idx = At(t, k) => Good(t, k, pend[u])
GoodRx(t, k)   == \A s \in Stacks : Filled(t, k, s) => Good(t, k, rxbuf[s][At(t, k)])
GoodSlot(t, k) == GoodTx(t, k) /\ GoodSock(t, k) /\ GoodHand(t, k) /\ GoodRx(t, k)
GoodSlots == \A t \in Threads : \A k \in Slots(t) : GoodSlot(t, k)

Port == Types /\ Shapes /\ Separate /\ Kept /\ GoodSlots

-----------------------------------------------------------------------------
(* Sequences, and the line *)

LEMMA AppendAt ==
  ASSUME NEW S, NEW q \in Seq(S), NEW e \in S
  PROVE  /\ Append(q, e) \in Seq(S) /\ Len(Append(q, e)) = Len(q) + 1
         /\ Append(q, e)[Len(q) + 1] = e
         /\ \A k \in 1 .. Len(q) : Append(q, e)[k] = q[k]
OBVIOUS

LEMMA TailAt ==
  ASSUME NEW S, NEW q \in Seq(S), q # << >>
  PROVE  /\ Len(q) \in Nat /\ Len(q) > 0
         /\ Tail(q) \in Seq(S) /\ Len(Tail(q)) = Len(q) - 1
         /\ Head(q) \in S /\ Head(q) = q[1]
         /\ \A k \in 1 .. Len(q) - 1 : Tail(q)[k] = q[k + 1]
OBVIOUS

LEMMA Bounds == MaxBuf \in Nat \ {0} /\ Slaves \in Nat \ {0}
BY PortAssumption DEF PortAssumption

LEMMA LineParts ==
  ASSUME NEW c \in 0 .. Slaves
  PROVE  /\ Line \in Seq(Nat) /\ SubSeq(Line, 1, c) \in Seq(Nat)
         /\ SubSeq(Line, c + 1, Slaves) \in Seq(Nat)
BY Bounds DEF Line

LEMMA RouteType ==
  ASSUME Types, NEW side \in Stacks, NEW r \in Route(side)
  PROVE  r.to \in Stacks /\ r.by \in Seq(Nat)
<1>1. Line \in Seq(Nat) /\ << >> \in Seq(Nat)
  BY LineParts, Bounds, 0 \in 0 .. Slaves
<1>2. CASE ~Double
  <2>1. r = [to |-> 0, by |-> Line]
    BY <1>2 DEF Route
  <2> QED BY <2>1, <1>1 DEF Stacks
<1>3. CASE Double /\ cut = -1
  <2>1. r = [to |-> 1, by |-> Line] \/ r = [to |-> 0, by |-> << >>]
    BY <1>3 DEF Route
  <2>2. CASE r = [to |-> 1, by |-> Line]
    BY <2>2, <1>1 DEF Stacks
  <2>3. CASE r = [to |-> 0, by |-> << >>]
    BY <2>3 DEF Stacks
  <2> QED BY <2>1, <2>2, <2>3
<1>4. CASE Double /\ cut # -1
  <2>1. SubSeq(Line, 1, cut) \in Seq(Nat) /\ SubSeq(Line, cut + 1, Slaves) \in Seq(Nat)
    <3>1. cut \in 0 .. Slaves
      BY <1>4, Bounds DEF Types
    <3> QED BY <3>1, LineParts
  <2>2. r = [to |-> 0, by |-> SubSeq(Line, 1, cut)] \/ r = [to |-> 1, by |-> SubSeq(Line, cut + 1, Slaves)]
    BY <1>4 DEF Route
  <2>3. CASE r = [to |-> 0, by |-> SubSeq(Line, 1, cut)]
    BY <2>1, <2>3 DEF Stacks
  <2>4. CASE r = [to |-> 1, by |-> SubSeq(Line, cut + 1, Slaves)]
    BY <2>1, <2>4 DEF Stacks
  <2> QED BY <2>2, <2>3, <2>4
<1> QED BY <1>2, <1>3, <1>4
-----------------------------------------------------------------------------
LEMMA PathOf ==
  ASSUME NEW d \in Datagrams, NEW x \in Seq(Nat)
  PROVE  LET e == [d EXCEPT !.path = x] IN
         e \in Datagrams /\ e.own = d.own /\ e.seg = d.seg /\ e.path = x
BY DEF Datagrams

(* What a frame that is sent adds to the sockets                             *)
Sends(i, dg, src) ==
  /\ sock' \in [Stacks -> Seq(Frames)]
  /\ \A s \in Stacks : \A j \in 1 .. Len(sock'[s]) :
       \/ j \in 1 .. Len(sock[s]) /\ sock'[s][j] = sock[s][j]
       \/ LET f == sock'[s][j] IN
          f.idx = i /\ f.fresh /\ f.src = src /\ f.dg.own = dg.own /\ f.dg.seg = dg.seg

LEMMA TransmitSends ==
  ASSUME Types, NEW i \in Idx, NEW dg \in Datagrams, NEW side \in Stacks,
         NEW src \in {"pri", "sec"}, Transmit(i, dg, side, src)
  PROVE  Sends(i, dg, src)
<1>1. CASE UNCHANGED sock
  BY <1>1 DEF Types, Sends
<1>2. ASSUME NEW r \in Route(side),
        sock' = [sock EXCEPT ![r.to] = Append(@,
          [idx |-> i, dg |-> [dg EXCEPT !.path = @ \o r.by], src |-> src, fresh |-> TRUE])]
      PROVE Sends(i, dg, src)
  <2> DEFINE e == [dg EXCEPT !.path = @ \o r.by]
             f == [idx |-> i, dg |-> e, src |-> src, fresh |-> TRUE]
  <2>1. r.to \in Stacks /\ r.by \in Seq(Nat)
    BY RouteType
  <2>2. e \in Datagrams /\ e.own = dg.own /\ e.seg = dg.seg
    <3>1. dg.path \o r.by \in Seq(Nat)
      BY <2>1 DEF Datagrams
    <3>2. e = [dg EXCEPT !.path = dg.path \o r.by]
      OBVIOUS
    <3> QED BY <3>1, <3>2, PathOf
  <2> HIDE DEF e
  <2>3. f \in Frames /\ f.idx = i /\ f.fresh /\ f.src = src /\ f.dg = e
    BY <2>2, Bounds DEF Frames, Idx
  <2> HIDE DEF f
  <2>4. sock' = [sock EXCEPT ![r.to] = Append(sock[r.to], f)]
    BY <1>2 DEF e, f
  <2>5. sock[r.to] \in Seq(Frames)
    BY <2>1 DEF Types
  <2> DEFINE q == Append(sock[r.to], f)
  <2>6. /\ q \in Seq(Frames) /\ Len(q) = Len(sock[r.to]) + 1 /\ Len(sock[r.to]) \in Nat
        /\ q[Len(sock[r.to]) + 1] = f
        /\ \A k \in 1 .. Len(sock[r.to]) : q[k] = sock[r.to][k]
    BY <2>3, <2>5, AppendAt
  <2> HIDE DEF q
  <2>7. sock' \in [Stacks -> Seq(Frames)]
    BY <2>1, <2>4, <2>6 DEF Types, q
  <2>8. ASSUME NEW s \in Stacks, NEW j \in 1 .. Len(sock'[s])
        PROVE \/ j \in 1 .. Len(sock[s]) /\ sock'[s][j] = sock[s][j]
              \/ sock'[s][j] = f
    <3>1. CASE s # r.to
      BY <3>1, <2>1, <2>4 DEF Types
    <3>2. CASE s = r.to
      <4>1. sock'[s] = q
        BY <3>2, <2>1, <2>4 DEF Types, q
      <4> QED BY <4>1, <3>2, <2>6, <2>8
    <3> QED BY <3>1, <3>2
  <2> QED BY <2>2, <2>3, <2>7, <2>8 DEF Sends
<1> QED BY <1>1, <1>2 DEF Transmit
-----------------------------------------------------------------------------
(* The steps of the threads keep Port *)

LEMMA CmdsFew ==
  ASSUME Types, NEW t \in Threads
  PROVE  Len(Cmds(t)) \in Nat /\ Len(Cmds(t)) > 0 /\ \A k \in 1 .. Len(Cmds(t)) : Cmds(t)[k] \in Commands
<1>1. CASE t = Cycle
  <2>1. layout \in Layout /\ Len(layout.cmds) \in 1 .. MaxBuf
    BY PortAssumption DEF PortAssumption, Types
  <2>2. Cmds(t) = layout.cmds /\ layout.cmds \in Seq({"LRW", "LRD", "LWR"})
    BY <1>1, <2>1 DEF Cmds, Layout
  <2> QED BY <2>1, <2>2, Bounds DEF Commands
<1>2. CASE t # Cycle
  BY <1>2 DEF Cmds, Commands
<1> QED BY <1>1, <1>2

(* A step of t that claims and releases no index.                            *)
Works(t) ==
  /\ UNCHANGED <<line, held>>
  /\ Types' /\ Shape(t)'
  /\ \A u \in Threads \ {t} :
       /\ pc'[u] = pc[u] /\ stack'[u] = stack[u] /\ resent'[u] = resent[u]
       /\ got'[u] = got[u] /\ pend'[u] = pend[u]

(* What has to be shown of it, and what does not.                            *)
LEMMA WorksKeep ==
  ASSUME Port, NEW t \in Threads, Works(t), Kept',
         \A u \in Threads : \A k \in Slots(u) : GoodSlot(u, k)'
  PROVE  Port'
<1> USE DEF Port
<1>1. UNCHANGED <<redstate, cut, layout, held>> /\ Types'
  BY DEF Works, line
<1>2. Shapes'
  <2>1. ASSUME NEW u \in Threads, u # t PROVE Shape(u)'
    <3>1. /\ pc'[u] = pc[u] /\ stack'[u] = stack[u] /\ resent'[u] = resent[u] /\ got'[u] = got[u]
          /\ pend'[u] = pend[u] /\ Cmds(u)' = Cmds(u)
      BY <1>1, <2>1 DEF Works, Cmds
    <3> QED BY <1>1, <3>1 DEF Shapes, Shape, Double
  <2> QED BY <2>1 DEF Works, Shapes
<1>3. Separate'
  BY <1>1 DEF Separate, Slots, At
<1>4. GoodSlots'
  BY <1>1 DEF GoodSlots, Slots
<1> QED BY <1>1, <1>2, <1>3, <1>4

LEMMA EntryType ==
  ASSUME Types, NEW t \in Threads, NEW k \in Slots(t)
  PROVE  held[t][k].i \in Idx /\ held[t][k].seg \in Nat
<1>1. held[t] \in Seq(Entries)
  BY DEF Types
<1>2. held[t][k] \in Entries
  BY <1>1 DEF Slots
<1> QED BY <1>2 DEF Entries

LEMMA SlotKeeps ==
  ASSUME Port, NEW t \in Threads, Works(t), NEW u \in Threads, NEW k \in Slots(u)
  PROVE  /\ \A f : Good(u, k, f)' <=> Good(u, k, f)
         /\ At(u, k)' = At(u, k) /\ At(u, k) \in Idx
         /\ txbuf' = txbuf => GoodTx(u, k)'
         /\ (\A s \in Stacks : \A j \in 1 .. Len(sock'[s]) :
               \E l \in 1 .. Len(sock[s]) : sock'[s][j] = sock[s][l]) => GoodSock(u, k)'
         /\ (\A v \in Threads : pc'[v] = "store" => pc[v] = "store" /\ pend'[v] = pend[v])
              => GoodHand(u, k)'
         /\ (\A s \in Stacks : Filled(u, k, s)' =>
               Filled(u, k, s) /\ rxbuf'[s][At(u, k)] = rxbuf[s][At(u, k)]) => GoodRx(u, k)'
<1> USE DEF Port
<1>1. UNCHANGED <<redstate, cut, layout, held>>
  BY DEF Works, line
<1>2. \A f : Good(u, k, f)' <=> Good(u, k, f)
  BY <1>1 DEF Good, Double
<1>3. At(u, k)' = At(u, k) /\ GoodSlot(u, k)
  BY <1>1 DEF At, GoodSlots
<1>4. At(u, k) \in Idx
  BY EntryType DEF At
<1>5. txbuf' = txbuf => GoodTx(u, k)'
  BY <1>1, <1>3 DEF GoodSlot, GoodTx
<1>6. ASSUME \A s \in Stacks : \A j \in 1 .. Len(sock'[s]) :
               \E l \in 1 .. Len(sock[s]) : sock'[s][j] = sock[s][l]
      PROVE  GoodSock(u, k)'
  BY <1>2, <1>3, <1>6 DEF GoodSlot, GoodSock
<1>7. ASSUME \A v \in Threads : pc'[v] = "store" => pc[v] = "store" /\ pend'[v] = pend[v]
      PROVE  GoodHand(u, k)'
  BY <1>2, <1>3, <1>7 DEF GoodSlot, GoodHand
<1>8. ASSUME \A s \in Stacks : Filled(u, k, s)' =>
               Filled(u, k, s) /\ rxbuf'[s][At(u, k)] = rxbuf[s][At(u, k)]
      PROVE  GoodRx(u, k)'
  BY <1>2, <1>3, <1>8 DEF GoodSlot, GoodRx
<1> QED BY <1>2, <1>3, <1>4, <1>5, <1>6, <1>7, <1>8

(* A step that moves t and nothing in the port.                              *)
Moves(t) ==
  /\ UNCHANGED <<port, pend>>
  /\ pc'[t] # "store"
  /\ got'[t] \subseteq got[t]

LEMMA MovesKeep ==
  ASSUME Port, NEW t \in Threads, Works(t), Moves(t)
  PROVE  Port'
<1>1. UNCHANGED <<redstate, lastidx, stat, txbuf, rxbuf, sock, held, pend>>
  BY DEF Moves, Works, line, port
<1>2. Kept'
  BY <1>1 DEF Port, Kept, Slots, At
<1>3. ASSUME NEW u \in Threads, NEW k \in Slots(u) PROVE GoodSlot(u, k)'
  <2>1. \A v \in Threads : pc'[v] = "store" => pc[v] = "store" /\ pend'[v] = pend[v]
    BY <1>1 DEF Moves, Works
  <2>2. \A s \in Stacks : Filled(u, k, s)' => Filled(u, k, s)
    BY <1>1 DEF Filled, Moves, Works, Double, At
  <2>3. \A s \in Stacks : \A j \in 1 .. Len(sock'[s]) : \E l \in 1 .. Len(sock[s]) : sock'[s][j] = sock[s][l]
    BY <1>1
  <2> QED BY <1>1, <2>1, <2>2, <2>3, SlotKeeps DEF GoodSlot
<1> QED BY <1>2, <1>3, WorksKeep

LEMMA BeginKeeps ==
  ASSUME Port, NEW t \in Threads, Begin(t)
  PROVE  Port'
<1> USE DEF Port
<1>1. Len(Cmds(t)) > 0
  BY CmdsFew
<1>2. pc' = [pc EXCEPT ![t] = "claim"] /\ pc[t] = "idle" /\ UNCHANGED <<line, port, held, stack, resent, got, pend>>
  BY DEF Begin, To
<1>3. Shape(t)'
  BY <1>1, <1>2 DEF Shapes, Shape, Types, Cmds, Double, line
<1>4. Works(t)
  BY <1>2, <1>3 DEF Works, Types, Places, line, port
<1> QED BY <1>2, <1>4, MovesKeep DEF Moves, Types

LEMMA ProceedType ==
  ASSUME Types, NEW t \in Threads, NEW g, Proceed(t, g)
  PROVE  /\ pc' \in [Threads -> Places] /\ pc'[t] \in {"look", "test"}
         /\ stack' \in [Threads -> Stacks]
         /\ \A u \in Threads \ {t} : pc'[u] = pc[u] /\ stack'[u] = stack[u]
         /\ ~Double => stack' = stack
BY DEF Types, Proceed, To, Places, Stacks

LEMMA WaitingKeeps ==
  ASSUME Port, NEW t \in Threads, RecvNothing(t) \/ WaitMore(t) \/ Retry(t)
  PROVE  Port'
<1> USE DEF Port
<1>1. CASE RecvNothing(t)
  <2>1. /\ UNCHANGED <<line, port, held, resent, got, pend>>
        /\ pc[t] = "recv" /\ Proceed(t, got[t])
    BY <1>1 DEF RecvNothing
  <2>2. Shape(t)'
    BY <2>1, ProceedType DEF Shapes, Shape, Cmds, Double, line
  <2>3. Works(t)
    BY <2>1, <2>2, ProceedType DEF Works, Types, line, port
  <2> QED BY <2>1, <2>3, ProceedType, MovesKeep DEF Moves
<1>2. CASE WaitMore(t)
  <2>1. /\ UNCHANGED <<line, port, held, resent, got, pend>>
        /\ pc[t] = "test" /\ pc' = [pc EXCEPT ![t] = "look"]
        /\ stack' = [stack EXCEPT ![t] = IF resent[t] \/ 0 \in got[t] THEN 1 ELSE 0]
        /\ ~Complete(t)
    BY <1>2 DEF WaitMore, To
  <2>2. ~Double => stack'[t] = 0
    BY <2>1 DEF Shapes, Shape, Complete, Types
  <2>3. Shape(t)'
    BY <2>1, <2>2 DEF Shapes, Shape, Cmds, Double, line, Types
  <2>4. Works(t)
    BY <2>1, <2>3 DEF Works, Types, Places, Stacks, line, port
  <2> QED BY <2>1, <2>4, MovesKeep DEF Moves, Types
<1>3. CASE Retry(t)
  <2>1. /\ UNCHANGED <<line, port, held, pend>>
        /\ pc[t] = "result" /\ pc' = [pc EXCEPT ![t] = "out"]
        /\ resent' = [resent EXCEPT ![t] = FALSE]
        /\ got' = [got EXCEPT ![t] = {}] /\ stack' = [stack EXCEPT ![t] = 0]
    BY <1>3 DEF Retry, To
  <2>2. Shape(t)'
    BY <2>1 DEF Shapes, Shape, Cmds, Double, line, Types
  <2>3. Works(t)
    BY <2>1, <2>2 DEF Works, Types, Places, Stacks, line, port
  <2> QED BY <2>1, <2>3, MovesKeep DEF Moves, Types
<1> QED BY <1>1, <1>2, <1>3

(* A frame of the k-th slot of t is sent.                                    *)
Emits(t, k, s, dg, src) ==
  /\ stat' = [stat EXCEPT ![s][At(t, k)] = "tx"]
  /\ Sends(At(t, k), dg, src)
  /\ UNCHANGED <<txbuf, rxbuf, pend>>
  /\ src = "pri" => dg.own = t /\ dg.seg = held[t][k].seg
  /\ src = "sec" => Double
  /\ pc'[t] # "store"
  /\ got'[t] \subseteq got[t]

LEMMA EmitsKeep ==
  ASSUME Port, NEW t \in Threads, NEW k \in Slots(t), NEW s \in Stacks, NEW dg, NEW src \in {"pri", "sec"},
         Works(t), Emits(t, k, s, dg, src)
  PROVE  Port'
<1> USE DEF Port
<1>1. At(t, k) \in Idx /\ UNCHANGED <<redstate, held>>
  BY EntryType DEF At, Works, line
<1>2. Kept'
  <2>1. \A i \in Idx : stat'[0][i] = stat[0][i] \/ (i = At(t, k) /\ stat'[0][i] = "tx")
    BY <1>1 DEF Emits, Types
  <2>2. ASSUME NEW u \in Threads, NEW l \in Slots(u) PROVE stat'[0][At(u, l)] # "empty"
    <3>1. At(u, l) \in Idx /\ stat[0][At(u, l)] # "empty"
      BY EntryType DEF At, Kept
    <3> QED BY <2>1, <3>1
  <2> QED BY <1>1, <2>1, <2>2 DEF Kept, Slots, At
<1>3. ASSUME NEW u \in Threads, NEW l \in Slots(u) PROVE GoodSlot(u, l)'
  <2>1. GoodTx(u, l)' /\ GoodHand(u, l)'
    <3>1. \A v \in Threads : pc'[v] = "store" => pc[v] = "store" /\ pend'[v] = pend[v]
      BY DEF Emits, Works
    <3> QED BY <3>1, SlotKeeps DEF Emits
  <2>2. GoodRx(u, l)'
    <3>1. ASSUME NEW r \in Stacks, Filled(u, l, r)'
          PROVE  Filled(u, l, r) /\ rxbuf'[r][At(u, l)] = rxbuf[r][At(u, l)]
      <4>1. rxbuf'[r][At(u, l)] = rxbuf[r][At(u, l)] /\ At(u, l)' = At(u, l) /\ At(u, l) \in Idx
        BY SlotKeeps DEF Emits
      <4>2. stat'[r][At(u, l)] \in {"rcvd", "complete"} => stat'[r][At(u, l)] = stat[r][At(u, l)]
        BY <1>1, <4>1 DEF Emits, Types
      <4>3. r \in got'[u] => r \in got[u]
        BY DEF Emits, Works
      <4> QED BY <1>1, <3>1, <4>1, <4>2, <4>3 DEF Filled, Double
    <3> QED BY <3>1, SlotKeeps
  <2>3. GoodSock(u, l)'
    <3>1. ASSUME NEW r \in Stacks, NEW j \in 1 .. Len(sock'[r]), sock'[r][j].idx = At(u, l)
          PROVE  Good(u, l, sock'[r][j])
      <4>1. CASE j \in 1 .. Len(sock[r]) /\ sock'[r][j] = sock[r][j]
        BY <3>1, <4>1 DEF GoodSlots, GoodSlot, GoodSock
      <4>2. CASE LET f == sock'[r][j] IN
                 f.idx = At(t, k) /\ f.fresh /\ f.src = src /\ f.dg.own = dg.own /\ f.dg.seg = dg.seg
        <5>1. u = t /\ l = k
          <6>1. At(u, l) = At(t, k)
            BY <3>1, <4>2
          <6> QED BY <6>1 DEF Separate
        <5> QED BY <4>2, <5>1 DEF Emits, Good
      <4> QED BY <4>1, <4>2 DEF Emits, Sends
    <3>2. (\A f : Good(u, l, f)' <=> Good(u, l, f)) /\ At(u, l)' = At(u, l)
      BY SlotKeeps
    <3> QED BY <3>1, <3>2 DEF GoodSock
  <2> QED BY <2>1, <2>2, <2>3 DEF GoodSlot
<1> QED BY <1>2, <1>3, WorksKeep

LEMMA SentPlace ==
  ASSUME NEW t
  PROVE  Sent(t) \in {"claim", "look"} /\ (Sent(t) = "claim" => Len(held[t]) < Len(Cmds(t)))
BY DEF Sent

LEMMA SendingKeeps ==
  ASSUME Port, NEW t \in Threads, OutFrame(t) \/ OutDummy(t) \/ Resend(t), clean'
  PROVE  Port'
<1> USE DEF Port
<1> DEFINE n == Len(held[t])
<1>1. /\ redstate' = redstate /\ Cmds(t)' = Cmds(t)
      /\ UNCHANGED <<line, lastidx, rxbuf, txbuf, held, pend>>
  BY DEF OutFrame, OutDummy, Resend, line, Cmds
<1>2. n \in Slots(t) /\ 1 \in Slots(t) /\ n <= Len(Cmds(t)) /\ n \in Nat
  <2>1. held[t] \in Seq(Entries) /\ n > 0 /\ n <= Len(Cmds(t))
    BY DEF OutFrame, OutDummy, Resend, Shapes, Shape, Types
  <2> QED BY <2>1 DEF Slots
<1>3. \A k \in Slots(t) : At(t, k) \in Idx /\ GoodTx(t, k) /\ txbuf[At(t, k)] \in Datagrams
  BY EntryType DEF At, GoodSlots, GoodSlot, Types
<1>4. CASE OutFrame(t)
  <2>1. Cur(t) = At(t, n) /\ pc[t] = "out"
    BY <1>4 DEF OutFrame, Cur, Entry, At
  <2>2. /\ stat' = [stat EXCEPT ![0][At(t, n)] = "tx"]
        /\ Transmit(At(t, n), txbuf[At(t, n)], 0, "pri")
        /\ pc' = [pc EXCEPT ![t] = IF Double THEN "dummy" ELSE Sent(t)]
        /\ UNCHANGED <<stack, resent, got>>
    BY <1>4, <2>1 DEF OutFrame, To
  <2>3. Sends(At(t, n), txbuf[At(t, n)], "pri")
    BY <1>2, <1>3, <2>2, TransmitSends DEF Stacks
  <2>4. Shape(t)'
    BY <1>1, <1>2, <2>1, <2>2, SentPlace DEF Shapes, Shape, Double, Types
  <2>5. Types'
    BY <1>1, <1>2, <1>3, <2>2, <2>3, SentPlace DEF Types, Sends, line, Places, Marks, Stacks
  <2>6. Works(t)
    BY <1>1, <2>2, <2>4, <2>5 DEF Works, Types
  <2>7. Emits(t, n, 0, txbuf[At(t, n)], "pri")
    BY <1>1, <1>2, <1>3, <2>2, <2>3, SentPlace DEF Emits, Types, GoodTx
  <2> QED BY <1>2, <2>6, <2>7, EmitsKeep DEF Stacks
<1>5. CASE OutDummy(t)
  <2>1. Cur(t) = At(t, n) /\ pc[t] = "dummy" /\ Double
    BY <1>5 DEF OutDummy, Cur, Entry, At, Shapes, Shape
  <2>2. /\ stat' = [stat EXCEPT ![1][At(t, n)] = "tx"]
        /\ Transmit(At(t, n), Dummy, 1, "sec")
        /\ pc' = [pc EXCEPT ![t] = Sent(t)]
        /\ UNCHANGED <<stack, resent, got>>
    BY <1>5, <2>1 DEF OutDummy, To
  <2>3. Sends(At(t, n), Dummy, "sec")
    <3>1. Dummy \in Datagrams
      BY DEF Dummy, Datagrams, Commands
    <3> QED BY <1>2, <1>3, <2>2, <3>1, TransmitSends DEF Stacks
  <2>4. Shape(t)'
    BY <1>1, <1>2, <2>1, <2>2, SentPlace DEF Shapes, Shape, Double, Types
  <2>5. Types'
    BY <1>1, <1>2, <1>3, <2>2, <2>3, SentPlace DEF Types, Sends, line, Places, Marks, Stacks
  <2>6. Works(t)
    BY <1>1, <2>2, <2>4, <2>5 DEF Works, Types
  <2>7. Emits(t, n, 1, Dummy, "sec")
    BY <1>1, <1>2, <1>3, <2>1, <2>2, <2>3, SentPlace DEF Emits, Types
  <2> QED BY <1>2, <2>6, <2>7, EmitsKeep DEF Stacks
<1>6. CASE Resend(t)
  <2>1. Cur(t) = At(t, 1) /\ pc[t] = "resend" /\ Double
    BY <1>6 DEF Resend, Cur, Entry, At, Shapes, Shape
  <2>2. /\ stat' = [stat EXCEPT ![1][At(t, 1)] = "tx"]
        /\ Transmit(At(t, 1), txbuf[At(t, 1)], 1, "pri")
        /\ pc' = [pc EXCEPT ![t] = "look"] /\ stack' = [stack EXCEPT ![t] = 1]
        /\ resent' = [resent EXCEPT ![t] = TRUE] /\ got' = [got EXCEPT ![t] = @ \ {1}]
    BY <1>6, <2>1 DEF Resend, To
  <2>3. Sends(At(t, 1), txbuf[At(t, 1)], "pri")
    BY <1>2, <1>3, <2>2, TransmitSends DEF Stacks
  <2>4. Shape(t)'
    BY <1>1, <1>2, <2>1, <2>2 DEF Shapes, Shape, Double, Types
  <2>5. Types'
    BY <1>1, <1>2, <1>3, <2>2, <2>3 DEF Types, Sends, line, Places, Marks, Stacks
  <2>6. Works(t)
    BY <1>1, <2>2, <2>4, <2>5 DEF Works, Types
  <2>7. Emits(t, 1, 1, txbuf[At(t, 1)], "pri")
    BY <1>1, <1>2, <1>3, <2>2, <2>3 DEF Emits, Types, GoodTx
  <2> QED BY <1>2, <2>6, <2>7, EmitsKeep DEF Stacks
<1> QED BY <1>4, <1>5, <1>6

LEMMA ProceedShape ==
  ASSUME Port, NEW t \in Threads, NEW g, Proceed(t, g), pc[t] \in {"look", "recv", "store"},
         UNCHANGED <<line, held, resent>>
  PROVE  Shape(t)'
BY ProceedType DEF Port, Shapes, Shape, Cmds, Double, line

(* The slot and the stack a call is waiting for.                             *)
LEMMA Waits ==
  ASSUME Port, NEW t \in Threads, pc[t] \notin {"idle", "claim", "out", "dummy"}
  PROVE  /\ Len(held[t]) \in Nat /\ 1 \in Slots(t) /\ Cur(t) = At(t, 1) /\ Cur(t) \in Idx
         /\ stack[t] \in Stacks /\ (~Double => stack[t] = 0)
<1> USE DEF Port
<1>1. held[t] \in Seq(Entries) /\ Len(held[t]) > 0
  BY DEF Shapes, Shape, Types
<1>2. 1 \in Slots(t)
  BY <1>1 DEF Slots
<1> QED BY <1>1, <1>2, EntryType DEF Cur, Entry, At, Types, Shapes, Shape

LEMMA LookKeeps ==
  ASSUME Port, NEW t \in Threads, Look(t)
  PROVE  Port'
<1> USE DEF Port
<1> DEFINE r == stack[t]
           i == Cur(t)
<1>1. /\ UNCHANGED <<line, lastidx, txbuf, rxbuf, sock, held, resent, pend>> /\ pc[t] = "look"
      /\ \/ /\ stat[r][i] = "rcvd" /\ stat' = [stat EXCEPT ![r][i] = "complete"]
            /\ got' = [got EXCEPT ![t] = @ \cup {r}] /\ Proceed(t, got[t] \cup {r})
         \/ pc' = [pc EXCEPT ![t] = "recv"] /\ UNCHANGED <<stat, got, stack>>
  BY DEF Look, Gets, To
<1>2. /\ 1 \in Slots(t) /\ i = At(t, 1) /\ i \in Idx
      /\ r \in Stacks /\ (~Double => r = 0)
  BY <1>1, Waits
<1> HIDE DEF r, i
<1>3. CASE pc' = [pc EXCEPT ![t] = "recv"] /\ UNCHANGED <<stat, got, stack>>
  <2>1. Shape(t)'
    BY <1>1, <1>3 DEF Shapes, Shape, Cmds, Double, line, Types
  <2>2. Works(t)
    BY <1>1, <1>3, <2>1 DEF Works, Types, Places, line
  <2> QED BY <1>1, <1>3, <2>2, MovesKeep DEF Moves, port, Types
<1>4. CASE /\ stat[r][i] = "rcvd" /\ stat' = [stat EXCEPT ![r][i] = "complete"]
           /\ got' = [got EXCEPT ![t] = @ \cup {r}] /\ Proceed(t, got[t] \cup {r})
  <2>1. Works(t)
    <3>1. Shape(t)'
      BY <1>1, <1>4, ProceedShape
    <3>2. stat' \in [Stacks -> [Idx -> Marks]] /\ got' \in [Threads -> SUBSET Stacks]
      BY <1>2, <1>4 DEF Types, Marks
    <3>3. Types'
      BY <1>1, <1>4, <3>2, ProceedType DEF Types, line
    <3> QED BY <1>1, <1>4, <3>1, <3>3, ProceedType DEF Works, Types
  <2>2. redstate' = redstate /\ held' = held
    BY <1>1 DEF line
  <2>3. Kept'
    <3>1. \A j \in Idx : stat'[0][j] = stat[0][j] \/ (j = At(t, 1) /\ stat'[0][j] = "complete")
      BY <1>2, <1>4 DEF Types
    <3>2. ASSUME NEW u \in Threads, NEW l \in Slots(u) PROVE stat'[0][At(u, l)] # "empty"
      BY <3>1, EntryType DEF At, Kept
    <3> QED BY <1>2, <2>2, <3>1, <3>2 DEF Kept, Slots, At
  <2>4. ASSUME NEW u \in Threads, NEW k \in Slots(u) PROVE GoodSlot(u, k)'
    <3>1. \A v \in Threads : pc'[v] = "store" => pc[v] = "store" /\ pend'[v] = pend[v]
      BY <1>1, <1>4, ProceedType
    <3>2. ASSUME NEW s \in Stacks, Filled(u, k, s)'
          PROVE  Filled(u, k, s) /\ rxbuf'[s][At(u, k)] = rxbuf[s][At(u, k)]
      <4>1. At(u, k)' = At(u, k) /\ At(u, k) \in Idx
        BY <2>1, SlotKeeps
      <4>2. stat'[s][At(u, k)] = stat[s][At(u, k)] \/ (s = r /\ At(u, k) = i /\ stat[r][i] = "rcvd")
        BY <1>2, <1>4, <4>1 DEF Types
      <4>3. s \in got'[u] => s \in got[u] \/ (u = t /\ s = r)
        BY <1>4 DEF Types
      <4> QED BY <1>1, <1>2, <1>4, <2>2, <3>2, <4>1, <4>2, <4>3 DEF Filled, Double
    <3>3. \A s \in Stacks : \A j \in 1 .. Len(sock'[s]) : \E l \in 1 .. Len(sock[s]) : sock'[s][j] = sock[s][l]
      BY <1>1
    <3> QED BY <1>1, <2>1, <3>1, <3>2, <3>3, SlotKeeps DEF GoodSlot
  <2> QED BY <2>1, <2>3, <2>4, WorksKeep
<1> QED BY <1>1, <1>3, <1>4

LEMMA StoreKeeps ==
  ASSUME Port, NEW t \in Threads, Store(t)
  PROVE  Port'
<1> USE DEF Port
<1> DEFINE r == stack[t]
           f == pend[t]
<1>1. /\ UNCHANGED <<line, lastidx, txbuf, sock, held, resent, got>> /\ pc[t] = "store"
      /\ rxbuf' = [rxbuf EXCEPT ![r][f.idx] = f] /\ stat' = [stat EXCEPT ![r][f.idx] = "rcvd"]
      /\ pend' = [pend EXCEPT ![t] = NoFrame] /\ Proceed(t, got[t])
  BY DEF Store
<1>2. r \in Stacks /\ (~Double => r = 0) /\ f.idx \in Idx /\ f \in Frames
  BY <1>1, Waits DEF Shapes, Shape, Types
<1> HIDE DEF r, f
<1>3. Works(t)
  <2>1. Shape(t)'
    BY <1>1, ProceedShape
  <2>2. NoFrame \in Frames
    BY Bounds DEF NoFrame, Frames, Dummy, Datagrams, Commands
  <2>3. stat' \in [Stacks -> [Idx -> Marks]] /\ rxbuf' \in [Stacks -> [Idx -> Frames]]
    BY <1>1, <1>2 DEF Types, Marks
  <2>4. Types'
    BY <1>1, <2>2, <2>3, ProceedType DEF Types, line
  <2> QED BY <1>1, <2>1, <2>4, ProceedType DEF Works, Types
<1>4. redstate' = redstate /\ held' = held
  BY <1>1 DEF line
<1>5. Kept'
  <2>1. \A j \in Idx : stat'[0][j] = stat[0][j] \/ stat'[0][j] = "rcvd"
    BY <1>1, <1>2 DEF Types
  <2>2. ASSUME NEW u \in Threads, NEW l \in Slots(u) PROVE stat'[0][At(u, l)] # "empty"
    BY <2>1, EntryType DEF At, Kept
  <2> QED BY <1>4, <2>1, <2>2 DEF Kept, Slots, At
<1>6. ASSUME NEW u \in Threads, NEW k \in Slots(u) PROVE GoodSlot(u, k)'
  <2>1. \A v \in Threads : pc'[v] = "store" => pc[v] = "store" /\ pend'[v] = pend[v]
    BY <1>1, ProceedType DEF Types
  <2>2. \A s \in Stacks : \A j \in 1 .. Len(sock'[s]) : \E l \in 1 .. Len(sock[s]) : sock'[s][j] = sock[s][l]
    BY <1>1
  <2>3. At(u, k)' = At(u, k) /\ At(u, k) \in Idx /\ (\A g : Good(u, k, g)' <=> Good(u, k, g))
    BY <1>3, SlotKeeps
  <2>4. GoodRx(u, k)'
    <3>1. CASE At(u, k) = f.idx
      <4>1. Good(u, k, f)
        BY <1>1, <3>1 DEF GoodSlots, GoodSlot, GoodHand, f
      <4>2. ASSUME NEW s \in Stacks, Filled(u, k, s)' PROVE Good(u, k, rxbuf'[s][At(u, k)])
        <5>1. CASE s = r
          BY <1>1, <1>2, <3>1, <4>1, <5>1 DEF Types
        <5>2. CASE s # r
          <6>1. rxbuf'[s] = rxbuf[s] /\ stat'[s] = stat[s]
            BY <1>1, <1>2, <5>2 DEF Types
          <6>2. Filled(u, k, s)
            BY <1>1, <1>4, <2>3, <4>2, <6>1 DEF Filled, Double
          <6> QED BY <6>1, <6>2 DEF GoodSlots, GoodSlot, GoodRx
        <5> QED BY <5>1, <5>2
      <4> QED BY <2>3, <4>2 DEF GoodRx
    <3>2. CASE At(u, k) # f.idx
      <4>1. ASSUME NEW s \in Stacks, Filled(u, k, s)'
            PROVE  Filled(u, k, s) /\ rxbuf'[s][At(u, k)] = rxbuf[s][At(u, k)]
        <5>1. rxbuf'[s][At(u, k)] = rxbuf[s][At(u, k)] /\ stat'[s][At(u, k)] = stat[s][At(u, k)]
          BY <1>1, <1>2, <2>3, <3>2 DEF Types
        <5> QED BY <1>1, <1>4, <2>3, <4>1, <5>1 DEF Filled, Double
      <4> QED BY <1>3, <4>1, SlotKeeps
    <3> QED BY <3>1, <3>2
  <2> QED BY <1>1, <1>3, <2>1, <2>2, <2>4, SlotKeeps DEF GoodSlot
<1> QED BY <1>3, <1>5, <1>6, WorksKeep

LEMMA RecvKeeps ==
  ASSUME Port, NEW t \in Threads, RecvFrame(t)
  PROVE  Port'
<1> USE DEF Port
<1> DEFINE r == stack[t]
           i == Cur(t)
           f == Head(sock[r])
<1>1. /\ UNCHANGED <<line, lastidx, txbuf, held, resent>> /\ pc[t] = "recv" /\ sock[r] # << >>
      /\ sock' = [sock EXCEPT ![r] = Tail(sock[r])]
      /\ \/ /\ f.idx = i /\ rxbuf' = [rxbuf EXCEPT ![r][i] = f]
            /\ stat' = [stat EXCEPT ![r][i] = "complete"]
            /\ got' = [got EXCEPT ![t] = @ \cup {r}] /\ Proceed(t, got[t] \cup {r}) /\ pend' = pend
         \/ /\ f.idx # i /\ f.idx \in Idx
            /\ pend' = [pend EXCEPT ![t] = f] /\ pc' = [pc EXCEPT ![t] = "store"]
            /\ UNCHANGED <<rxbuf, stat, got, stack>>
         \/ Proceed(t, got[t]) /\ UNCHANGED <<rxbuf, stat, got, pend>>
  BY DEF RecvFrame, Gets, To
<1>2. /\ 1 \in Slots(t) /\ i = At(t, 1) /\ i \in Idx
      /\ r \in Stacks /\ (~Double => r = 0)
  BY <1>1, Waits
<1>3. /\ f \in Frames /\ 1 \in 1 .. Len(sock[r]) /\ f = sock[r][1] /\ Tail(sock[r]) \in Seq(Frames)
      /\ \A j \in 1 .. Len(Tail(sock[r])) : j + 1 \in 1 .. Len(sock[r]) /\ Tail(sock[r])[j] = sock[r][j + 1]
  <2>1. sock[r] \in Seq(Frames)
    BY <1>2 DEF Types
  <2> QED BY <1>1, <2>1, TailAt
<1> HIDE DEF r, i, f
<1>4. redstate' = redstate /\ held' = held
  BY <1>1 DEF line
<1>5. sock' \in [Stacks -> Seq(Frames)]
  BY <1>1, <1>2, <1>3 DEF Types
<1>6. \A s \in Stacks : \A j \in 1 .. Len(sock'[s]) : \E l \in 1 .. Len(sock[s]) : sock'[s][j] = sock[s][l]
  <2>1. ASSUME NEW s \in Stacks, NEW j \in 1 .. Len(sock'[s])
        PROVE  \E l \in 1 .. Len(sock[s]) : sock'[s][j] = sock[s][l]
    <3>1. CASE s = r
      <4>1. sock'[s] = Tail(sock[r])
        BY <1>1, <1>2, <3>1 DEF Types
      <4> QED BY <1>3, <3>1, <4>1
    <3>2. CASE s # r
      BY <1>1, <1>2, <3>2 DEF Types
    <3> QED BY <3>1, <3>2
  <2> QED BY <2>1
<1>7. \A u \in Threads : \A k \in Slots(u) : At(u, k) = f.idx => Good(u, k, f)
  BY <1>2, <1>3 DEF GoodSlots, GoodSlot, GoodSock
<1>8. CASE /\ f.idx = i /\ rxbuf' = [rxbuf EXCEPT ![r][i] = f]
           /\ stat' = [stat EXCEPT ![r][i] = "complete"]
           /\ got' = [got EXCEPT ![t] = @ \cup {r}] /\ Proceed(t, got[t] \cup {r}) /\ pend' = pend
  <2>1. Works(t)
    <3>1. Shape(t)'
      BY <1>1, <1>8, ProceedShape
    <3>2. /\ stat' \in [Stacks -> [Idx -> Marks]] /\ got' \in [Threads -> SUBSET Stacks]
          /\ rxbuf' \in [Stacks -> [Idx -> Frames]]
      BY <1>2, <1>3, <1>8 DEF Types, Marks
    <3>3. Types'
      BY <1>1, <1>5, <1>8, <3>2, ProceedType DEF Types, line
    <3> QED BY <1>1, <1>8, <3>1, <3>3, ProceedType DEF Works, Types
  <2>2. Kept'
    <3>1. \A j \in Idx : stat'[0][j] = stat[0][j] \/ (j = At(t, 1) /\ stat'[0][j] = "complete")
      BY <1>2, <1>8 DEF Types
    <3>2. ASSUME NEW u \in Threads, NEW l \in Slots(u) PROVE stat'[0][At(u, l)] # "empty"
      BY <3>1, EntryType DEF At, Kept
    <3> QED BY <1>2, <1>4, <3>1, <3>2 DEF Kept, Slots, At
  <2>3. ASSUME NEW u \in Threads, NEW k \in Slots(u) PROVE GoodSlot(u, k)'
    <3>1. \A v \in Threads : pc'[v] = "store" => pc[v] = "store" /\ pend'[v] = pend[v]
      BY <1>1, <1>8, ProceedType
    <3>2. At(u, k)' = At(u, k) /\ At(u, k) \in Idx /\ (\A g : Good(u, k, g)' <=> Good(u, k, g))
      BY <2>1, SlotKeeps
    <3>3. ASSUME NEW s \in Stacks, Filled(u, k, s)' PROVE Good(u, k, rxbuf'[s][At(u, k)])
      <4>1. CASE s = r /\ At(u, k) = i
        <5>1. rxbuf'[s][At(u, k)] = f
          BY <1>2, <1>8, <4>1 DEF Types
        <5> QED BY <1>7, <1>8, <4>1, <5>1
      <4>2. CASE ~(s = r /\ At(u, k) = i)
        <5>1. stat'[s][At(u, k)] = stat[s][At(u, k)] /\ rxbuf'[s][At(u, k)] = rxbuf[s][At(u, k)]
          BY <1>2, <1>8, <3>2, <4>2 DEF Types
        <5>2. k = 1 /\ s \in got'[u] => s \in got[u]
          BY <1>2, <1>8, <4>2 DEF Types
        <5>3. Filled(u, k, s)
          BY <1>4, <3>2, <3>3, <5>1, <5>2 DEF Filled, Double
        <5> QED BY <5>1, <5>3 DEF GoodSlots, GoodSlot, GoodRx
      <4> QED BY <4>1, <4>2
    <3>4. GoodRx(u, k)'
      BY <3>2, <3>3 DEF GoodRx
    <3> QED BY <1>1, <1>6, <2>1, <3>1, <3>4, SlotKeeps DEF GoodSlot
  <2> QED BY <2>1, <2>2, <2>3, WorksKeep
<1>9. CASE \/ /\ f.idx # i /\ f.idx \in Idx
              /\ pend' = [pend EXCEPT ![t] = f] /\ pc' = [pc EXCEPT ![t] = "store"]
              /\ UNCHANGED <<rxbuf, stat, got, stack>>
           \/ Proceed(t, got[t]) /\ UNCHANGED <<rxbuf, stat, got, pend>>
  <2>1. Works(t)
    <3>1. Shape(t)'
      <4>1. CASE f.idx \in Idx /\ pend' = [pend EXCEPT ![t] = f]
                 /\ pc' = [pc EXCEPT ![t] = "store"] /\ UNCHANGED <<rxbuf, stat, got, stack>>
        BY <1>1, <1>2, <4>1 DEF Shapes, Shape, Cmds, Double, line, Types
      <4>2. CASE Proceed(t, got[t])
        BY <1>1, <4>2, ProceedShape
      <4> QED BY <1>9, <4>1, <4>2
    <3>2. pc' \in [Threads -> Places] /\ stack' \in [Threads -> Stacks] /\ pend' \in [Threads -> Frames]
      BY <1>3, <1>9, ProceedType DEF Types, Places
    <3>3. Types'
      BY <1>1, <1>5, <1>9, <3>2 DEF Types, line
    <3> QED BY <1>1, <1>9, <3>1, <3>3, ProceedType DEF Works, Types
  <2>2. Kept'
    BY <1>4, <1>9 DEF Kept, Slots, At
  <2>3. ASSUME NEW u \in Threads, NEW k \in Slots(u) PROVE GoodSlot(u, k)'
    <3>1. At(u, k)' = At(u, k) /\ At(u, k) \in Idx /\ (\A g : Good(u, k, g)' <=> Good(u, k, g))
      BY <2>1, SlotKeeps
    <3>2. GoodHand(u, k)'
      <4>1. ASSUME NEW v \in Threads, pc'[v] = "store", pend'[v].idx = At(u, k)
            PROVE  Good(u, k, pend'[v])
        <5>1. CASE pc[v] = "store" /\ pend'[v] = pend[v]
          BY <4>1, <5>1 DEF GoodSlots, GoodSlot, GoodHand
        <5>2. CASE pend'[v] = f
          BY <1>7, <4>1, <5>2
        <5> QED BY <1>1, <1>9, <4>1, <5>1, <5>2, ProceedType DEF Types
      <4> QED BY <3>1, <4>1 DEF GoodHand
    <3>3. \A s \in Stacks : Filled(u, k, s)' => Filled(u, k, s) /\ rxbuf'[s][At(u, k)] = rxbuf[s][At(u, k)]
      BY <1>4, <1>9, <3>1 DEF Filled, Double
    <3> QED BY <1>1, <1>6, <2>1, <3>2, <3>3, SlotKeeps DEF GoodSlot
  <2> QED BY <2>1, <2>2, <2>3, WorksKeep
<1> QED BY <1>1, <1>8, <1>9

(* What came over the secondary socket is put into the primary buffer.       *)
Copies(t) ==
  /\ 1 \in got[t] /\ rxbuf' = [rxbuf EXCEPT ![0][Cur(t)] = rxbuf[1][Cur(t)]]
  /\ UNCHANGED <<stat, txbuf, sock, pend>>
  /\ pc'[t] # "store" /\ got'[t] \subseteq got[t] \cup {0}

LEMMA CopiesKeep ==
  ASSUME Port, NEW t \in Threads, Works(t), Copies(t),
         1 \in Slots(t), Cur(t) = At(t, 1), Cur(t) \in Idx
  PROVE  Port'
<1> USE DEF Port
<1>1. redstate' = redstate /\ held' = held
  BY DEF Works, line
<1>2. Kept'
  BY <1>1 DEF Copies, Kept, Slots, At
<1>3. ASSUME NEW u \in Threads, NEW k \in Slots(u) PROVE GoodSlot(u, k)'
  <2>1. \A v \in Threads : pc'[v] = "store" => pc[v] = "store" /\ pend'[v] = pend[v]
    BY DEF Copies, Works
  <2>2. At(u, k)' = At(u, k) /\ At(u, k) \in Idx /\ (\A g : Good(u, k, g)' <=> Good(u, k, g))
    BY SlotKeeps
  <2>3. ASSUME NEW s \in Stacks, Filled(u, k, s)' PROVE Good(u, k, rxbuf'[s][At(u, k)])
    <3>1. CASE s = 0 /\ At(u, k) = Cur(t)
      <4>1. u = t /\ k = 1
        BY <3>1 DEF Separate
      <4>2. Filled(t, 1, 1)
        BY DEF Copies, Filled
      <4>3. Good(t, 1, rxbuf[1][At(t, 1)])
        BY <4>2 DEF GoodSlots, GoodSlot, GoodRx, Stacks
      <4>4. rxbuf'[s][At(u, k)] = rxbuf[1][At(t, 1)]
        BY <3>1 DEF Copies, Types, Stacks
      <4> QED BY <4>1, <4>3, <4>4
    <3>2. CASE ~(s = 0 /\ At(u, k) = Cur(t))
      <4>1. rxbuf'[s][At(u, k)] = rxbuf[s][At(u, k)]
        BY <2>2, <3>2 DEF Copies, Types
      <4>2. k = 1 /\ s \in got'[u] => s \in got[u]
        BY <3>2 DEF Copies, Works
      <4>3. Filled(u, k, s)
        BY <1>1, <2>2, <2>3, <4>2 DEF Filled, Double, Copies
      <4> QED BY <4>1, <4>3 DEF GoodSlots, GoodSlot, GoodRx
    <3> QED BY <3>1, <3>2
  <2>4. GoodRx(u, k)'
    BY <2>2, <2>3 DEF GoodRx
  <2>5. \A s \in Stacks : \A j \in 1 .. Len(sock'[s]) : \E l \in 1 .. Len(sock[s]) : sock'[s][j] = sock[s][l]
    BY DEF Copies
  <2> QED BY <2>1, <2>4, <2>5, SlotKeeps DEF GoodSlot, Copies
<1> QED BY <1>2, <1>3, WorksKeep

LEMMA WaitedKeeps ==
  ASSUME Port, NEW t \in Threads, Waited(t)
  PROVE  Port'
<1> USE DEF Port
<1>1. /\ UNCHANGED <<line, lastidx, stat, txbuf, sock, held, stack, resent, pend>> /\ pc[t] = "test"
      /\ pc' = [pc EXCEPT ![t] = IF Double /\ ~resent[t] THEN "decide" ELSE "result"]
      /\ \/ /\ 1 \in got[t] /\ rxbuf' = [rxbuf EXCEPT ![0][Cur(t)] = rxbuf[1][Cur(t)]]
            /\ got' = [got EXCEPT ![t] = got[t] \cup {0}]
         \/ UNCHANGED <<rxbuf, got>>
  BY DEF Waited, To
<1>2. 1 \in Slots(t) /\ Cur(t) = At(t, 1) /\ Cur(t) \in Idx
  BY <1>1, Waits
<1>3. Works(t)
  <2>1. Shape(t)'
    BY <1>1 DEF Shapes, Shape, Cmds, Double, line, Types
  <2>2. rxbuf' \in [Stacks -> [Idx -> Frames]] /\ got' \in [Threads -> SUBSET Stacks]
    <3>1. got' \in [Threads -> SUBSET Stacks]
      <4>1. CASE got' = [got EXCEPT ![t] = got[t] \cup {0}]
        BY <4>1 DEF Types, Stacks
      <4> QED BY <1>1, <4>1 DEF Types
    <3>2. rxbuf' \in [Stacks -> [Idx -> Frames]]
      <4>1. CASE rxbuf' = [rxbuf EXCEPT ![0][Cur(t)] = rxbuf[1][Cur(t)]]
        BY <1>2, <4>1 DEF Types, Stacks
      <4> QED BY <1>1, <4>1 DEF Types
    <3> QED BY <3>1, <3>2
  <2>3. Types'
    BY <1>1, <2>2 DEF Types, line, Places
  <2> QED BY <1>1, <2>1, <2>3 DEF Works, Types
<1>4. CASE 1 \in got[t] /\ rxbuf' = [rxbuf EXCEPT ![0][Cur(t)] = rxbuf[1][Cur(t)]]
           /\ got' = [got EXCEPT ![t] = got[t] \cup {0}]
  <2>1. Copies(t)
    BY <1>1, <1>4 DEF Copies, Types
  <2> QED BY <1>2, <1>3, <2>1, CopiesKeep
<1>5. CASE UNCHANGED <<rxbuf, got>>
  <2>1. Moves(t)
    BY <1>1, <1>5 DEF Moves, Types, port
  <2> QED BY <1>3, <2>1, MovesKeep
<1> QED BY <1>1, <1>4, <1>5

LEMMA DecideKeeps ==
  ASSUME Port, NEW t \in Threads, Decide(t)
  PROVE  Port'
<1> USE DEF Port
<1>1. /\ UNCHANGED <<line, lastidx, stat, sock, held, stack, resent, got, pend>> /\ pc[t] = "decide"
      /\ \/ /\ 1 \in got[t] /\ rxbuf' = [rxbuf EXCEPT ![0][Cur(t)] = rxbuf[1][Cur(t)]]
            /\ pc' = [pc EXCEPT ![t] = "result"] /\ txbuf' = txbuf
         \/ /\ 0 \in got[t] /\ rxbuf[0][Cur(t)].src = "pri"
            /\ txbuf' = [txbuf EXCEPT ![Cur(t)] = rxbuf[0][Cur(t)].dg]
            /\ pc' = [pc EXCEPT ![t] = "resend"] /\ rxbuf' = rxbuf
         \/ pc' = [pc EXCEPT ![t] = "resend"] /\ UNCHANGED <<txbuf, rxbuf>>
         \/ pc' = [pc EXCEPT ![t] = "result"] /\ UNCHANGED <<txbuf, rxbuf>>
  BY DEF Decide, To, Source
<1>2. 1 \in Slots(t) /\ Cur(t) = At(t, 1) /\ Cur(t) \in Idx
  BY <1>1, Waits
<1>3. redstate' = redstate /\ held' = held /\ cut' = cut /\ layout' = layout
  BY <1>1 DEF line
<1>4. Shape(t)' /\ pc' \in [Threads -> Places] /\ \A u \in Threads \ {t} : pc'[u] = pc[u]
  BY <1>1, <1>3 DEF Shapes, Shape, Cmds, Double, Types, Places
<1>5. pc'[t] # "store"
  BY <1>1 DEF Types
<1>6. CASE 1 \in got[t] /\ rxbuf' = [rxbuf EXCEPT ![0][Cur(t)] = rxbuf[1][Cur(t)]] /\ txbuf' = txbuf
  <2>1. rxbuf' \in [Stacks -> [Idx -> Frames]]
    BY <1>2, <1>6 DEF Types, Stacks
  <2>2. Types'
    BY <1>1, <1>3, <1>4, <1>6, <2>1 DEF Types
  <2>3. Works(t)
    BY <1>1, <1>4, <2>2 DEF Works
  <2>4. Copies(t)
    BY <1>1, <1>5, <1>6 DEF Copies
  <2> QED BY <1>2, <2>3, <2>4, CopiesKeep
<1>7. CASE /\ 0 \in got[t] /\ rxbuf[0][Cur(t)].src = "pri" /\ rxbuf' = rxbuf
           /\ txbuf' = [txbuf EXCEPT ![Cur(t)] = rxbuf[0][Cur(t)].dg]
  <2>1. rxbuf[0][Cur(t)] \in Frames
    BY <1>2 DEF Types, Stacks
  <2>2. rxbuf[0][Cur(t)].dg \in Datagrams
    BY <2>1 DEF Frames
  <2>3. Types'
    BY <1>1, <1>2, <1>3, <1>4, <1>7, <2>2 DEF Types
  <2>4. Works(t)
    BY <1>1, <1>4, <2>3 DEF Works
  <2>5. Kept'
    BY <1>1, <1>3 DEF Kept, Slots, At
  <2>6. Good(t, 1, rxbuf[0][At(t, 1)])
    <3>1. Filled(t, 1, 0)
      BY <1>7 DEF Filled
    <3> QED BY <1>2, <3>1 DEF GoodSlots, GoodSlot, GoodRx, Stacks
  <2>7. ASSUME NEW u \in Threads, NEW k \in Slots(u) PROVE GoodSlot(u, k)'
    <3>1. \A v \in Threads : pc'[v] = "store" => pc[v] = "store" /\ pend'[v] = pend[v]
      BY <1>1, <1>4, <1>5
    <3>2. At(u, k)' = At(u, k) /\ At(u, k) \in Idx /\ held'[u][k] = held[u][k]
      BY <1>3, <2>4, SlotKeeps
    <3>3. GoodTx(u, k)'
      <4>1. CASE At(u, k) = Cur(t)
        <5>1. u = t /\ k = 1
          BY <1>2, <4>1 DEF Separate
        <5>2. txbuf'[At(u, k)] = rxbuf[0][At(t, 1)].dg
          BY <1>2, <1>7, <4>1 DEF Types
        <5> QED BY <1>2, <1>7, <2>6, <3>2, <5>1, <5>2 DEF Good, GoodTx
      <4>2. CASE At(u, k) # Cur(t)
        <5>1. txbuf'[At(u, k)] = txbuf[At(u, k)]
          BY <1>2, <1>7, <3>2, <4>2 DEF Types
        <5> QED BY <3>2, <5>1 DEF GoodSlots, GoodSlot, GoodTx
      <4> QED BY <4>1, <4>2
    <3>4. \A s \in Stacks : Filled(u, k, s)' => Filled(u, k, s) /\ rxbuf'[s][At(u, k)] = rxbuf[s][At(u, k)]
      BY <1>1, <1>3, <1>7, <3>2 DEF Filled, Double
    <3>5. \A s \in Stacks : \A j \in 1 .. Len(sock'[s]) : \E l \in 1 .. Len(sock[s]) : sock'[s][j] = sock[s][l]
      BY <1>1
    <3> QED BY <2>4, <3>1, <3>3, <3>4, <3>5, SlotKeeps DEF GoodSlot
  <2> QED BY <2>4, <2>5, <2>7, WorksKeep
<1>8. CASE UNCHANGED <<txbuf, rxbuf>>
  <2>1. Types'
    BY <1>1, <1>3, <1>4, <1>8 DEF Types
  <2>2. Works(t)
    BY <1>1, <1>4, <2>1 DEF Works
  <2>3. Moves(t)
    BY <1>1, <1>5, <1>8 DEF Moves, port
  <2> QED BY <2>2, <2>3, MovesKeep
<1> QED BY <1>1, <1>6, <1>7, <1>8

-----------------------------------------------------------------------------
(* An index is claimed, an index is given back *)

LEMMA ForeignType == Foreign \in Frames /\ Foreign.idx = MaxBuf /\ MaxBuf \notin Idx
<1>1. NoFrame \in Frames
  BY Bounds DEF NoFrame, Frames, Dummy, Datagrams, Commands
<1> QED BY <1>1, Bounds DEF Foreign, Frames, Idx

(* What becomes of the frames that wait when an index is claimed             *)
LEMMA ClaimSock ==
  ASSUME Types, NEW i, ComeRound(i)
  PROVE  /\ sock' \in [Stacks -> Seq(Frames)]
         /\ \A s \in Stacks : /\ Len(sock[s]) \in Nat /\ Len(sock'[s]) = Len(sock[s])
                              /\ \A j \in 1 .. Len(sock[s]) : sock'[s][j] = Outdated(i, sock[s][j])
<1>1. ASSUME NEW s \in Stacks
      PROVE  /\ Len(sock[s]) \in Nat
             /\ sock'[s] \in Seq(Frames) /\ Len(sock'[s]) = Len(sock[s])
             /\ \A j \in 1 .. Len(sock[s]) : sock'[s][j] = Outdated(i, sock[s][j])
  <2>1. sock[s] \in Seq(Frames)
    BY DEF Types
  <2>2. \A j \in 1 .. Len(sock[s]) : sock[s][j] \in Frames /\ Outdated(i, sock[s][j]) \in Frames
    BY <2>1, ForeignType DEF Outdated
  <2>3. sock'[s] = [k \in 1 .. Len(sock[s]) |-> Outdated(i, sock[s][k])]
    BY DEF ComeRound
  <2> QED BY <2>1, <2>2, <2>3
<1>2. sock' \in [Stacks -> Seq(Frames)]
  BY <1>1 DEF ComeRound
<1> QED BY <1>1, <1>2

LEMMA LateType ==
  ASSUME NEW i \in Idx, NEW f \in Frames
  PROVE  Late(i, f) \in Frames /\ Late(i, f).idx = f.idx /\ (f.idx # i => Late(i, f) = f)
<1>1. NoFrame \in Frames
  BY Bounds DEF NoFrame, Frames, Dummy, Datagrams, Commands
<1> QED BY <1>1, Bounds DEF Late, Frames, Idx

(* and when one is given back                                                *)
LEMMA ReleaseSock ==
  ASSUME Types, NEW t, Cur(t) \in Idx, Release(t)
  PROVE  /\ sock' \in [Stacks -> Seq(Frames)]
         /\ \A s \in Stacks :
              /\ Len(sock[s]) \in Nat /\ Len(sock'[s]) = Len(sock[s])
              /\ \A j \in 1 .. Len(sock[s]) :
                   /\ sock'[s][j].idx = sock[s][j].idx
                   /\ sock[s][j].idx # Cur(t) => sock'[s][j] = sock[s][j]
<1> DEFINE i == Cur(t)
<1>1. ASSUME NEW s \in Stacks
      PROVE  /\ Len(sock[s]) \in Nat
             /\ sock'[s] \in Seq(Frames) /\ Len(sock'[s]) = Len(sock[s])
             /\ \A j \in 1 .. Len(sock[s]) : sock[s][j] \in Frames /\ sock'[s][j] = Late(i, sock[s][j])
  <2>1. sock[s] \in Seq(Frames)
    BY DEF Types
  <2>2. \A j \in 1 .. Len(sock[s]) : sock[s][j] \in Frames /\ Late(i, sock[s][j]) \in Frames
    BY <2>1, LateType
  <2>3. sock'[s] = [k \in 1 .. Len(sock[s]) |-> Late(i, sock[s][k])]
    BY DEF Release
  <2> QED BY <2>1, <2>2, <2>3
<1> HIDE DEF i
<1>2. sock' \in [Stacks -> Seq(Frames)]
  BY <1>1 DEF Release, i
<1> QED BY <1>1, <1>2, LateType DEF i

LEMMA ClaimKeeps ==
  ASSUME Port, NEW t \in Threads, Claim(t), clean'
  PROVE  Port'
<1> USE DEF Port
<1> DEFINE i == Found
           n == Len(held[t])
           e == [i |-> i, seg |-> n + 1]
           dg == [own |-> t, seg |-> n + 1, cmd |-> Cmds(t)[n + 1], path |-> << >>]
<1>1. /\ UNCHANGED <<line, rxbuf, stack, resent, got, pend>> /\ pc[t] = "claim" /\ i \in Free
      /\ \A u \in Threads : pc[u] = "store" => pend[u].idx # i
      /\ ComeRound(i)
      /\ stat' = [s \in Stacks |-> IF s = 0 \/ redstate = "double"
                                   THEN [stat[s] EXCEPT ![i] = "alloc"] ELSE stat[s]]
      /\ txbuf' = [txbuf EXCEPT ![i] = dg] /\ held' = [held EXCEPT ![t] = Append(held[t], e)]
      /\ pc' = [pc EXCEPT ![t] = "out"]
  BY DEF Claim, To, ComeRound
<1>2. redstate' = redstate /\ cut' = cut /\ layout' = layout /\ \A u \in Threads : Cmds(u)' = Cmds(u)
  BY <1>1 DEF line, Cmds
<1>3. i \in Idx /\ stat[0][i] = "empty"
  BY <1>1 DEF Free
<1>4. \A u \in Threads : \A k \in Slots(u) : At(u, k) # i /\ At(u, k) \in Idx
  BY <1>3, EntryType DEF Kept, At
<1> HIDE DEF i
<1>5. /\ held[t] \in Seq(Entries) /\ n \in Nat /\ n < Len(Cmds(t)) /\ Len(Cmds(t)) \in Nat /\ got[t] = {}
  BY <1>1, CmdsFew DEF Shapes, Shape, Types
<1>6. e \in Entries /\ dg \in Datagrams
  <2>1. Cmds(t)[n + 1] \in Commands
    BY <1>5, CmdsFew
  <2> QED BY <1>3, <1>5, <2>1 DEF Entries, Datagrams
<1>7. /\ held'[t] \in Seq(Entries) /\ Len(held'[t]) = n + 1 /\ held'[t][n + 1] = e
      /\ \A k \in 1 .. n : held'[t][k] = held[t][k]
      /\ \A u \in Threads \ {t} : held'[u] = held[u]
      /\ held' \in [Threads -> Seq(Entries)]
  <2>1. held'[t] = Append(held[t], e) /\ \A u \in Threads \ {t} : held'[u] = held[u]
    BY <1>1 DEF Types
  <2>2. Append(held[t], e) \in Seq(Entries)
    BY <1>5, <1>6, AppendAt
  <2>3. held' \in [Threads -> Seq(Entries)]
    BY <1>1, <2>2 DEF Types
  <2> QED BY <1>5, <1>6, <2>1, <2>2, <2>3, AppendAt
<1> HIDE DEF e, dg
<1>8. ASSUME NEW u \in Threads, NEW k \in Slots(u)'
      PROVE  \/ k \in Slots(u) /\ held'[u][k] = held[u][k]
             \/ u = t /\ k = n + 1 /\ held'[u][k] = e
  <2>1. CASE u = t
    <3>1. k \in 1 .. n + 1
      BY <1>7, <2>1 DEF Slots
    <3> QED BY <1>5, <1>7, <2>1, <3>1 DEF Slots
  <2>2. CASE u # t
    BY <1>7, <2>2 DEF Slots
  <2> QED BY <2>1, <2>2
<1>9. e.i = i /\ e.seg = n + 1 /\ dg.own = t /\ dg.seg = n + 1
  BY DEF e, dg
<1>10. \A u \in Threads : \A k \in Slots(u)' :
         \/ k \in Slots(u) /\ At(u, k)' = At(u, k) /\ At(u, k) # i
         \/ u = t /\ k = n + 1 /\ At(u, k)' = i
  BY <1>4, <1>8, <1>9 DEF At
<1>11. \A u \in Threads : \A k \in Slots(u) : k \in Slots(u)' /\ At(u, k)' = At(u, k)
  <2>1. ASSUME NEW u \in Threads, NEW k \in Slots(u) PROVE k \in Slots(u)' /\ At(u, k)' = At(u, k)
    <3>1. CASE u = t
      BY <1>5, <1>7, <3>1 DEF Slots, At
    <3>2. CASE u # t
      BY <1>7, <3>2 DEF Slots, At
    <3> QED BY <3>1, <3>2
  <2> QED BY <2>1
<1>12. Foreign.idx = MaxBuf /\ MaxBuf \notin Idx
  BY ForeignType
<1>13. /\ sock' \in [Stacks -> Seq(Frames)]
       /\ \A s \in Stacks : \A j \in 1 .. Len(sock'[s]) :
            \/ sock'[s][j] = Foreign
            \/ j \in 1 .. Len(sock[s]) /\ sock'[s][j] = sock[s][j] /\ sock[s][j].idx # i
  BY <1>1, ClaimSock DEF Outdated
<1>14. /\ stat' \in [Stacks -> [Idx -> Marks]]
       /\ \A s \in Stacks : \A j \in Idx : j # i => stat'[s][j] = stat[s][j]
       /\ \A s \in Stacks : s = 0 \/ Double => stat'[s][i] = "alloc"
  BY <1>1, <1>3 DEF Types, Marks, Stacks, Double
<1>15. /\ txbuf' \in [Idx -> Datagrams] /\ txbuf'[i] = dg
       /\ \A j \in Idx : j # i => txbuf'[j] = txbuf[j]
  BY <1>1, <1>3, <1>6 DEF Types
<1>16. Types'
  BY <1>1, <1>2, <1>7, <1>13, <1>14, <1>15 DEF Types, Places
<1>17. Shapes'
  <2>1. ASSUME NEW u \in Threads, u # t PROVE Shape(u)'
    BY <1>1, <1>2, <1>7, <2>1 DEF Shapes, Shape, Double, Types
  <2>2. Shape(t)'
    <3>1. pc'[t] = "out" /\ Len(held'[t]) > 0 /\ Len(held'[t]) <= Len(Cmds(t))
      BY <1>1, <1>5, <1>7 DEF Types
    <3> QED BY <1>1, <1>2, <1>5, <3>1 DEF Shapes, Shape, Double
  <2> QED BY <2>1, <2>2 DEF Shapes
<1>18. Separate'
  <2>1. ASSUME NEW u \in Threads, NEW v \in Threads, NEW k \in Slots(u)', NEW l \in Slots(v)', At(u, k)' = At(v, l)'
        PROVE  u = v /\ k = l
    BY <1>4, <1>10, <2>1 DEF Separate
  <2> QED BY <2>1 DEF Separate
<1>19. Kept'
  <2>1. ASSUME NEW u \in Threads, NEW k \in Slots(u)' PROVE stat'[0][At(u, k)'] # "empty"
    <3>1. CASE k \in Slots(u) /\ At(u, k)' = At(u, k) /\ At(u, k) # i
      BY <1>4, <1>14, <3>1 DEF Kept, Stacks
    <3>2. CASE At(u, k)' = i
      BY <1>14, <3>2 DEF Stacks
    <3> QED BY <1>10, <3>1, <3>2
  <2>2. ASSUME NEW j \in Idx, \A u \in Threads : \A k \in Slots(u)' : At(u, k)' # j
        PROVE  stat'[0][j] \in {"empty", "rcvd"}
    <3> PICK m \in Nat : m = n + 1
      BY <1>5
    <3>1. m \in Slots(t)' /\ At(t, m)' = i
      BY <1>5, <1>7, <1>9 DEF Slots, At
    <3>2. j # i /\ \A u \in Threads : \A k \in Slots(u) : At(u, k) # j
      BY <1>11, <2>2, <3>1
    <3> QED BY <1>14, <3>2 DEF Kept, Stacks
  <2> QED BY <2>1, <2>2 DEF Kept
<1>20. ASSUME NEW u \in Threads, NEW k \in Slots(u)' PROVE GoodSlot(u, k)'
  <2>1. CASE k \in Slots(u) /\ held'[u][k] = held[u][k]
    <3>1. At(u, k)' = At(u, k) /\ At(u, k) # i /\ At(u, k) \in Idx /\ (\A g : Good(u, k, g)' <=> Good(u, k, g))
      BY <1>2, <1>4, <2>1 DEF At, Good, Double
    <3>2. GoodTx(u, k)'
      BY <1>15, <2>1, <3>1 DEF GoodSlots, GoodSlot, GoodTx
    <3>3. GoodSock(u, k)'
      BY <1>12, <1>13, <2>1, <3>1 DEF GoodSlots, GoodSlot, GoodSock
    <3>4. GoodHand(u, k)'
      <4>1. \A v \in Threads : pc'[v] = "store" => pc[v] = "store"
        BY <1>1 DEF Types
      <4> QED BY <1>1, <2>1, <3>1, <4>1 DEF GoodSlots, GoodSlot, GoodHand
    <3>5. GoodRx(u, k)'
      <4>1. \A s \in Stacks : Filled(u, k, s)' => Filled(u, k, s)
        BY <1>1, <1>2, <1>14, <3>1 DEF Filled, Double
      <4> QED BY <1>1, <2>1, <3>1, <4>1 DEF GoodSlots, GoodSlot, GoodRx
    <3> QED BY <3>2, <3>3, <3>4, <3>5 DEF GoodSlot
  <2>2. CASE u = t /\ k = n + 1 /\ held'[u][k] = e
    <3>1. At(u, k)' = i
      BY <1>9, <2>2 DEF At
    <3>2. GoodTx(u, k)'
      BY <1>9, <1>15, <2>2, <3>1 DEF GoodTx
    <3>3. GoodSock(u, k)'
      BY <1>3, <1>12, <1>13, <3>1 DEF GoodSock
    <3>4. GoodHand(u, k)'
      <4>1. \A v \in Threads : pc'[v] = "store" => pc[v] = "store"
        BY <1>1 DEF Types
      <4> QED BY <1>1, <3>1, <4>1 DEF GoodHand
    <3>5. GoodRx(u, k)'
      <4>1. \A s \in Stacks : ~Filled(u, k, s)'
        BY <1>1, <1>2, <1>5, <1>14, <2>2, <3>1 DEF Filled, Double
      <4> QED BY <4>1 DEF GoodRx
    <3> QED BY <3>2, <3>3, <3>4, <3>5 DEF GoodSlot
  <2> QED BY <1>8, <2>1, <2>2
<1> QED BY <1>16, <1>17, <1>18, <1>19, <1>20 DEF GoodSlots

LEMMA ReleaseKeeps ==
  ASSUME Port, NEW t \in Threads, Release(t), pc[t] = "result", UNCHANGED line
  PROVE  Port'
<1> USE DEF Port
<1> DEFINE i == Cur(t)
<1>1. /\ stat' = [s \in Stacks |-> IF s = 0 \/ redstate = "double"
                                   THEN [stat[s] EXCEPT ![i] = "empty"] ELSE stat[s]]
      /\ sock' = [s \in Stacks |-> [k \in 1 .. Len(sock[s]) |-> Late(i, sock[s][k])]]
      /\ rxbuf' = [s \in Stacks |-> [rxbuf[s] EXCEPT ![i] = NoFrame]]
      /\ pend' = [u \in Threads |-> Late(i, pend[u])]
      /\ held' = [held EXCEPT ![t] = Tail(held[t])]
      /\ resent' = [resent EXCEPT ![t] = FALSE]
      /\ got' = [got EXCEPT ![t] = {}]
      /\ stack' = [stack EXCEPT ![t] = 0]
      /\ pc' = [pc EXCEPT ![t] = IF Len(held[t]) > 1 THEN "look" ELSE "idle"]
      /\ txbuf' = [txbuf EXCEPT ![i] = Dummy]
  BY DEF Release, To
<1>2. redstate' = redstate /\ cut' = cut /\ layout' = layout /\ \A u \in Threads : Cmds(u)' = Cmds(u)
  BY DEF line, Cmds
<1>3. i = At(t, 1) /\ i \in Idx /\ 1 \in Slots(t)
  BY Waits
<1> HIDE DEF i
<1>4. /\ held[t] \in Seq(Entries) /\ held[t] # << >> /\ Len(held[t]) <= Len(Cmds(t)) /\ Len(held[t]) > 0
      /\ Len(Cmds(t)) \in Nat
  <2>1. held[t] \in Seq(Entries) /\ Len(held[t]) <= Len(Cmds(t)) /\ Len(held[t]) > 0
    BY DEF Shapes, Shape, Types
  <2>2. held[t] # << >>
    BY <2>1
  <2> QED BY <2>1, <2>2, CmdsFew
<1>5. /\ Len(held[t]) \in Nat /\ held'[t] \in Seq(Entries) /\ Len(held'[t]) = Len(held[t]) - 1
      /\ \A k \in 1 .. Len(held[t]) - 1 : held'[t][k] = held[t][k + 1]
      /\ \A u \in Threads \ {t} : held'[u] = held[u]
      /\ held' \in [Threads -> Seq(Entries)]
  <2>1. held'[t] = Tail(held[t]) /\ \A u \in Threads \ {t} : held'[u] = held[u]
    BY <1>1 DEF Types
  <2>2. Tail(held[t]) \in Seq(Entries)
    BY <1>4, TailAt
  <2>3. held' \in [Threads -> Seq(Entries)]
    BY <1>1, <2>2 DEF Types
  <2> QED BY <1>4, <2>1, <2>2, <2>3, TailAt
<1>6. ASSUME NEW u \in Threads, NEW k \in Slots(u)'
      PROVE  \/ u = t /\ k + 1 \in Slots(t) /\ k \in Nat /\ k > 0 /\ held'[u][k] = held[t][k + 1]
             \/ u # t /\ k \in Slots(u) /\ held'[u][k] = held[u][k]
  BY <1>5 DEF Slots
<1>7. \A u \in Threads : \A k \in Slots(u)' :
        \/ u = t /\ k + 1 \in Slots(t) /\ k \in Nat /\ k > 0 /\ At(u, k)' = At(t, k + 1)
        \/ u # t /\ k \in Slots(u) /\ At(u, k)' = At(u, k)
  BY <1>6 DEF At
<1>8. ASSUME NEW u \in Threads, NEW l \in Slots(u), u # t \/ l # 1 PROVE At(u, l) # i /\ At(u, l) \in Idx
  <2>1. At(u, l) # At(t, 1)
    BY <1>3, <1>8 DEF Separate
  <2> QED BY <1>3, <2>1, EntryType DEF At
<1>9. \A f \in Frames : Late(i, f) \in Frames /\ Late(i, f).idx = f.idx /\ (f.idx # i => Late(i, f) = f)
  BY <1>3, LateType
<1>10. /\ sock' \in [Stacks -> Seq(Frames)]
       /\ \A s \in Stacks : \A j \in 1 .. Len(sock'[s]) :
            /\ j \in 1 .. Len(sock[s]) /\ sock'[s][j].idx = sock[s][j].idx
            /\ sock[s][j].idx # i => sock'[s][j] = sock[s][j]
  BY <1>3, ReleaseSock DEF i
<1>11. /\ stat' \in [Stacks -> [Idx -> Marks]] /\ stat'[0][i] = "empty"
       /\ \A s \in Stacks : \A j \in Idx : j # i => stat'[s][j] = stat[s][j]
  BY <1>1, <1>3 DEF Types, Marks, Stacks
<1>12. /\ rxbuf' \in [Stacks -> [Idx -> Frames]] /\ txbuf' \in [Idx -> Datagrams]
       /\ \A s \in Stacks : \A j \in Idx : j # i => rxbuf'[s][j] = rxbuf[s][j]
       /\ \A j \in Idx : j # i => txbuf'[j] = txbuf[j]
  <2>1. NoFrame \in Frames /\ Dummy \in Datagrams
    BY Bounds DEF NoFrame, Frames, Dummy, Datagrams, Commands
  <2> QED BY <1>1, <1>3, <2>1 DEF Types
<1>13. /\ pend' \in [Threads -> Frames] /\ \A v \in Threads : pend'[v].idx = pend[v].idx
       /\ \A v \in Threads : pend[v].idx # i => pend'[v] = pend[v]
  BY <1>1, <1>9 DEF Types
<1>14. Types'
  BY <1>1, <1>2, <1>5, <1>10, <1>11, <1>12, <1>13 DEF Types, Places, Stacks
<1>15. Shapes'
  <2>1. ASSUME NEW u \in Threads, u # t PROVE Shape(u)'
    BY <1>1, <1>2, <1>5, <1>13, <2>1 DEF Shapes, Shape, Double, Types
  <2>2. Shape(t)'
    <3>1. pc'[t] = (IF Len(held[t]) > 1 THEN "look" ELSE "idle") /\ stack'[t] = 0 /\ resent'[t] = FALSE /\ got'[t] = {}
      BY <1>1 DEF Types
    <3>2. CASE Len(held[t]) > 1
      BY <1>2, <1>4, <1>5, <3>1, <3>2 DEF Shape
    <3>3. CASE Len(held[t]) <= 1
      <4>1. held'[t] = << >>
        BY <1>4, <1>5, <3>3
      <4> QED BY <1>2, <1>5, <3>1, <3>3, <4>1 DEF Shape
    <3> QED BY <1>5, <3>2, <3>3
  <2> QED BY <2>1, <2>2 DEF Shapes
<1>16. Separate'
  <2>1. ASSUME NEW u \in Threads, NEW v \in Threads, NEW k \in Slots(u)', NEW l \in Slots(v)', At(u, k)' = At(v, l)'
        PROVE  u = v /\ k = l
    <3>1. k \in Nat /\ l \in Nat
      BY <1>5, <1>7 DEF Slots, Types
    <3> QED BY <1>7, <2>1, <3>1 DEF Separate
  <2> QED BY <2>1 DEF Separate
<1>17. Kept'
  <2>1. ASSUME NEW u \in Threads, NEW k \in Slots(u)' PROVE stat'[0][At(u, k)'] # "empty"
    <3>1. CASE u = t /\ k + 1 \in Slots(t) /\ k \in Nat /\ k > 0 /\ At(u, k)' = At(t, k + 1)
      <4>1. k + 1 # 1
        BY <3>1
      <4> QED BY <1>8, <1>11, <3>1, <4>1 DEF Kept, Stacks
    <3>2. CASE u # t /\ k \in Slots(u) /\ At(u, k)' = At(u, k)
      BY <1>8, <1>11, <3>2 DEF Kept, Stacks
    <3> QED BY <1>7, <3>1, <3>2
  <2>2. ASSUME NEW j \in Idx, \A u \in Threads : \A k \in Slots(u)' : At(u, k)' # j
        PROVE  stat'[0][j] \in {"empty", "rcvd"}
    <3>1. CASE j = i
      BY <1>11, <3>1
    <3>2. CASE j # i
      <4>1. ASSUME NEW u \in Threads, NEW k \in Slots(u) PROVE At(u, k) # j
        <5>1. CASE u = t /\ k = 1
          BY <1>3, <3>2, <5>1
        <5>2. CASE u = t /\ k # 1
          <6> PICK m \in Nat : m = k - 1
            BY <1>5, <5>2 DEF Slots
          <6>1. m \in Slots(t)' /\ m \in 1 .. Len(held[t]) - 1 /\ m + 1 = k
            BY <1>5, <5>2 DEF Slots
          <6>2. At(t, m)' = At(t, k)
            BY <1>5, <6>1 DEF At
          <6> QED BY <2>2, <5>2, <6>1, <6>2
        <5>3. CASE u # t
          BY <1>5, <2>2, <5>3 DEF Slots, At
        <5> QED BY <5>1, <5>2, <5>3
      <4> QED BY <1>11, <3>2, <4>1 DEF Kept, Stacks
    <3> QED BY <3>1, <3>2
  <2> QED BY <2>1, <2>2 DEF Kept
<1>18. ASSUME NEW u \in Threads, NEW k \in Slots(u)', NEW l \in Slots(u), held'[u][k] = held[u][l],
              u = t => l # 1, u # t => l = k
       PROVE  GoodSlot(u, k)'
  <2>1. At(u, k)' = At(u, l) /\ At(u, l) # i /\ At(u, l) \in Idx /\ \A g : Good(u, k, g)' <=> Good(u, l, g)
    BY <1>2, <1>8, <1>18 DEF At, Good, Double
  <2>2. GoodSlot(u, l)
    BY DEF GoodSlots
  <2>3. GoodTx(u, k)'
    BY <1>12, <1>18, <2>1, <2>2 DEF GoodSlot, GoodTx
  <2>4. GoodSock(u, k)'
    <3>1. ASSUME NEW s \in Stacks, NEW j \in 1 .. Len(sock'[s]), sock'[s][j].idx = At(u, l)
          PROVE  Good(u, l, sock'[s][j])
      <4>1. j \in 1 .. Len(sock[s]) /\ sock[s][j].idx = At(u, l) /\ sock'[s][j] = sock[s][j]
        BY <1>10, <2>1, <3>1
      <4> QED BY <2>2, <4>1 DEF GoodSlot, GoodSock
    <3> QED BY <2>1, <3>1 DEF GoodSock
  <2>5. GoodHand(u, k)'
    <3>1. \A v \in Threads : pc'[v] = "store" => pc[v] = "store"
      BY <1>1 DEF Types
    <3> QED BY <1>13, <2>1, <2>2, <3>1 DEF GoodSlot, GoodHand
  <2>6. GoodRx(u, k)'
    <3>1. ASSUME NEW s \in Stacks, Filled(u, k, s)' PROVE Filled(u, l, s)
      <4>1. s \in got'[u] => u # t /\ s \in got[u]
        BY <1>1 DEF Types
      <4>2. stat'[s][At(u, k)'] = stat[s][At(u, l)]
        BY <1>11, <2>1
      <4> QED BY <1>2, <1>18, <3>1, <4>1, <4>2 DEF Filled, Double
    <3> QED BY <1>12, <2>1, <2>2, <3>1 DEF GoodSlot, GoodRx
  <2> QED BY <2>3, <2>4, <2>5, <2>6 DEF GoodSlot
<1>19. ASSUME NEW u \in Threads, NEW k \in Slots(u)' PROVE GoodSlot(u, k)'
  <2>1. CASE u = t /\ k + 1 \in Slots(t) /\ k \in Nat /\ k > 0 /\ held'[u][k] = held[t][k + 1]
    <3> PICK l \in Slots(t) : l = k + 1
      BY <2>1
    <3>1. l # 1 /\ held'[u][k] = held[u][l]
      BY <2>1
    <3> QED BY <1>18, <2>1, <3>1
  <2>2. CASE u # t /\ k \in Slots(u) /\ held'[u][k] = held[u][k]
    BY <1>18, <2>2
  <2> QED BY <1>6, <2>1, <2>2
<1> QED BY <1>14, <1>15, <1>16, <1>17, <1>19 DEF GoodSlots
-----------------------------------------------------------------------------
LEMMA StartsWell == Init => Port
<1> SUFFICES ASSUME Init PROVE Port
  OBVIOUS
<1>1. \A t \in Threads : held[t] = << >> /\ pc[t] = "idle" /\ Slots(t) = {}
  BY DEF Init, Slots
<1>2. Dummy \in Datagrams /\ NoFrame \in Frames
  BY Bounds DEF NoFrame, Frames, Dummy, Datagrams, Commands
<1>3. redstate \in {"none", "double"} /\ cut \in -1 .. Slaves
  BY PortAssumption DEF Init, PortAssumption
<1>4. Types
  BY <1>2, <1>3 DEF Init, Types, Places, Marks, Stacks
<1>5. Shapes
  BY <1>1 DEF Init, Shapes, Shape, Double
<1>6. Separate /\ GoodSlots
  BY <1>1 DEF Separate, GoodSlots
<1>7. Kept
  BY <1>1 DEF Init, Kept, Stacks
<1> QED BY <1>4, <1>5, <1>6, <1>7 DEF Port

(* What holds as long as no index was handed out while it was in use and no *)
(* send has failed.                                                         *)
Inv == clean => Port

LEMMA PortStep == Inv /\ [Next]_vars => Inv'
<1> SUFFICES ASSUME Inv, [Next]_vars, clean' PROVE Port'
  BY DEF Inv
<1>1. CASE UNCHANGED vars
  <2>1. UNCHANGED <<redstate, cut, layout, lastidx, stat, txbuf, rxbuf, sock, held, pc, stack, resent, got, pend, clean>>
    BY <1>1 DEF vars, line, port, thread
  <2>2. Port
    BY <2>1 DEF Inv
  <2>3. Types' /\ Shapes'
    <3>1. Types'
      BY <2>1, <2>2 DEF Port, Types
    <3>2. \A u : Shape(u)' <=> Shape(u)
      BY <2>1 DEF Shape, Cmds, Double
    <3> QED BY <2>1, <2>2, <3>1, <3>2 DEF Port, Shapes
  <2>5. Separate' /\ Kept'
    <3>1. \A u, k : Slots(u)' = Slots(u) /\ At(u, k)' = At(u, k)
      BY <2>1 DEF Slots, At
    <3> QED BY <2>1, <2>2, <3>1 DEF Port, Separate, Kept
  <2>4. GoodSlots'
    BY <2>1, <2>2 DEF Port, Slots, At, GoodSlots, GoodSlot, GoodTx, GoodSock, GoodHand, GoodRx, Good, Filled, Double
  <2> QED BY <2>3, <2>4, <2>5 DEF Port
<1>2. ASSUME NEW t \in Threads, Step(t) PROVE Port'
  <2>1. clean
    BY <1>2 DEF Step, Begin, Claim, OutFrame, OutDummy, Look, RecvNothing, RecvFrame, Store,
                WaitMore, Waited, Decide, Resend, Retry, Return, Take, Release
  <2>2. Port
    BY <2>1 DEF Inv
  <2>3. CASE Return(t) \/ Take(t)
    <3>1. Release(t) /\ pc[t] = "result" /\ UNCHANGED line
      BY <2>3 DEF Return, Take, Release
    <3> QED BY <2>2, <3>1, ReleaseKeeps
  <2> QED BY <1>2, <2>2, <2>3, BeginKeeps, ClaimKeeps, SendingKeeps, LookKeeps, RecvKeeps,
             StoreKeeps, WaitingKeeps, WaitedKeeps, DecideKeeps DEF Step
<1> QED BY <1>1, <1>2 DEF Next

(* Every state that is reached has the invariant of the port.                *)
THEOREM PortInvariant == Spec => []Inv
<1>1. Init => Inv
  BY StartsWell DEF Inv
<1> QED BY <1>1, PortStep, PTL DEF Spec

(* When the ring is full, the indexes in use are fewer than what can be     *)
(* needed at a time, for the one who looks for an index needs one more; so  *)
(* the others have leaked.                                                  *)
LEMMA RingFull ==
  ASSUME Port, NEW t \in Threads, pc[t] = "claim", Free = {}
  PROVE  ~(Cardinality(Leaked) + Demand <= MaxBuf)
<1> DEFINE n     == Len(layout.cmds)
           next  == <<t, Len(held[t]) + 1>>
           Cyc   == {Cycle} \X (1 .. n)
           Rest  == (Threads \ {Cycle}) \X {1}
           Pairs == {p \in Threads \X (1 .. MaxBuf) : p[2] \in Slots(p[1])}
           Taken == UNION {Used(u) : u \in Threads}
<1>1. /\ Types /\ Cycle \in Threads /\ IsFiniteSet(Threads)
      /\ n \in Nat /\ n \in 1 .. MaxBuf /\ MaxBuf \in Nat /\ MaxBuf > 0
  BY PortAssumption, Bounds DEF PortAssumption, Port, Types
<1>2. \A u \in Threads : /\ Len(held[u]) \in Nat /\ Len(held[u]) <= Len(Cmds(u))
                         /\ Len(Cmds(u)) = (IF u = Cycle THEN n ELSE 1)
  <2> TAKE u \in Threads
  <2>1. held[u] \in Seq(Entries)
    BY <1>1 DEF Types
  <2>2. Len(Cmds(u)) = (IF u = Cycle THEN n ELSE 1)
    BY DEF Cmds
  <2>3. Len(held[u]) \in Nat /\ (held[u] = << >> => Len(held[u]) = 0)
    BY <2>1
  <2> HIDE DEF n
  <2>4. Shape(u)
    BY DEF Port, Shapes
  <2> QED BY <1>1, <2>2, <2>3, <2>4 DEF Shape
<1>3. Len(held[t]) < Len(Cmds(t))
  BY DEF Port, Shapes, Shape
<1> HIDE DEF n
<1>4. Pairs \subseteq (Cyc \cup Rest) \ {next} /\ next \in Cyc \cup Rest
  <2>1. next \in Cyc \cup Rest
    <3>1. CASE t = Cycle
      <4>1. Len(held[t]) + 1 \in 1 .. n
        BY <1>1, <1>2, <1>3, <3>1
      <4> QED BY <3>1, <4>1
    <3>2. CASE t # Cycle
      <4>1. Len(Cmds(t)) = 1 /\ Len(held[t]) \in Nat
        BY <1>2, <3>2
      <4>2. Len(held[t]) + 1 = 1
        BY <1>3, <4>1
      <4> QED BY <3>2, <4>2
    <3> QED BY <3>1, <3>2
  <2>2. ASSUME NEW p \in Pairs PROVE p \in Cyc \cup Rest /\ p # next
    <3>1. p \in Threads \X (1 .. MaxBuf) /\ p[2] \in 1 .. Len(held[p[1]])
      BY DEF Slots
    <3> PICK u \in Threads, k \in 1 .. MaxBuf : p = <<u, k>>
      BY <3>1
    <3>2. p[1] = u /\ p[2] = k /\ k \in 1 .. Len(held[u])
      BY <3>1
    <3>3. p # next
      BY <1>2, <3>2
    <3>4. u # Cycle => k = 1
      <4>1. u # Cycle => Len(held[u]) \in Nat /\ Len(held[u]) <= 1
        BY <1>2
      <4> QED BY <3>2, <4>1
    <3>5. u = Cycle => k \in 1 .. n
      <4>1. u = Cycle => Len(held[u]) \in Nat /\ Len(held[u]) <= n
        BY <1>2
      <4> QED BY <1>1, <3>2, <4>1
    <3> QED BY <3>3, <3>4, <3>5
  <2> HIDE DEF next, Cyc, Rest, Pairs
  <2> QED BY <2>1, <2>2
<1>5. IsFiniteSet(Cyc \cup Rest) /\ Cardinality(Cyc \cup Rest) = Demand
  <2>1. IsFiniteSet({Cycle}) /\ Cardinality({Cycle}) = 1 /\ IsFiniteSet({1}) /\ Cardinality({1}) = 1
    BY FS_Singleton
  <2>2. IsFiniteSet(1 .. n) /\ Cardinality(1 .. n) = n
    BY <1>1, FS_Interval
  <2>3. IsFiniteSet(Threads \ {Cycle}) /\ Cardinality(Threads \ {Cycle}) = Cardinality(Threads) - 1
    BY <1>1, FS_RemoveElement
  <2>4. Cardinality(Threads) \in Nat
    BY <1>1, FS_CardinalityType
  <2>5. IsFiniteSet(Cyc) /\ Cardinality(Cyc) = 1 * n
    <3>1. IsFiniteSet({Cycle} \X (1 .. n)) /\ Cardinality({Cycle} \X (1 .. n)) = Cardinality({Cycle}) * Cardinality(1 .. n)
      BY <2>1, <2>2, FS_Product
    <3> QED BY <2>1, <2>2, <3>1
  <2>6. IsFiniteSet(Rest) /\ Cardinality(Rest) = (Cardinality(Threads) - 1) * 1
    BY <2>1, <2>3, FS_Product
  <2>7. Cyc \cap Rest = {}
    OBVIOUS
  <2> HIDE DEF Cyc, Rest
  <2>8. /\ IsFiniteSet(Cyc \cup Rest)
        /\ Cardinality(Cyc \cup Rest) = Cardinality(Cyc) + Cardinality(Rest) - Cardinality({})
    BY <2>5, <2>6, <2>7, FS_Union
  <2>9. Cardinality({}) = 0
    BY FS_EmptySet
  <2> QED BY <1>1, <2>4, <2>5, <2>6, <2>8, <2>9 DEF Demand, n
<1>6. IsFiniteSet(Pairs) /\ Cardinality(Pairs) <= Demand - 1 /\ Demand \in Nat /\ Cardinality(Pairs) \in Nat
  <2> HIDE DEF Pairs, next, Cyc, Rest
  <2>1. Demand \in Nat
    BY <1>5, FS_CardinalityType
  <2>2. IsFiniteSet((Cyc \cup Rest) \ {next}) /\ Cardinality((Cyc \cup Rest) \ {next}) = Demand - 1
    BY <1>4, <1>5, FS_RemoveElement
  <2>3. IsFiniteSet(Pairs) /\ Cardinality(Pairs) <= Demand - 1
    BY <1>4, <2>2, FS_Subset
  <2> QED BY <2>1, <2>3, FS_CardinalityType
<1>7. IsFiniteSet(Taken) /\ Cardinality(Taken) <= Cardinality(Pairs)
  <2> DEFINE f == [p \in Pairs |-> held[p[1]][p[2]].i]
  <2>1. \A u \in Threads : \A k \in Slots(u) : <<u, k>> \in Pairs
    <3> TAKE u \in Threads
    <3> TAKE k \in Slots(u)
    <3>1. Len(held[u]) \in Nat /\ k \in 1 .. Len(held[u]) /\ Len(held[u]) <= MaxBuf
      <4>1. Len(Cmds(u)) \in Nat /\ Len(Cmds(u)) <= MaxBuf /\ Len(held[u]) \in Nat /\ Len(held[u]) <= Len(Cmds(u))
        <5>1. Len(Cmds(u)) = n \/ Len(Cmds(u)) = 1
          BY <1>2
        <5>2. n \in Nat /\ n <= MaxBuf /\ 1 <= MaxBuf
          BY <1>1
        <5> DEFINE c == Len(Cmds(u))
        <5>3. c = n \/ c = 1
          BY <5>1
        <5> HIDE DEF c
        <5>4. c \in Nat /\ c <= MaxBuf
          BY <5>2, <5>3
        <5>5. Len(Cmds(u)) \in Nat /\ Len(Cmds(u)) <= MaxBuf
          BY <5>4 DEF c
        <5> QED BY <1>2, <5>5
      <4> QED BY <1>1, <4>1 DEF Slots
    <3>2. k \in 1 .. MaxBuf
      BY <1>1, <3>1
    <3> QED BY <3>2
  <2>2. ASSUME NEW p \in Pairs PROVE f[p] \in Taken
    BY DEF Used, Slots
  <2>3. ASSUME NEW x \in Taken PROVE \E p \in Pairs : f[p] = x
    <3> PICK u \in Threads : x \in Used(u)
      OBVIOUS
    <3> PICK k \in Slots(u) : x = held[u][k].i
      BY DEF Used, Slots
    <3>1. <<u, k>> \in Pairs
      BY <2>1
    <3>2. f[<<u, k>>] = held[u][k].i
      BY <3>1
    <3> QED BY <3>1, <3>2
  <2>4. f \in Surjection(Pairs, Taken)
    <3> HIDE DEF Pairs, Taken
    <3>1. f \in [Pairs -> Taken]
      BY <2>2
    <3> QED BY <2>3, <3>1 DEF Surjection
  <2> HIDE DEF f, Pairs, Taken
  <2> QED BY <1>6, <2>4, FS_Surjection
<1>8. Idx = Taken \cup Leaked
  <2>1. Taken \subseteq Idx /\ Leaked \subseteq Idx
    BY <1>1, EntryType DEF Used, Slots, Leaked, Unheld
  <2>2. ASSUME NEW i \in Idx, i \notin Taken PROVE i \in Leaked
    <3>1. \A u \in Threads : \A k \in Slots(u) : At(u, k) # i
      BY <2>2 DEF Used, Slots, At
    <3>2. stat[0][i] \in {"empty", "rcvd"} /\ stat[0][i] # "empty"
      BY <3>1 DEF Port, Kept, Free
    <3> QED BY <2>2, <3>2 DEF Leaked, Unheld
  <2> HIDE DEF Taken
  <2> QED BY <2>1, <2>2
<1>9. IsFiniteSet(Idx) /\ Cardinality(Idx) = MaxBuf
  <2>1. 0 \in Int /\ MaxBuf - 1 \in Int
    BY <1>1
  <2> QED BY <1>1, <2>1, FS_Interval DEF Idx
<1> HIDE DEF Taken, Pairs
<1>10. IsFiniteSet(Leaked) /\ Cardinality(Leaked) \in Nat
  BY <1>8, <1>9, FS_Subset, FS_CardinalityType
<1>11. Cardinality(Idx) = Cardinality(Taken) + Cardinality(Leaked) - Cardinality(Taken \cap Leaked)
  BY <1>7, <1>8, <1>10, FS_Union
<1>12. IsFiniteSet(Taken \cap Leaked)
  BY <1>7, FS_Intersection
<1>13. Cardinality(Taken \cap Leaked) \in Nat /\ Cardinality(Taken) \in Nat
  BY <1>7, <1>12, FS_CardinalityType
<1> QED BY <1>1, <1>6, <1>7, <1>9, <1>10, <1>11, <1>13

(* ecx_getindex gives out indexes nobody works with; an index nobody works  *)
(* with is empty or leaked as received; and as long as those that leaked    *)
(* leave room for what can be needed at a time, whoever looks for an index  *)
(* finds an empty one: for any number of threads, frames and buffers.       *)
THEOREM IndexesAreKept == Spec => []IndexesKept
<1>1. Inv => IndexesKept
  <2> SUFFICES ASSUME Inv, clean
               PROVE  /\ Exclusive
                      /\ \A i \in Unheld \ Leaked : stat[0][i] = "empty"
                      /\ Cardinality(Leaked) + Demand <= MaxBuf =>
                           \A t \in Threads : pc[t] = "claim" => Free # {}
    BY DEF IndexesKept
  <2>1. Port
    BY DEF Inv
  <2>2. \A t \in Threads : Used(t) = {At(t, k) : k \in Slots(t)}
    BY DEF Used, At, Slots
  <2>3. Exclusive
    BY <2>1, <2>2 DEF Exclusive, Port, Separate
  <2>4. \A i \in Unheld \ Leaked : stat[0][i] = "empty"
    BY <2>1, <2>2 DEF Unheld, Leaked, Port, Kept
  <2>5. ASSUME Cardinality(Leaked) + Demand <= MaxBuf, NEW t \in Threads, pc[t] = "claim"
        PROVE  Free # {}
    BY <2>1, <2>5, RingFull
  <2> QED BY <2>3, <2>4, <2>5
<1> QED BY <1>1, PortInvariant, PTL
-----------------------------------------------------------------------------
(* What the frames carry *)

LEMMA LineSeq == Line \in Seq(Nat)
BY Bounds DEF Line

LEMMA PathJoin ==
  ASSUME NEW d \in Datagrams, NEW x \in Seq(Nat)
  PROVE  LET e == [d EXCEPT !.path = @ \o x] IN
         e \in Datagrams /\ e.own = d.own /\ e.seg = d.seg /\ e.path = d.path \o x
<1>1. d.path \o x \in Seq(Nat)
  BY DEF Datagrams
<1>2. [d EXCEPT !.path = @ \o x] = [d EXCEPT !.path = d.path \o x]
  OBVIOUS
<1> QED BY <1>1, <1>2, PathOf

(* A datagram with process data is the one its segment was sent with; what   *)
(* came back on a single line has passed every slave; and what was sent from *)
(* the secondary socket as its own is the dummy.                             *)
Data       == {"LRW", "LRD", "LWR"}
Stamped(d) == d.cmd \in Data => d.cmd = layout.cmds[d.seg]
Wired(f)   ==
  /\ Stamped(f.dg)
  /\ ~Double /\ f.fresh => f.dg.path = Line
  /\ f.src = "sec" => f.dg.own = "dummy" /\ f.dg.cmd = "BRD"
Made ==
  /\ \A i \in Idx : Stamped(txbuf[i]) /\ (~Double => txbuf[i].path = << >>)
  /\ \A s \in Stacks, i \in Idx : Wired(rxbuf[s][i])
  /\ \A s \in Stacks : \A j \in 1 .. Len(sock[s]) : Wired(sock[s][j])
  /\ \A t \in Threads : Wired(pend[t])

(* The frames that are under way, and what a step may do to one of them.     *)
LEMMA Plain ==
  ASSUME NEW i
  PROVE  /\ Wired(NoFrame) /\ Wired(Foreign) /\ Wired([NoFrame EXCEPT !.idx = i])
         /\ Stamped(Dummy) /\ Dummy.path = << >> /\ Dummy.own = "dummy" /\ Dummy.cmd = "BRD"
BY DEF NoFrame, Foreign, Dummy, Wired, Stamped, Data

LEMMA SentMade ==
  ASSUME Types, Made, NEW i \in Idx, NEW dg \in Datagrams, NEW side \in Stacks, NEW src \in {"pri", "sec"},
         Stamped(dg), ~Double => dg.path = << >>,
         src = "sec" => dg.own = "dummy" /\ dg.cmd = "BRD", Transmit(i, dg, side, src), UNCHANGED <<line, txbuf, rxbuf, pend>>
  PROVE  Made'
<1>1. \A d : Stamped(d)' <=> Stamped(d)
  BY DEF Stamped, line
<1>2. \A f : Wired(f)' <=> Wired(f)
  BY <1>1 DEF Wired, Double, line
<1>3. ASSUME NEW s \in Stacks, NEW j \in 1 .. Len(sock'[s]) PROVE Wired(sock'[s][j])
  <2>1. CASE UNCHANGED sock
    BY <2>1, <1>3 DEF Made
  <2>2. ASSUME NEW r \in Route(side),
          sock' = [sock EXCEPT ![r.to] = Append(@,
            [idx |-> i, dg |-> [dg EXCEPT !.path = @ \o r.by], src |-> src, fresh |-> TRUE])]
        PROVE Wired(sock'[s][j])
    <3> DEFINE e == [dg EXCEPT !.path = @ \o r.by]
               f == [idx |-> i, dg |-> e, src |-> src, fresh |-> TRUE]
    <3>1. r.to \in Stacks /\ r.by \in Seq(Nat)
      BY RouteType
    <3>2. e \in Datagrams /\ e.own = dg.own /\ e.seg = dg.seg /\ e.path = dg.path \o r.by
      BY <3>1, PathJoin
    <3>3. e.cmd = dg.cmd
      BY DEF Datagrams
    <3>4. ~Double => e.path = Line
      <4>1. ~Double => r.by = Line /\ dg.path = << >>
        BY DEF Route
      <4>2. << >> \o Line = Line
        BY LineSeq
      <4> HIDE DEF e
      <4> QED BY <4>1, <4>2, <3>2
    <3> HIDE DEF e
    <3>5. f \in Frames /\ f.dg = e /\ f.src = src
      BY <3>2, Bounds DEF Frames, Idx
    <3> HIDE DEF f
    <3>6. Wired(f)
      BY <3>2, <3>3, <3>4, <3>5 DEF Wired, Stamped
    <3>7. sock' = [sock EXCEPT ![r.to] = Append(sock[r.to], f)]
      BY <2>2 DEF e, f
    <3>8. sock'[s] = sock[s] \/ (sock'[s] = Append(sock[s], f) /\ sock[s] \in Seq(Frames))
      BY <3>1, <3>7 DEF Types
    <3>9. sock'[s][j] = f \/ (j \in 1 .. Len(sock[s]) /\ sock'[s][j] = sock[s][j])
      BY <3>5, <3>8, <1>3
    <3> QED BY <3>6, <3>9 DEF Made
  <2> QED BY <2>1, <2>2 DEF Transmit
<1>4. UNCHANGED <<txbuf, rxbuf, pend>> /\ (Double' <=> Double)
  BY DEF Double, line
<1> QED BY <1>1, <1>2, <1>3, <1>4 DEF Made

(* Nothing is put together anew: every buffer, socket and hand has what one  *)
(* of them had before, or a frame of no use.                                 *)
LEMMA MovedMade ==
  ASSUME Made, UNCHANGED line,
         \A i \in Idx : Stamped(txbuf'[i]) /\ (~Double => txbuf'[i].path = << >>),
         \A s \in Stacks, i \in Idx : Wired(rxbuf'[s][i]),
         \A s \in Stacks : \A j \in 1 .. Len(sock'[s]) : Wired(sock'[s][j]),
         \A t \in Threads : Wired(pend'[t])
  PROVE  Made'
<1>1. \A d : Stamped(d)' <=> Stamped(d)
  BY DEF Stamped, line
<1>2. \A f : Wired(f)' <=> Wired(f)
  BY <1>1 DEF Wired, Double, line
<1>3. Double' <=> Double
  BY DEF Double, line
<1> QED BY <1>1, <1>2, <1>3 DEF Made

LEMMA FilledMade ==
  ASSUME Types, Made, NEW s \in Stacks, NEW i \in Idx, NEW f, Wired(f),
         rxbuf' = rxbuf \/ rxbuf' = [rxbuf EXCEPT ![s][i] = f]
  PROVE  \A r \in Stacks, k \in Idx : Wired(rxbuf'[r][k])
<1> TAKE r \in Stacks, k \in Idx
<1>0. rxbuf \in [Stacks -> [Idx -> Frames]]
  BY DEF Types
<1>1. rxbuf'[r][k] = rxbuf[r][k] \/ rxbuf'[r][k] = f
  <2>1. CASE rxbuf' = rxbuf
    BY <2>1
  <2>2. CASE rxbuf' = [rxbuf EXCEPT ![s][i] = f]
    <3>1. rxbuf'[r] = IF r = s THEN [rxbuf[s] EXCEPT ![i] = f] ELSE rxbuf[r]
      BY <1>0, <2>2
    <3>2. rxbuf[s] \in [Idx -> Frames]
      BY <1>0
    <3> QED BY <3>1, <3>2
  <2> QED BY <2>1, <2>2
<1>2. Wired(rxbuf[r][k])
  BY DEF Made
<1> QED BY <1>1, <1>2

LEMMA MadeStep ==
  ASSUME Port, Port', Made, NEW t \in Threads, Step(t), clean'
  PROVE  Made'
<1> USE DEF Port
<1>0. Cur(t) \in Idx \/ pc[t] \in {"idle", "claim"}
  <2>1. CASE pc[t] \in {"out", "dummy"}
    <3>1. Len(held[t]) > 0 /\ held[t] \in Seq(Entries)
      BY <2>1 DEF Shapes, Shape, Types
    <3>2. Len(held[t]) \in Slots(t)
      BY <3>1 DEF Slots
    <3> QED BY <3>2, <2>1, EntryType DEF Cur, Entry
  <2> QED BY <2>1, Waits
<1>1. CASE Begin(t)
  BY <1>1, MovedMade DEF Made, Begin, port, thread, line
<1>2. CASE Claim(t)
  <2> DEFINE i == Found
             d == [own |-> t, seg |-> Len(held[t]) + 1, cmd |-> Cmds(t)[Len(held[t]) + 1], path |-> << >>]
  <2>1. ComeRound(i) /\ txbuf' = [txbuf EXCEPT ![i] = d] /\ UNCHANGED <<line, rxbuf, pend>>
    BY <1>2 DEF Claim
  <2>2. Stamped(d) /\ d.path = << >>
    <3>1. CASE t = Cycle
      BY <3>1 DEF Stamped, Cmds
    <3>2. CASE t # Cycle
      <4>1. held[t] \in Seq(Entries) /\ Len(held[t]) < 1 /\ Cmds(t) = <<"FP">>
        BY <1>2, <3>2 DEF Claim, Shapes, Shape, Types, Cmds
      <4>2. Len(held[t]) + 1 = 1
        BY <4>1
      <4>3. d.cmd = "FP"
        BY <4>1, <4>2
      <4> QED BY <4>3 DEF Stamped, Data
    <3> QED BY <3>1, <3>2
  <2> HIDE DEF d
  <2>3. \A k \in Idx : Stamped(txbuf'[k]) /\ (~Double => txbuf'[k].path = << >>)
    BY <2>1, <2>2 DEF Made, Types
  <2>4. ASSUME NEW s \in Stacks, NEW j \in 1 .. Len(sock'[s]) PROVE Wired(sock'[s][j])
    <3>1. /\ j \in 1 .. Len(sock[s])
          /\ sock'[s][j] = Outdated(i, sock[s][j])
      <4> HIDE DEF i
      <4>1. Len(sock'[s]) = Len(sock[s])
        BY <2>1, ClaimSock
      <4>2. j \in 1 .. Len(sock[s])
        BY <4>1
      <4> QED BY <2>1, <4>2, ClaimSock
    <3>2. Wired(sock[s][j])
      BY <3>1 DEF Made
    <3>3. Wired(Foreign)
      BY Plain
    <3> QED BY <3>1, <3>2, <3>3 DEF Outdated
  <2> QED BY <2>1, <2>3, <2>4, MovedMade DEF Made
<1>3. CASE OutFrame(t)
  <2>1. UNCHANGED <<line, txbuf, rxbuf, pend>> /\ Transmit(Cur(t), txbuf[Cur(t)], 0, "pri") /\ pc[t] = "out"
    BY <1>3 DEF OutFrame
  <2>2. Cur(t) \in Idx /\ txbuf[Cur(t)] \in Datagrams
    BY <1>0, <2>1 DEF Types
  <2> QED BY <2>1, <2>2, SentMade DEF Made, Stacks
<1>4. CASE OutDummy(t)
  <2>1. UNCHANGED <<line, txbuf, rxbuf, pend>> /\ Transmit(Cur(t), Dummy, 1, "sec") /\ pc[t] = "dummy"
    BY <1>4 DEF OutDummy
  <2>2. Cur(t) \in Idx /\ Dummy \in Datagrams
    BY <1>0, <2>1 DEF Dummy, Datagrams, Commands
  <2> QED BY <2>1, <2>2, SentMade, Plain DEF Stacks
<1>5. CASE Look(t)
  BY <1>5, MovedMade DEF Made, Look, line
<1>6. CASE RecvNothing(t)
  BY <1>6, MovedMade DEF Made, RecvNothing, port, line
<1>7. CASE RecvFrame(t)
  <2> DEFINE r == stack[t]
             f == Head(sock[r])
  <2>1. r \in Stacks /\ sock[r] \in Seq(Frames) /\ sock[r] # << >> /\ Cur(t) \in Idx
    BY <1>7, <1>0 DEF RecvFrame, Types
  <2>2. UNCHANGED <<line, txbuf>> /\ sock' = [sock EXCEPT ![r] = Tail(@)]
    BY <1>7 DEF RecvFrame
  <2>3. rxbuf' = rxbuf \/ rxbuf' = [rxbuf EXCEPT ![r][Cur(t)] = f]
    BY <1>7 DEF RecvFrame
  <2>4. pend' = pend \/ pend' = [pend EXCEPT ![t] = f]
    BY <1>7 DEF RecvFrame
  <2>5. f = sock[r][1] /\ 1 \in 1 .. Len(sock[r])
    BY <2>1, TailAt
  <2>6. Wired(f)
    BY <2>1, <2>5 DEF Made
  <2>7. ASSUME NEW s \in Stacks, NEW j \in 1 .. Len(sock'[s]) PROVE Wired(sock'[s][j])
    <3>1. CASE s # r
      BY <3>1, <2>1, <2>2, <2>7 DEF Types, Made
    <3>2. CASE s = r
      <4>1. sock'[s] = Tail(sock[r])
        BY <3>2, <2>1, <2>2 DEF Types
      <4>2. j \in 1 .. Len(sock[r]) - 1 /\ j + 1 \in 1 .. Len(sock[r]) /\ sock'[s][j] = sock[r][j + 1]
        BY <4>1, <2>1, <2>7, TailAt
      <4> QED BY <4>2, <2>1 DEF Made
    <3> QED BY <3>1, <3>2
  <2> HIDE DEF f, r
  <2>8. \A s \in Stacks, i \in Idx : Wired(rxbuf'[s][i])
    BY <2>1, <2>3, <2>6, FilledMade
  <2>9. \A u \in Threads : Wired(pend'[u])
    BY <2>4, <2>6 DEF Types, Made
  <2> QED BY <2>2, <2>7, <2>8, <2>9, MovedMade DEF Made
<1>8. CASE Store(t)
  <2>1. /\ stack[t] \in Stacks /\ pend[t].idx \in Idx /\ UNCHANGED <<line, txbuf, sock>>
        /\ rxbuf' = [rxbuf EXCEPT ![stack[t]][pend[t].idx] = pend[t]]
        /\ pend' = [pend EXCEPT ![t] = NoFrame]
    BY <1>8 DEF Store, Types, Shapes, Shape
  <2>2. \A s \in Stacks, i \in Idx : Wired(rxbuf'[s][i])
    <3> DEFINE r == stack[t]
               n == pend[t].idx
               f == pend[t]
    <3>1. Wired(f) /\ r \in Stacks /\ n \in Idx /\ rxbuf' = [rxbuf EXCEPT ![r][n] = f]
      BY <2>1 DEF Made
    <3> HIDE DEF r, n, f
    <3>2. Types /\ (rxbuf' = rxbuf \/ rxbuf' = [rxbuf EXCEPT ![r][n] = f])
      BY <3>1
    <3> HIDE DEF Port
    <3> QED BY <3>1, <3>2, FilledMade
  <2>3. \A u \in Threads : Wired(pend'[u])
    BY <2>1, Plain DEF Types, Made
  <2> QED BY <2>1, <2>2, <2>3, MovedMade DEF Made
<1>9. CASE WaitMore(t)
  BY <1>9, MovedMade DEF Made, WaitMore, port, line
<1>10. CASE Waited(t)
  <2>1. /\ UNCHANGED <<line, txbuf, sock, pend>> /\ Cur(t) \in Idx
        /\ rxbuf' = rxbuf \/ rxbuf' = [rxbuf EXCEPT ![0][Cur(t)] = rxbuf[1][Cur(t)]]
    BY <1>10, <1>0 DEF Waited
  <2>2. \A s \in Stacks, i \in Idx : Wired(rxbuf'[s][i])
    <3>1. Wired(rxbuf[1][Cur(t)]) /\ 0 \in Stacks
      BY <2>1 DEF Made, Stacks
    <3> QED BY <2>1, <3>1, FilledMade
  <2> QED BY <2>1, <2>2, MovedMade DEF Made
<1>11. CASE Decide(t)
  <2>1. /\ UNCHANGED <<line, sock, pend>> /\ Cur(t) \in Idx /\ Double
        /\ rxbuf' = rxbuf \/ rxbuf' = [rxbuf EXCEPT ![0][Cur(t)] = rxbuf[1][Cur(t)]]
        /\ txbuf' = txbuf \/ txbuf' = [txbuf EXCEPT ![Cur(t)] = rxbuf[0][Cur(t)].dg]
    <3>1. pc[t] = "decide" /\ UNCHANGED <<line, sock, pend>>
      BY <1>11 DEF Decide
    <3>2. Double
      BY <3>1 DEF Shapes, Shape
    <3> QED BY <1>11, <1>0, <3>1, <3>2 DEF Decide
  <2>2. \A s \in Stacks, i \in Idx : Wired(rxbuf'[s][i])
    <3>1. Wired(rxbuf[1][Cur(t)]) /\ 0 \in Stacks
      BY <2>1 DEF Made, Stacks
    <3> QED BY <2>1, <3>1, FilledMade
  <2>3. \A i \in Idx : Stamped(txbuf'[i])
    BY <2>1 DEF Types, Made, Stacks, Wired
  <2> QED BY <2>1, <2>2, <2>3, MovedMade DEF Made
<1>12. CASE Resend(t)
  <2>1. UNCHANGED <<line, txbuf, rxbuf, pend>> /\ Transmit(Cur(t), txbuf[Cur(t)], 1, "pri") /\ pc[t] = "resend"
    BY <1>12 DEF Resend
  <2>2. Cur(t) \in Idx /\ txbuf[Cur(t)] \in Datagrams
    BY <1>0, <2>1 DEF Types
  <2> QED BY <2>1, <2>2, SentMade DEF Made, Stacks
<1>13. CASE Retry(t)
  BY <1>13, MovedMade DEF Made, Retry, port, line
<1>14. CASE Return(t) \/ Take(t)
  <2>1. Release(t) /\ pc[t] = "result" /\ UNCHANGED line
    BY <1>14 DEF Return, Take, Release
  <2>2. Cur(t) \in Idx
    BY <2>1, <1>0
  <2>3. /\ sock' = [s \in Stacks |-> [k \in 1 .. Len(sock[s]) |-> Late(Cur(t), sock[s][k])]]
        /\ rxbuf' = [s \in Stacks |-> [rxbuf[s] EXCEPT ![Cur(t)] = NoFrame]]
        /\ pend' = [u \in Threads |-> Late(Cur(t), pend[u])]
        /\ txbuf' = [txbuf EXCEPT ![Cur(t)] = Dummy]
    BY <2>1 DEF Release
  <2>4. \A f : Wired(f) => Wired(Late(Cur(t), f))
    BY Plain DEF Late
  <2>5. ASSUME NEW s \in Stacks, NEW j \in 1 .. Len(sock'[s]) PROVE Wired(sock'[s][j])
    <3>1. sock'[s] = [k \in 1 .. Len(sock[s]) |-> Late(Cur(t), sock[s][k])]
      BY <2>3
    <3>2. Len(sock[s]) \in Nat
      BY DEF Types
    <3>3. j \in 1 .. Len(sock[s]) /\ sock'[s][j] = Late(Cur(t), sock[s][j])
      BY <2>5, <3>1, <3>2
    <3> QED BY <3>3, <2>4 DEF Made
  <2>6. \A s \in Stacks, i \in Idx : Wired(rxbuf'[s][i])
    BY <2>2, <2>3, Plain DEF Types, Made
  <2>7. \A u \in Threads : Wired(pend'[u])
    BY <2>3, <2>4 DEF Made
  <2>8. \A i \in Idx : Stamped(txbuf'[i]) /\ (~Double => txbuf'[i].path = << >>)
    BY <2>2, <2>3, Plain DEF Types, Made
  <2> QED BY <2>1, <2>5, <2>6, <2>7, <2>8, MovedMade
<1> QED BY <1>1, <1>2, <1>3, <1>4, <1>5, <1>6, <1>7, <1>8, <1>9, <1>10, <1>11, <1>12, <1>13, <1>14 DEF Step


(* The ways on a redundant line, by the socket at their end: what comes to   *)
(* the primary one has passed the slaves before the cut or none, unless it   *)
(* was copied from the secondary one for the result; and only what has come  *)
(* to the primary one is sent on.                                            *)
Front       == IF cut = -1 THEN << >> ELSE SubSeq(Line, 1, cut)
Ways(s)     == IF s = 0 THEN {<< >>, Front} ELSE {<< >>, Line} \cup Halves
Taker(t, i) == pc[t] \notin {"idle", "claim", "out", "dummy"} /\ At(t, 1) = i /\ 0 \in got[t]
Copied(i)   == \E t \in Threads : Taker(t, i) /\ pc[t] = "result"
Routed ==
  /\ \A s \in Stacks : \A j \in 1 .. Len(sock[s]) : sock[s][j].dg.path \in Ways(s)
  /\ \A t \in Threads : pc[t] = "store" => pend[t].dg.path \in Ways(stack[t])
  /\ \A i \in Idx : rxbuf[1][i].dg.path \in Ways(1)
  /\ \A i \in Idx : rxbuf[0][i].dg.path \in Ways(0) \/ (rxbuf[0][i].dg.path \in Ways(1) /\ Copied(i))
  /\ \A i \in Idx : \/ txbuf[i].path = << >>
                    \/ txbuf[i].path \in Ways(0) /\ \E t \in Threads : Taker(t, i)

LEMMA Joins ==
  /\ \A q \in Seq(Nat) : << >> \o q = q /\ q \o << >> = q
  /\ \A c \in 0 .. Slaves : SubSeq(Line, 1, c) \o SubSeq(Line, c + 1, Slaves) = Line
  /\ SubSeq(Line, 1, 0) = << >> /\ SubSeq(Line, 1, Slaves) = Line
<1>1. \A q \in Seq(Nat) : << >> \o q = q /\ q \o << >> = q
  OBVIOUS
<1>2. ASSUME NEW c \in 0 .. Slaves PROVE SubSeq(Line, 1, c) \o SubSeq(Line, c + 1, Slaves) = Line
  BY Bounds DEF Line
<1>3. SubSeq(Line, 1, 0) = << >>
  BY Bounds DEF Line
<1>4. SubSeq(Line, 1, Slaves) = Line
  BY Bounds DEF Line
<1> QED BY <1>1, <1>2, <1>3, <1>4

LEMMA Travels ==
  ASSUME Types, Routed, Double, NEW i \in Idx, NEW dg \in Datagrams, NEW side \in Stacks,
         NEW src \in {"pri", "sec"}, Transmit(i, dg, side, src),
         dg.path \in IF side = 0 THEN {<< >>} ELSE Ways(0)
  PROVE  \A s \in Stacks : \A j \in 1 .. Len(sock'[s]) : sock'[s][j].dg.path \in Ways(s)
<1>1. CASE UNCHANGED sock
  BY <1>1 DEF Routed
<1>2. ASSUME NEW r \in Route(side),
        sock' = [sock EXCEPT ![r.to] = Append(@,
          [idx |-> i, dg |-> [dg EXCEPT !.path = @ \o r.by], src |-> src, fresh |-> TRUE])]
      PROVE \A s \in Stacks : \A j \in 1 .. Len(sock'[s]) : sock'[s][j].dg.path \in Ways(s)
  <2> DEFINE e == [dg EXCEPT !.path = @ \o r.by]
             f == [idx |-> i, dg |-> e, src |-> src, fresh |-> TRUE]
  <2>1. r.to \in Stacks /\ r.by \in Seq(Nat)
    BY RouteType
  <2>2. e \in Datagrams /\ e.path = dg.path \o r.by
    BY <2>1, PathJoin
  <2>3. dg.path \o r.by \in Ways(r.to)
    <3>1. cut \in -1 .. Slaves /\ Slaves \in Nat \ {0}
      BY Bounds DEF Types
    <3>2. \A q \in Seq(Nat) : << >> \o q = q
      BY Joins
    <3>3. CASE side = 0
      <4>1. dg.path \o r.by = r.by
        BY <2>1, <3>2, <3>3
      <4>2. r.by \in Ways(r.to)
        <5>1. CASE cut = -1
          BY <3>3, <5>1 DEF Route, Ways
        <5>2. CASE cut # -1
          <6>1. cut > 0 /\ r.to = 0 /\ r.by = SubSeq(Line, 1, cut)
            BY <3>1, <3>3, <5>2 DEF Route
          <6> QED BY <5>2, <6>1 DEF Ways, Front
        <5> QED BY <5>1, <5>2
      <4> QED BY <4>1, <4>2
    <3>4. CASE side # 0 /\ cut = -1
      <4>1. r.to = 0 /\ r.by = << >> /\ dg.path = << >>
        BY <3>4 DEF Route, Ways, Front
      <4>2. dg.path \o r.by = << >>
        BY <2>1, <3>2, <4>1
      <4> QED BY <4>1, <4>2 DEF Ways
    <3>5. CASE side # 0 /\ cut # -1
      <4>1. /\ r.to = 1 /\ r.by = SubSeq(Line, cut + 1, Slaves) /\ cut \in 0 .. Slaves
            /\ dg.path = << >> \/ dg.path = SubSeq(Line, 1, cut)
        BY <3>1, <3>5 DEF Route, Ways, Front
      <4>2. dg.path \o r.by = r.by \/ dg.path \o r.by = Line
        BY <2>1, <3>2, <4>1, Joins
      <4>3. Ways(1) = {<< >>, Line, SubSeq(Line, 1, cut), SubSeq(Line, cut + 1, Slaves)}
        BY <3>5 DEF Ways, Halves
      <4> QED BY <4>1, <4>2, <4>3
    <3> QED BY <3>3, <3>4, <3>5
  <2> HIDE DEF e
  <2>4. f \in Frames /\ f.dg = e
    BY <2>2, Bounds DEF Frames, Idx
  <2> HIDE DEF f
  <2>5. sock' = [sock EXCEPT ![r.to] = Append(sock[r.to], f)]
    BY <1>2 DEF e, f
  <2> TAKE s \in Stacks
  <2> TAKE j \in 1 .. Len(sock'[s])
  <2>6. CASE s # r.to
    BY <2>1, <2>5, <2>6 DEF Types, Routed
  <2>7. CASE s = r.to
    <3>1. sock[s] \in Seq(Frames) /\ sock'[s] = Append(sock[s], f)
      BY <2>1, <2>5, <2>7 DEF Types
    <3>2. sock'[s][j] = f \/ (j \in 1 .. Len(sock[s]) /\ sock'[s][j] = sock[s][j])
      BY <2>4, <3>1, AppendAt
    <3> QED BY <2>2, <2>3, <2>4, <2>7, <3>2 DEF Routed
  <2> QED BY <2>6, <2>7
<1> QED BY <1>1, <1>2 DEF Transmit

(* Who takes an answer goes on to take it until its index is given back.     *)
LEMMA TakersStay ==
  ASSUME Port, NEW t \in Threads, Step(t), ~(Return(t) \/ Take(t))
  PROVE  /\ \A u \in Threads, i \in Idx : Taker(u, i) => Taker(u, i)'
         /\ \A i \in Idx : Copied(i) => Copied(i)'
<1>1. \A u \in Threads \ {t} : held'[u] = held[u] /\ pc'[u] = pc[u] /\ got'[u] = got[u]
  <2> USE DEF Port, Types, To, Gets, Proceed, port, thread
  <2> TAKE u \in Threads \ {t}
  <2>1. CASE Begin(t) \/ Claim(t) \/ OutFrame(t) \/ OutDummy(t)
    BY <2>1 DEF Begin, Claim, OutFrame, OutDummy
  <2>2. CASE Look(t) \/ RecvNothing(t) \/ RecvFrame(t) \/ Store(t)
    BY <2>2 DEF Look, RecvNothing, RecvFrame, Store
  <2>3. CASE WaitMore(t) \/ Waited(t) \/ Decide(t) \/ Resend(t) \/ Retry(t)
    BY <2>3 DEF WaitMore, Waited, Decide, Resend, Retry
  <2> QED BY <2>1, <2>2, <2>3 DEF Step
<1>2. ASSUME pc[t] \notin {"idle", "claim", "out", "dummy"}, 0 \in got[t]
      PROVE  /\ held'[t] = held[t] /\ 0 \in got'[t] /\ pc'[t] \notin {"idle", "claim", "out", "dummy"}
             /\ pc[t] # "result"
  <2> USE DEF Port, Types, To, Gets, Proceed, port, thread, Stacks
  <2>1. CASE Look(t) \/ RecvNothing(t) \/ RecvFrame(t) \/ Store(t)
    BY <1>2, <2>1 DEF Look, RecvNothing, RecvFrame, Store
  <2>2. CASE WaitMore(t) \/ Waited(t) \/ Decide(t) \/ Resend(t)
    BY <1>2, <2>2 DEF WaitMore, Waited, Decide, Resend
  <2>3. ~(Begin(t) \/ Claim(t) \/ OutFrame(t) \/ OutDummy(t) \/ Retry(t))
    BY <1>2 DEF Begin, Claim, OutFrame, OutDummy, Retry
  <2> QED BY <2>1, <2>2, <2>3 DEF Step
<1>3. ASSUME NEW u \in Threads, NEW i \in Idx, Taker(u, i)
      PROVE  Taker(u, i)' /\ (pc[u] = "result" => pc'[u] = "result")
  <2>1. CASE u = t
    BY <1>2, <1>3, <2>1 DEF Taker, At
  <2>2. CASE u # t
    BY <1>1, <1>3, <2>2 DEF Taker, At
  <2> QED BY <2>1, <2>2
<1> QED BY <1>3 DEF Copied

(* What a step that gives no index back has to leave behind.                 *)
LEMMA StaysRouted ==
  ASSUME Port, Routed, NEW t \in Threads, Step(t), ~(Return(t) \/ Take(t)), UNCHANGED line,
         \A s \in Stacks : \A j \in 1 .. Len(sock'[s]) : sock'[s][j].dg.path \in Ways(s),
         \A u \in Threads : pc'[u] = "store" => pend'[u].dg.path \in Ways(stack'[u]),
         \A i \in Idx : rxbuf'[1][i] = rxbuf[1][i] \/ rxbuf'[1][i].dg.path \in Ways(1),
         \A i \in Idx : \/ rxbuf'[0][i] = rxbuf[0][i] \/ rxbuf'[0][i].dg.path \in Ways(0)
                        \/ rxbuf'[0][i].dg.path \in Ways(1) /\ Copied(i)',
         \A i \in Idx : \/ txbuf'[i] = txbuf[i] \/ txbuf'[i].path = << >>
                        \/ txbuf'[i].path \in Ways(0) /\ \E u \in Threads : Taker(u, i)'
  PROVE  Routed'
<1>1. \A s : Ways(s)' = Ways(s)
  BY DEF Ways, Front, Halves, line
<1>2. \A i \in Idx : (\E u \in Threads : Taker(u, i)) => (\E u \in Threads : Taker(u, i)')
  BY TakersStay
<1>3. \A i \in Idx : Copied(i) => Copied(i)'
  BY TakersStay
<1>4. \A i \in Idx : rxbuf'[1][i].dg.path \in Ways(1)
  BY DEF Routed
<1>5. \A i \in Idx : \/ rxbuf'[0][i].dg.path \in Ways(0)
                     \/ rxbuf'[0][i].dg.path \in Ways(1) /\ Copied(i)'
  BY <1>3 DEF Routed
<1>6. \A i \in Idx : \/ txbuf'[i].path = << >>
                     \/ txbuf'[i].path \in Ways(0) /\ \E u \in Threads : Taker(u, i)'
  BY <1>2 DEF Routed
<1> HIDE DEF Routed
<1>7. \A s \in Stacks : \A j \in 1 .. Len(sock'[s]) : sock'[s][j].dg.path \in Ways(s)'
  BY <1>1
<1>8. \A u \in Threads : pc'[u] = "store" => pend'[u].dg.path \in Ways(stack'[u])
  OBVIOUS
<1> QED BY <1>1, <1>4, <1>5, <1>6, <1>7, <1>8 DEF Routed

(* The frame in the index of an other slot stays where it is.                *)
LEMMA RoutedStep ==
  ASSUME Port, Port', Routed, Double, NEW t \in Threads, Step(t), clean'
  PROVE  Routed'
<1>0. \/ pc[t] \in {"idle", "claim"}
      \/ pc[t] \in {"out", "dummy"} /\ Cur(t) \in Idx /\ Len(held[t]) \in Slots(t) /\ Cur(t) = At(t, Len(held[t]))
      \/ pc[t] \notin {"idle", "claim", "out", "dummy"} /\ Cur(t) \in Idx /\ 1 \in Slots(t) /\ Cur(t) = At(t, 1)
  <2>1. CASE pc[t] \in {"out", "dummy"}
    <3>1. Len(held[t]) > 0 /\ held[t] \in Seq(Entries)
      BY <2>1 DEF Port, Shapes, Shape, Types
    <3>2. Len(held[t]) \in Slots(t)
      BY <3>1 DEF Slots
    <3> QED BY <3>2, <2>1, EntryType DEF Cur, Entry, At, Port
  <2> QED BY <2>1, Waits
<1>s. \A u \in Threads, i \in Idx : Taker(u, i) => 1 \in Slots(u) /\ At(u, 1) = i
  BY Waits DEF Taker
<1>1. CASE Return(t) \/ Take(t)
  <2>1. Release(t) /\ pc[t] = "result" /\ UNCHANGED line
    BY <1>1 DEF Return, Take, Release
  <2> DEFINE i == At(t, 1)
  <2>2. /\ sock' = [s \in Stacks |-> [k \in 1 .. Len(sock[s]) |-> Late(i, sock[s][k])]]
        /\ rxbuf' = [s \in Stacks |-> [rxbuf[s] EXCEPT ![i] = NoFrame]]
        /\ pend' = [u \in Threads |-> Late(i, pend[u])]
        /\ txbuf' = [txbuf EXCEPT ![i] = Dummy]
        /\ stack' = [stack EXCEPT ![t] = 0] /\ pc' = [pc EXCEPT ![t] = IF Len(held[t]) > 1 THEN "look" ELSE "idle"]
        /\ held' = [held EXCEPT ![t] = Tail(@)] /\ got' = [got EXCEPT ![t] = {}] /\ i \in Idx
    BY <1>0, <2>1 DEF Release, To
  <2> HIDE DEF i
  <2>3. \A s : Ways(s)' = Ways(s) /\ << >> \in Ways(s)
    BY <2>1 DEF Ways, Front, Halves, line
  <2>4. \A f, s : f.dg.path \in Ways(s) => Late(i, f).dg.path \in Ways(s)
    BY <2>3 DEF Late, NoFrame, Dummy
  <2>5. ASSUME NEW s \in Stacks, NEW j \in 1 .. Len(sock'[s]) PROVE sock'[s][j].dg.path \in Ways(s)
    <3>1. sock'[s] = [k \in 1 .. Len(sock[s]) |-> Late(i, sock[s][k])]
      BY <2>2
    <3>2. Len(sock[s]) \in Nat
      BY DEF Port, Types
    <3>3. j \in 1 .. Len(sock[s]) /\ sock'[s][j] = Late(i, sock[s][j])
      BY <2>5, <3>1, <3>2
    <3> QED BY <3>3, <2>4 DEF Routed
  <2>6. ASSUME NEW u \in Threads, pc'[u] = "store" PROVE pend'[u].dg.path \in Ways(stack'[u])
    <3>1. u # t
      BY <2>2, <2>6 DEF Port, Types
    <3>2. pc[u] = "store" /\ stack'[u] = stack[u] /\ pend'[u] = Late(i, pend[u])
      BY <2>2, <2>6, <3>1 DEF Port, Types
    <3> QED BY <2>4, <3>2 DEF Routed
  <2>7. \A n \in Idx : \/ n = i /\ txbuf'[n].path = << >> /\ rxbuf'[0][n].dg.path = << >> /\ rxbuf'[1][n].dg.path = << >>
                       \/ n # i /\ txbuf'[n] = txbuf[n] /\ rxbuf'[0][n] = rxbuf[0][n] /\ rxbuf'[1][n] = rxbuf[1][n]
    BY <2>2 DEF Port, Types, Stacks, NoFrame, Dummy
  <2>8. \A u \in Threads, n \in Idx : n # i /\ Taker(u, n) => Taker(u, n)' /\ (pc[u] = "result" => pc'[u] = "result")
    <3> TAKE u \in Threads, n \in Idx
    <3>1. n # i /\ Taker(u, n) => u # t
      BY DEF Taker, i
    <3>2. u # t => held'[u] = held[u] /\ pc'[u] = pc[u] /\ got'[u] = got[u]
      BY <2>2 DEF Port, Types
    <3> QED BY <3>1, <3>2 DEF Taker, At
  <2>9. \A n \in Idx : rxbuf'[1][n].dg.path \in Ways(1)
    BY <2>3, <2>7 DEF Routed
  <2>10. \A n \in Idx : rxbuf'[0][n].dg.path \in Ways(0) \/ (rxbuf'[0][n].dg.path \in Ways(1) /\ Copied(n)')
    BY <2>3, <2>7, <2>8 DEF Routed, Copied
  <2>11. \A n \in Idx : txbuf'[n].path = << >> \/ (txbuf'[n].path \in Ways(0) /\ \E u \in Threads : Taker(u, n)')
    BY <2>7, <2>8 DEF Routed
  <2> QED BY <2>3, <2>5, <2>6, <2>9, <2>10, <2>11 DEF Routed
<1>2. CASE ~(Return(t) \/ Take(t))
  <2>0. UNCHANGED line
    BY <1>2 DEF Step, Begin, Claim, OutFrame, OutDummy, Look, RecvNothing, RecvFrame, Store,
                WaitMore, Waited, Decide, Resend, Retry
  <2>p. \A s : << >> \in Ways(s)
    BY DEF Ways
  <2>1. CASE Begin(t) \/ RecvNothing(t) \/ WaitMore(t) \/ Retry(t) \/ Look(t)
    <3>1. UNCHANGED <<txbuf, rxbuf, sock, pend>>
      BY <2>1 DEF Begin, RecvNothing, WaitMore, Retry, Look, port
    <3>2. \A u \in Threads : pc'[u] = "store" => pc[u] = "store" /\ stack'[u] = stack[u]
      <4> USE DEF To, Proceed, Gets, Port, Types
      <4>1. CASE Begin(t)
        BY <4>1 DEF Begin
      <4>2. CASE RecvNothing(t)
        BY <4>2 DEF RecvNothing
      <4>3. CASE WaitMore(t) \/ Retry(t)
        BY <4>3 DEF WaitMore, Retry
      <4>4. CASE Look(t)
        BY <4>4 DEF Look
      <4> QED BY <2>1, <4>1, <4>2, <4>3, <4>4
    <3> QED BY <1>2, <2>0, <3>1, <3>2, StaysRouted DEF Routed
  <2>2. CASE Claim(t)
    <3> DEFINE i == Found
    <3>1. /\ ComeRound(i) /\ UNCHANGED <<rxbuf, pend, stack>> /\ pc' = [pc EXCEPT ![t] = "out"]
          /\ \A n \in Idx : txbuf'[n] = txbuf[n] \/ txbuf'[n].path = << >>
      BY <2>2 DEF Claim, To, Port, Types
    <3> HIDE DEF i
    <3>2. ASSUME NEW s \in Stacks, NEW j \in 1 .. Len(sock'[s]) PROVE sock'[s][j].dg.path \in Ways(s)
      <4>1. Len(sock'[s]) = Len(sock[s])
        BY <3>1, ClaimSock DEF Port
      <4>2. j \in 1 .. Len(sock[s]) /\ sock'[s][j] = Outdated(i, sock[s][j])
        BY <3>1, <4>1, ClaimSock DEF Port
      <4>3. Foreign.dg.path = << >>
        BY DEF Foreign, NoFrame, Dummy
      <4> QED BY <2>p, <4>2, <4>3 DEF Outdated, Routed
    <3>3. \A u \in Threads : pc'[u] = "store" => pc[u] = "store"
      BY <3>1 DEF Port, Types
    <3> QED BY <1>2, <2>0, <3>1, <3>2, <3>3, StaysRouted DEF Routed
  <2>3. CASE OutFrame(t) \/ OutDummy(t) \/ Resend(t)
    <3>1. /\ UNCHANGED <<txbuf, rxbuf, pend>> /\ pc[t] \in {"out", "dummy", "resend"}
          /\ \A u \in Threads : pc'[u] = "store" => pc[u] = "store" /\ stack'[u] = stack[u]
      <4> USE DEF To, Port, Types
      <4>1. CASE OutFrame(t)
        BY <4>1, SentPlace DEF OutFrame
      <4>2. CASE OutDummy(t)
        BY <4>2, SentPlace DEF OutDummy
      <4>3. CASE Resend(t)
        BY <4>3 DEF Resend
      <4> QED BY <2>3, <4>1, <4>2, <4>3
    <3>2. Cur(t) \in Idx /\ txbuf[Cur(t)] \in Datagrams
      BY <1>0, <3>1 DEF Port, Types
    <3>3. \A s \in Stacks : \A j \in 1 .. Len(sock'[s]) : sock'[s][j].dg.path \in Ways(s)
      <4>1. CASE OutFrame(t)
        <5>1. Transmit(Cur(t), txbuf[Cur(t)], 0, "pri") /\ pc[t] = "out"
          BY <4>1 DEF OutFrame
        <5>2. \A u \in Threads : ~Taker(u, Cur(t))
          <6> SUFFICES ASSUME NEW u \in Threads, Taker(u, Cur(t)) PROVE FALSE
            OBVIOUS
          <6>1. 1 \in Slots(u) /\ Len(held[t]) \in Slots(t) /\ At(u, 1) = At(t, Len(held[t]))
            BY <1>0, <1>s, <3>2, <5>1
          <6>2. u = t
            BY <6>1 DEF Port, Separate
          <6> QED BY <5>1, <6>2 DEF Taker
        <5>3. txbuf[Cur(t)].path = << >>
          BY <3>2, <5>2 DEF Routed
        <5> QED BY <3>2, <5>1, <5>3, Travels DEF Port, Stacks
      <4>2. CASE OutDummy(t)
        <5>1. Transmit(Cur(t), Dummy, 1, "sec")
          BY <4>2 DEF OutDummy
        <5>2. Dummy \in Datagrams /\ Dummy.path = << >>
          BY DEF Dummy, Datagrams, Commands
        <5> QED BY <2>p, <3>2, <5>1, <5>2, Travels DEF Port, Stacks
      <4>3. CASE Resend(t)
        <5>1. Transmit(Cur(t), txbuf[Cur(t)], 1, "pri")
          BY <4>3 DEF Resend
        <5>2. txbuf[Cur(t)].path \in Ways(0)
          BY <2>p, <3>2 DEF Routed
        <5> QED BY <3>2, <5>1, <5>2, Travels DEF Port, Stacks
      <4> QED BY <2>3, <4>1, <4>2, <4>3
    <3> QED BY <1>2, <2>0, <3>1, <3>3, StaysRouted DEF Routed
  <2>4. CASE RecvFrame(t)
    <3> DEFINE r == stack[t]
               f == Head(sock[r])
    <3>1. r \in Stacks /\ sock[r] \in Seq(Frames) /\ sock[r] # << >> /\ Cur(t) \in Idx
      BY <2>4, <1>0 DEF RecvFrame, Port, Types
    <3>2. /\ txbuf' = txbuf /\ sock' = [sock EXCEPT ![r] = Tail(@)]
          /\ rxbuf' = rxbuf \/ rxbuf' = [rxbuf EXCEPT ![r][Cur(t)] = f]
          /\ \A u \in Threads : pc'[u] = "store" =>
               stack'[u] = stack[u] /\ ((pc[u] = "store" /\ pend'[u] = pend[u]) \/ (u = t /\ pend'[u] = f))
      BY <2>4 DEF RecvFrame, Gets, Proceed, To, Port, Types
    <3>3. f = sock[r][1] /\ 1 \in 1 .. Len(sock[r])
      BY <3>1, TailAt
    <3>4. f.dg.path \in Ways(r)
      BY <3>1, <3>3 DEF Routed
    <3>5. ASSUME NEW s \in Stacks, NEW j \in 1 .. Len(sock'[s]) PROVE sock'[s][j].dg.path \in Ways(s)
      <4>1. CASE s # r
        BY <3>1, <3>2, <3>5, <4>1 DEF Port, Types, Routed
      <4>2. CASE s = r
        <5>1. sock'[s] = Tail(sock[r])
          BY <3>1, <3>2, <4>2 DEF Port, Types
        <5>2. j + 1 \in 1 .. Len(sock[r]) /\ sock'[s][j] = sock[r][j + 1]
          BY <3>1, <3>5, <5>1, TailAt
        <5> QED BY <3>1, <4>2, <5>2 DEF Routed
      <4> QED BY <4>1, <4>2
    <3>6. \A u \in Threads : pc'[u] = "store" => pend'[u].dg.path \in Ways(stack'[u])
      BY <3>2, <3>4 DEF Routed
    <3> HIDE DEF f, r
    <3>7. \A s \in Stacks, n \in Idx : rxbuf'[s][n] = rxbuf[s][n] \/ (s = r /\ rxbuf'[s][n].dg.path \in Ways(r))
      <4> TAKE s \in Stacks, n \in Idx
      <4>1. rxbuf'[s][n] = rxbuf[s][n] \/ (s = r /\ rxbuf'[s][n] = f)
        BY <3>1, <3>2 DEF Port, Types
      <4> QED BY <3>4, <4>1
    <3>8. /\ \A n \in Idx : rxbuf'[1][n] = rxbuf[1][n] \/ rxbuf'[1][n].dg.path \in Ways(1)
          /\ \A n \in Idx : rxbuf'[0][n] = rxbuf[0][n] \/ rxbuf'[0][n].dg.path \in Ways(0)
      BY <3>7 DEF Stacks
    <3> QED BY <1>2, <2>0, <3>2, <3>5, <3>6, <3>8, StaysRouted
  <2>5. CASE Store(t)
    <3> DEFINE r == stack[t]
               n == pend[t].idx
               f == pend[t]
    <3>1. /\ r \in Stacks /\ n \in Idx /\ UNCHANGED <<txbuf, sock>>
          /\ rxbuf' = [rxbuf EXCEPT ![r][n] = f] /\ f.dg.path \in Ways(r)
          /\ \A u \in Threads : pc'[u] = "store" => pc[u] = "store" /\ stack'[u] = stack[u] /\ pend'[u] = pend[u]
      BY <2>5 DEF Store, Proceed, To, Port, Types, Shapes, Shape, Routed
    <3> HIDE DEF r, n, f
    <3>2. \A s \in Stacks, m \in Idx : rxbuf'[s][m] = rxbuf[s][m] \/ (s = r /\ rxbuf'[s][m].dg.path \in Ways(r))
      <4> TAKE s \in Stacks, m \in Idx
      <4>1. rxbuf'[s][m] = rxbuf[s][m] \/ (s = r /\ rxbuf'[s][m] = f)
        BY <3>1 DEF Port, Types
      <4> QED BY <3>1, <4>1
    <3>3. /\ \A m \in Idx : rxbuf'[1][m] = rxbuf[1][m] \/ rxbuf'[1][m].dg.path \in Ways(1)
          /\ \A m \in Idx : rxbuf'[0][m] = rxbuf[0][m] \/ rxbuf'[0][m].dg.path \in Ways(0)
      BY <3>2 DEF Stacks
    <3> QED BY <1>2, <2>0, <3>1, <3>3, StaysRouted DEF Routed
  <2>6. CASE Waited(t)
    <3> PICK i \in Idx : i = Cur(t) /\ i = At(t, 1) /\ 1 \in Slots(t)
      BY <1>0, <2>6 DEF Waited
    <3>1. /\ UNCHANGED <<txbuf, sock, pend, stack>> /\ pc[t] = "test"
          /\ \A u \in Threads : pc'[u] = "store" => pc[u] = "store"
          /\ \/ rxbuf' = rxbuf
             \/ /\ rxbuf' = [rxbuf EXCEPT ![0][i] = rxbuf[1][i]]
                /\ 0 \in got'[t] /\ pc'[t] = "result" /\ held' = held
      BY <2>6 DEF Waited, To, Port, Types
    <3>3. CASE rxbuf' = rxbuf
      BY <1>2, <2>0, <3>1, <3>3, StaysRouted DEF Routed
    <3>4. CASE /\ rxbuf' = [rxbuf EXCEPT ![0][i] = rxbuf[1][i]]
               /\ 0 \in got'[t] /\ pc'[t] = "result" /\ held' = held
      <4>1. Copied(i)'
        BY <3>4 DEF Copied, Taker, At
      <4>2. \A n \in Idx : /\ rxbuf'[1][n] = rxbuf[1][n]
                           /\ rxbuf'[0][n] = rxbuf[0][n] \/ (n = i /\ rxbuf'[0][n] = rxbuf[1][n])
        BY <3>4 DEF Port, Types, Stacks
      <4>3. \A n \in Idx : rxbuf'[0][n] = rxbuf[0][n] \/ (rxbuf'[0][n].dg.path \in Ways(1) /\ Copied(n)')
        BY <4>1, <4>2 DEF Routed
      <4> QED BY <1>2, <2>0, <3>1, <4>2, <4>3, StaysRouted DEF Routed
    <3> QED BY <3>1, <3>3, <3>4
  <2>7. CASE Decide(t)
    <3> PICK i \in Idx : i = Cur(t) /\ i = At(t, 1) /\ 1 \in Slots(t)
      BY <1>0, <2>7 DEF Decide
    <3>1. /\ UNCHANGED <<sock, pend, stack, got, held>> /\ pc[t] = "decide"
          /\ \A u \in Threads : pc'[u] = "store" => pc[u] = "store"
          /\ \/ UNCHANGED <<txbuf, rxbuf>>
             \/ /\ Source(t, 0) = "sec" /\ rxbuf' = [rxbuf EXCEPT ![0][i] = rxbuf[1][i]]
                /\ pc'[t] = "result" /\ UNCHANGED txbuf
             \/ /\ Source(t, 0) = "pri" /\ txbuf' = [txbuf EXCEPT ![i] = rxbuf[0][i].dg]
                /\ pc'[t] = "resend" /\ UNCHANGED rxbuf
      BY <2>7 DEF Decide, To, Port, Types
    <3>3. CASE UNCHANGED <<txbuf, rxbuf>>
      BY <1>2, <2>0, <3>1, <3>3, StaysRouted DEF Routed
    <3>4. CASE /\ Source(t, 0) = "sec" /\ rxbuf' = [rxbuf EXCEPT ![0][i] = rxbuf[1][i]]
               /\ pc'[t] = "result" /\ UNCHANGED txbuf
      <4>1. Copied(i)'
        BY <3>1, <3>4 DEF Copied, Taker, At, Source
      <4>2. \A n \in Idx : /\ rxbuf'[1][n] = rxbuf[1][n]
                           /\ rxbuf'[0][n] = rxbuf[0][n] \/ (n = i /\ rxbuf'[0][n] = rxbuf[1][n])
        BY <3>4 DEF Port, Types, Stacks
      <4>3. \A n \in Idx : rxbuf'[0][n] = rxbuf[0][n] \/ (rxbuf'[0][n].dg.path \in Ways(1) /\ Copied(n)')
        BY <4>1, <4>2 DEF Routed
      <4> QED BY <1>2, <2>0, <3>1, <3>4, <4>2, <4>3, StaysRouted DEF Routed
    <3>5. CASE /\ Source(t, 0) = "pri" /\ txbuf' = [txbuf EXCEPT ![i] = rxbuf[0][i].dg]
               /\ pc'[t] = "resend" /\ UNCHANGED rxbuf
      <4>1. Taker(t, i)' /\ Taker(t, i)
        BY <3>1, <3>5 DEF Taker, At, Source
      <4>2. ~Copied(i)
        <5> SUFFICES ASSUME NEW u \in Threads, Taker(u, i), pc[u] = "result" PROVE FALSE
          BY DEF Copied
        <5>1. u = t
          BY <1>s DEF Port, Separate
        <5> QED BY <3>1, <5>1
      <4>3. rxbuf[0][i].dg.path \in Ways(0)
        BY <4>2 DEF Routed
      <4>4. \A n \in Idx : txbuf'[n] = txbuf[n] \/ (txbuf'[n].path \in Ways(0) /\ \E u \in Threads : Taker(u, n)')
        <5> TAKE n \in Idx
        <5>1. txbuf'[n] = txbuf[n] \/ (n = i /\ txbuf'[n] = rxbuf[0][n].dg)
          BY <3>5 DEF Port, Types
        <5> QED BY <4>1, <4>3, <5>1
      <4> QED BY <1>2, <2>0, <3>1, <3>5, <4>4, StaysRouted DEF Routed
    <3> QED BY <3>1, <3>3, <3>4, <3>5
  <2> QED BY <1>2, <2>1, <2>2, <2>3, <2>4, <2>5, <2>6, <2>7 DEF Step
<1> QED BY <1>1, <1>2
-----------------------------------------------------------------------------
(* The redundant mode.  On which sides frames are expected, and of what kind *)
Awaited(s)   == IF s = 0 THEN cut # 0 ELSE cut # Slaves
Again(t, k)  == k = 1 /\ resent[t]
Whole(f)     == f.src = "pri" /\ f.dg.path = Line
Kind(t, k, s, f) ==
  /\ Good(t, k, f)
  /\ s = 0 => \/ cut = -1 /\ f.src = "sec"
              \/ cut > 0 /\ f.src = "pri" /\ f.dg.path = SubSeq(Line, 1, cut)
  /\ s = 1 => \/ cut = -1 /\ Whole(f)
              \/ cut \in 0 .. Slaves - 1 /\ IF Again(t, k) THEN Whole(f) ELSE f.src = "sec"

(* The frames of the k-th slot of t: in a socket at most once, in a hand, or *)
(* received                                                                  *)
InSock(s, i)    == \E j \in 1 .. Len(sock[s]) : sock[s][j].idx = i
InHand(t, s, i) == pc[t] = "store" /\ stack[t] = s /\ pend[t].idx = i
Ready(t, k)     == k = Len(held[t]) => pc[t] \notin {"out", "dummy"}

Flying(t, k, s) ==
  /\ \A j \in 1 .. Len(sock[s]) : sock[s][j].idx = At(t, k) => Kind(t, k, s, sock[s][j])
  /\ \A j, l \in 1 .. Len(sock[s]) : sock[s][j].idx = At(t, k) /\ sock[s][l].idx = At(t, k) => j = l
Fate(t, k, s) ==
  LET i == At(t, k) IN
  /\ stat[s][i] \in {"rcvd", "complete"} =>
       ~InSock(s, i) /\ (k # 1 \/ pc[t] # "result" => Kind(t, k, s, rxbuf[s][i]))
  /\ InHand(t, s, i) => k # 1 /\ stat[s][i] = "tx" /\ ~InSock(s, i) /\ Kind(t, k, s, pend[t])
  /\ Ready(t, k) => stat[s][i] \in {"tx", "rcvd", "complete"}
  /\ Ready(t, k) /\ stat[s][i] = "tx" /\ Awaited(s) => InSock(s, i) \/ InHand(t, s, i)
  /\ stat[s][i] = "complete" => k = 1 /\ s \in got[t]
  /\ k = 1 /\ s \in got[t] /\ pc[t] # "result" => stat[s][i] = "complete"

(* What was sent on has passed the first part of the line.                   *)
Begun(t, k) ==
  txbuf[At(t, k)].path =
    IF k = 1 /\ (pc[t] = "resend" \/ resent[t]) THEN SubSeq(Line, 1, cut) ELSE << >>

Tracked(t, k) == Begun(t, k) /\ \A s \in Stacks : Flying(t, k, s) /\ Fate(t, k, s)

(* A frame that is being sent                                                *)
Leaving(t) ==
  LET i == At(t, Len(held[t])) IN
  /\ pc[t] = "out" => \A s \in Stacks : ~InSock(s, i) /\ stat[s][i] = "alloc"
  /\ pc[t] = "dummy" =>
       /\ stat[0][i] = "tx" /\ stat[1][i] = "alloc"
       /\ InSock(0, i) <=> cut > 0
       /\ InSock(1, i) <=> cut = -1

(* Where the decision tree goes                                              *)
Decided(t) ==
  /\ pc[t] = "decide" => \A s \in Stacks : s \in got[t] <=> Awaited(s)
  /\ pc[t] = "resend" => cut \in 0 .. Slaves - 1 /\ 1 \in got[t]
  /\ resent[t] => cut \in 0 .. Slaves - 1
  /\ pc[t] = "result" => 0 \in got[t] /\ Whole(rxbuf[0][At(t, 1)])

(* All this of an index of which no frame was missed; of the others, nothing.*)
Sound(t, k) == At(t, k) \notin missed
Course(t) ==
  /\ \A k \in Slots(t) : Sound(t, k) => Tracked(t, k)
  /\ Sound(t, Len(held[t])) => Leaving(t)
  /\ Sound(t, 1) => Decided(t)
  /\ pc[t] \in {"claim", "out", "dummy", "decide", "resend"} => ~resent[t]
Ring == \A t \in Threads :
          IF pc[t] = "idle" THEN ~resent[t]
          ELSE Course(t) /\ \A u \in Threads \ {t} : pc[u] = "idle"

(* In the sockets nothing changes for the frames of index i.                 *)
SameFrames(s, i) ==
  /\ InSock(s, i) => \E j \in 1 .. Len(sock'[s]) : sock'[s][j].idx = i
  /\ \E d \in {0, 1} : \A j \in 1 .. Len(sock'[s]) :
       sock'[s][j].idx = i => j + d \in 1 .. Len(sock[s]) /\ sock'[s][j] = sock[s][j + d]

LEMMA KindStays ==
  ASSUME NEW t, NEW k, NEW l, held'[t][k] = held[t][l], cut' = cut, redstate' = redstate,
         NEW s, s = 1 => (Again(t, k)' <=> Again(t, l)), NEW f
  PROVE  Kind(t, k, s, f)' <=> Kind(t, l, s, f)
BY DEF Kind, Good, Double, Whole

LEMMA FlyingStays ==
  ASSUME NEW t, NEW k, NEW l, held'[t][k] = held[t][l],
         cut' = cut, redstate' = redstate, NEW s, s = 1 => (Again(t, k)' <=> Again(t, l)),
         Len(sock'[s]) \in Nat, SameFrames(s, At(t, l)), Flying(t, l, s)
  PROVE  Flying(t, k, s)' /\ (InSock(s, At(t, k))' <=> InSock(s, At(t, l)))
<1> DEFINE i == At(t, l)
<1>1. At(t, k)' = i
  BY DEF At
<1>2. \A f : Kind(t, k, s, f)' <=> Kind(t, l, s, f)
  BY KindStays
<1> PICK d \in {0, 1} : \A j \in 1 .. Len(sock'[s]) :
       sock'[s][j].idx = i => j + d \in 1 .. Len(sock[s]) /\ sock'[s][j] = sock[s][j + d]
  BY DEF SameFrames
<1>3. \A j \in 1 .. Len(sock'[s]) : sock'[s][j].idx = At(t, k)' => Kind(t, k, s, sock[s][j])'
  BY <1>1, <1>2 DEF Flying
<1>4. ASSUME NEW j \in 1 .. Len(sock'[s]), NEW m \in 1 .. Len(sock'[s]), sock'[s][j].idx = i, sock'[s][m].idx = i
      PROVE  j = m
  <2>1. j \in Int /\ m \in Int /\ d \in Int
    OBVIOUS
  <2>2. j + d = m + d
    BY <1>4 DEF Flying
  <2> QED BY ONLY <2>1, <2>2
<1>5. InSock(s, At(t, k))' <=> InSock(s, i)
  BY <1>1 DEF InSock, SameFrames
<1>6. Flying(t, k, s)'
  BY <1>1, <1>3, <1>4 DEF Flying
<1> QED BY <1>5, <1>6

(* A slot that a step does not work on.                                      *)
LEMMA TrackedStays ==
  ASSUME NEW t, NEW k, NEW l, held'[t][k] = held[t][l], Tracked(t, l),
         cut' = cut, redstate' = redstate, Again(t, k)' <=> Again(t, l),
         txbuf'[At(t, l)] = txbuf[At(t, l)],
         \A s \in Stacks :
           /\ Len(sock'[s]) \in Nat /\ SameFrames(s, At(t, l))
           /\ stat'[s][At(t, l)] = stat[s][At(t, l)] /\ rxbuf'[s][At(t, l)] = rxbuf[s][At(t, l)]
           /\ ~InHand(t, s, At(t, l)) /\ ~InHand(t, s, At(t, k))'
           /\ (k = 1 /\ s \in got'[t]) <=> (l = 1 /\ s \in got[t]),
         Ready(t, k)' => Ready(t, l),
         (k # 1 \/ pc'[t] # "result") => (l # 1 \/ pc[t] # "result"),
         (k = 1 /\ pc'[t] = "resend") <=> (l = 1 /\ pc[t] = "resend")
  PROVE  Tracked(t, k)'
<1>1. At(t, k)' = At(t, l)
  BY DEF At
<1>2. Begun(t, k)'
  BY <1>1 DEF Tracked, Begun, Again
<1>3. ASSUME NEW s \in Stacks PROVE Flying(t, k, s)' /\ Fate(t, k, s)'
  <2>1. \A f : Kind(t, k, s, f)' <=> Kind(t, l, s, f)
    BY KindStays
  <2>2. Flying(t, k, s)' /\ (InSock(s, At(t, k))' <=> InSock(s, At(t, l)))
    BY FlyingStays DEF Tracked
  <2>3. Awaited(s)' <=> Awaited(s)
    BY DEF Awaited
  <2>4. Fate(t, k, s)'
    BY <1>1, <2>1, <2>2, <2>3 DEF Tracked, Fate
  <2> QED BY <2>2, <2>4
<1> QED BY <1>2, <1>3 DEF Tracked

(* Whose turn it is, and what a step of his has to leave behind.             *)
LEMMA OnTurn ==
  ASSUME Types, Ring, NEW t \in Threads, pc[t] # "idle"
  PROVE  Course(t) /\ \A u \in Threads \ {t} : pc[u] = "idle" /\ ~resent[u]
BY DEF Ring

LEMMA RingKeeps ==
  ASSUME NEW t \in Threads, \A u \in Threads \ {t} : pc'[u] = "idle" /\ ~resent'[u],
         IF pc'[t] = "idle" THEN ~resent'[t] ELSE Course(t)'
  PROVE  Ring'
BY DEF Ring

LEMMA SameSock ==
  ASSUME Types, NEW s \in Stacks, sock'[s] = sock[s], NEW i
  PROVE  Len(sock'[s]) \in Nat /\ SameFrames(s, i)
<1>1. sock[s] \in Seq(Frames)
  BY DEF Types
<1>2. \A j \in 1 .. Len(sock'[s]) : j + 0 \in 1 .. Len(sock[s]) /\ sock'[s][j] = sock[s][j + 0]
  BY <1>1
<1> QED BY <1>1, <1>2 DEF SameFrames, InSock

(* t goes on and nothing in the port changes.                                *)
LEMMA WaitingTracked ==
  ASSUME Port, NEW t \in Threads, NEW k \in Slots(t), Tracked(t, k),
         UNCHANGED <<line, port, held, resent, got, pend>>,
         pc[t] \notin {"store", "result", "resend"}, pc'[t] \notin {"store", "resend"},
         pc[t] \in {"out", "dummy"} => pc'[t] \in {"out", "dummy"}
  PROVE  Tracked(t, k)'
<1>1. UNCHANGED <<redstate, cut, stat, txbuf, rxbuf, sock, held, resent, got, pend>>
  BY DEF line, port
<1>2. \A s \in Stacks : Len(sock'[s]) \in Nat /\ SameFrames(s, At(t, k))
  BY <1>1, SameSock DEF Port
<1>3. Again(t, k)' <=> Again(t, k)
  BY <1>1 DEF Again
<1>4. Ready(t, k)' => Ready(t, k)
  BY <1>1 DEF Ready
<1>5. \A s \in Stacks : ~InHand(t, s, At(t, k)) /\ ~InHand(t, s, At(t, k))'
  BY DEF InHand
<1> QED BY <1>1, <1>2, <1>3, <1>4, <1>5, TrackedStays

LEMMA BeginRing ==
  ASSUME Port, Ring, Double, NEW t \in Threads, Begin(t)
  PROVE  Ring'
<1>1. /\ UNCHANGED <<line, port, held, stack, resent, got, pend>>
      /\ pc[t] = "idle" /\ pc' = [pc EXCEPT ![t] = "claim"] /\ \A u \in Threads : pc[u] = "idle"
  BY DEF Begin, To
<1>2. held[t] = << >> /\ ~resent[t]
  BY <1>1 DEF Port, Shapes, Shape, Ring
<1>3. pc'[t] = "claim" /\ \A u \in Threads \ {t} : pc'[u] = "idle" /\ ~resent'[u]
  BY <1>1 DEF Port, Types, Ring
<1>4. Course(t)'
  BY <1>1, <1>2, <1>3 DEF Course, Slots, Leaving, Decided
<1> QED BY <1>3, <1>4, RingKeeps

LEMMA WaitingRing ==
  ASSUME Port, Ring, Double, NEW t \in Threads, RecvNothing(t) \/ WaitMore(t)
  PROVE  Ring'
<1>1. pc[t] # "idle"
  BY DEF RecvNothing, WaitMore
<1>2. Course(t) /\ \A u \in Threads \ {t} : pc[u] = "idle" /\ ~resent[u]
  BY <1>1, OnTurn DEF Port
<1>3. /\ UNCHANGED <<line, port, held, resent, got, pend, missed>> /\ pc[t] \in {"recv", "test"}
      /\ pc'[t] \in {"look", "test"} /\ \A u \in Threads \ {t} : pc'[u] = pc[u]
  <2>1. CASE RecvNothing(t)
    BY <2>1, ProceedType DEF RecvNothing, Port
  <2>2. CASE WaitMore(t)
    BY <2>2 DEF WaitMore, To, Port, Types
  <2> QED BY <2>1, <2>2
<1>4. \A k \in Slots(t) : Sound(t, k) => Tracked(t, k)'
  BY <1>2, <1>3, WaitingTracked DEF Course
<1>5. UNCHANGED <<cut, rxbuf, held, resent, got, missed>>
  BY <1>3 DEF line, port
<1>6. Course(t)'
  BY <1>2, <1>3, <1>4, <1>5 DEF Course, Sound, At, Slots, Leaving, Decided
<1> QED BY <1>2, <1>3, <1>6, RingKeeps

(* Only a call whose frame was missed has nothing to return.                 *)
LEMMA RetryRing ==
  ASSUME Port, Ring, Double, NEW t \in Threads, Retry(t)
  PROVE  Ring'
<1>1. /\ pc[t] = "result" /\ t # Cycle /\ 0 \notin got[t] /\ held' = held /\ missed' = missed
      /\ pc' = [pc EXCEPT ![t] = "out"] /\ resent' = [resent EXCEPT ![t] = FALSE]
  BY DEF Retry, To
<1>2. Course(t) /\ \A u \in Threads \ {t} : pc[u] = "idle" /\ ~resent[u]
  BY <1>1, OnTurn DEF Port
<1>3. ~Sound(t, 1)
  BY <1>1, <1>2 DEF Course, Decided
<1>4. Len(held[t]) = 1 /\ Slots(t) = {1}
  <2>1. Shape(t) /\ Cmds(t) = <<"FP">> /\ held[t] \in Seq(Entries)
    BY <1>1 DEF Port, Shapes, Cmds, Types
  <2>2. Len(held[t]) \in Nat /\ Len(held[t]) > 0 /\ Len(held[t]) <= 1
    BY <1>1, <2>1 DEF Shape
  <2>3. \A n \in Nat : n > 0 /\ n <= 1 => n = 1
    OBVIOUS
  <2>4. Len(held[t]) = 1
    BY ONLY <2>2, <2>3
  <2> QED BY <2>4 DEF Slots
<1>5. ~Sound(t, 1)' /\ Len(held'[t]) = 1 /\ Slots(t)' = {1}
  BY <1>1, <1>3, <1>4 DEF Sound, At, Slots
<1>6. pc'[t] = "out" /\ ~resent'[t] /\ \A u \in Threads \ {t} : pc'[u] = "idle" /\ ~resent'[u]
  BY <1>1, <1>2 DEF Port, Types
<1>7. Course(t)'
  BY <1>5, <1>6 DEF Course
<1> QED BY <1>6, <1>7, RingKeeps

LEMMA LookRing ==
  ASSUME Port, Ring, Double, NEW t \in Threads, Look(t)
  PROVE  Ring'
<1> DEFINE r == stack[t]
           i == Cur(t)
<1>1. /\ UNCHANGED <<line, lastidx, txbuf, rxbuf, sock, held, resent, pend, missed>> /\ pc[t] = "look"
      /\ \/ /\ stat[r][i] = "rcvd" /\ stat' = [stat EXCEPT ![r][i] = "complete"]
            /\ got' = [got EXCEPT ![t] = @ \cup {r}] /\ Proceed(t, got[t] \cup {r})
         \/ pc' = [pc EXCEPT ![t] = "recv"] /\ UNCHANGED <<stat, got, stack>>
  BY DEF Look, Gets, To
<1>2. Course(t) /\ \A u \in Threads \ {t} : pc[u] = "idle" /\ ~resent[u]
  BY <1>1, OnTurn DEF Port
<1>3. 1 \in Slots(t) /\ i = At(t, 1) /\ i \in Idx /\ r \in Stacks
  BY <1>1, Waits
<1> HIDE DEF r, i
<1>4. pc'[t] \in {"look", "test", "recv"} /\ \A u \in Threads \ {t} : pc'[u] = pc[u]
  BY <1>1, ProceedType DEF Port, Types
<1>5. ASSUME NEW k \in Slots(t), Sound(t, k) PROVE Tracked(t, k)'
  <2>0. Tracked(t, k)
    BY <1>2, <1>5 DEF Course
  <2>1. CASE UNCHANGED <<stat, got>>
    BY <1>1, <1>4, <2>0, <2>1, WaitingTracked DEF port
  <2>2. CASE /\ stat[r][i] = "rcvd" /\ stat' = [stat EXCEPT ![r][i] = "complete"]
             /\ got' = [got EXCEPT ![t] = @ \cup {r}]
    <3>1. UNCHANGED <<redstate, cut, txbuf, rxbuf, sock, held, resent, pend>>
      BY <1>1 DEF line
    <3>2. \A s \in Stacks : Len(sock'[s]) \in Nat /\ SameFrames(s, At(t, k))
      BY <3>1, SameSock DEF Port
    <3>3. Again(t, k)' <=> Again(t, k)
      BY <3>1 DEF Again
    <3>4. Ready(t, k)' /\ Ready(t, k) /\ \A s \in Stacks : ~InHand(t, s, At(t, k)) /\ ~InHand(t, s, At(t, k))'
      BY <1>1, <1>4 DEF Ready, InHand
    <3>5. CASE k # 1
      <4>1. At(t, k) # i /\ At(t, k) \in Idx
        BY <1>3, <3>5, EntryType DEF Port, Separate, At
      <4>2. \A s \in Stacks : stat'[s][At(t, k)] = stat[s][At(t, k)]
        BY <1>3, <2>2, <4>1 DEF Port, Types
      <4> QED BY <1>1, <1>2, <1>4, <3>1, <3>2, <3>3, <3>4, <3>5, <4>2, <2>0, TrackedStays
    <3>6. CASE k = 1
      <4>1. Tracked(t, k) /\ At(t, k)' = At(t, k)
        BY <2>0, <3>1 DEF At
      <4>2. Begun(t, k)'
        BY <1>1, <1>4, <3>1, <4>1 DEF Tracked, Begun
      <4>3. ASSUME NEW s \in Stacks PROVE Flying(t, k, s)' /\ Fate(t, k, s)'
        <5>1. Flying(t, k, s)' /\ (InSock(s, At(t, k))' <=> InSock(s, At(t, k)))
          BY <3>1, <3>2, <3>3, <4>1, FlyingStays DEF Tracked
        <5>2. \A f : Kind(t, k, s, f)' <=> Kind(t, k, s, f)
          BY <3>1, <3>3, KindStays
        <5>3. IF s = r THEN stat[s][i] = "rcvd" /\ stat'[s][i] = "complete" /\ s \in got'[t]
              ELSE stat'[s][i] = stat[s][i] /\ (s \in got'[t] <=> s \in got[t])
          BY <1>3, <2>2 DEF Port, Types
        <5>4. Awaited(s)' <=> Awaited(s)
          BY <3>1 DEF Awaited
        <5>5. Fate(t, k, s)'
          BY <1>1, <1>3, <1>4, <3>1, <3>4, <3>6, <4>1, <5>1, <5>2, <5>3, <5>4 DEF Tracked, Fate
        <5> QED BY <5>1, <5>5
      <4> QED BY <4>2, <4>3 DEF Tracked
    <3> QED BY <3>5, <3>6
  <2> QED BY <1>1, <2>1, <2>2
<1>6. Course(t)'
  BY <1>1, <1>2, <1>4, <1>5 DEF Course, Sound, At, Slots, Leaving, Decided, line
<1> QED BY <1>1, <1>2, <1>4, <1>6, RingKeeps
-----------------------------------------------------------------------------
(* Frames that are sent on a redundant line *)

(* The frame comes to a socket after the slaves by.                          *)
Passed(dg, by) == dg.path \o by
Arrives(i, dg, src, to, by) ==
  \E f \in Frames :
    /\ f.idx = i /\ f.fresh /\ f.src = src
    /\ f.dg.own = dg.own /\ f.dg.seg = dg.seg /\ f.dg.path = Passed(dg, by)
    /\ sock' = [sock EXCEPT ![to] = Append(sock[to], f)]

LEMMA Arrival ==
  ASSUME Types, NEW i \in Idx, NEW dg \in Datagrams, NEW src \in {"pri", "sec"}, NEW side \in Stacks,
         Double, Transmit(i, dg, side, src)
  PROVE  \/ UNCHANGED sock /\ missed' = IF Route(side) = {} THEN missed ELSE missed \cup {i}
         \/ \E r \in Route(side) : Arrives(i, dg, src, r.to, r.by) /\ missed' = missed
<1>1. ASSUME NEW r \in Route(side),
        sock' = [sock EXCEPT ![r.to] = Append(@,
          [idx |-> i, dg |-> [dg EXCEPT !.path = @ \o r.by], src |-> src, fresh |-> TRUE])]
      PROVE Arrives(i, dg, src, r.to, r.by)
  <2> DEFINE by == r.by
             e == [dg EXCEPT !.path = @ \o by]
             f == [idx |-> i, dg |-> e, src |-> src, fresh |-> TRUE]
  <2>0. r.to \in Stacks /\ by \in Seq(Nat)
    BY RouteType
  <2>1. e \in Datagrams /\ e.own = dg.own /\ e.seg = dg.seg /\ e.path = dg.path \o by
    BY <2>0, PathJoin
  <2>2. sock' = [sock EXCEPT ![r.to] = Append(sock[r.to], f)]
    BY <1>1
  <2> HIDE DEF e
  <2>3. f \in Frames /\ f.idx = i /\ f.fresh /\ f.src = src /\ f.dg = e
    BY <2>1, Bounds DEF Frames, Idx
  <2> HIDE DEF f
  <2> QED BY <2>1, <2>2, <2>3 DEF Arrives, Passed
<1>2. CASE UNCHANGED sock /\ missed' = IF Double /\ Route(side) # {} THEN missed \cup {i} ELSE missed
  BY <1>2
<1> QED BY <1>1, <1>2 DEF Transmit

LEMMA Sides ==
  ASSUME Types, Double
  PROVE  /\ cut = -1 => Route(0) = {[to |-> 1, by |-> Line]} /\ Route(1) = {[to |-> 0, by |-> << >>]}
         /\ cut > 0 => Route(0) = {[to |-> 0, by |-> SubSeq(Line, 1, cut)]}
         /\ cut = 0 => Route(0) = {}
         /\ cut \in 0 .. Slaves - 1 => Route(1) = {[to |-> 1, by |-> SubSeq(Line, cut + 1, Slaves)]}
         /\ cut = Slaves => Route(1) = {}
<1>1. cut \in -1 .. Slaves /\ Slaves \in Nat \ {0}
  BY Bounds DEF Types
<1>2. cut = -1 => Route(0) = {[to |-> 1, by |-> Line]} /\ Route(1) = {[to |-> 0, by |-> << >>]}
  BY DEF Route
<1>3. cut > 0 => Route(0) = {[to |-> 0, by |-> SubSeq(Line, 1, cut)]}
  BY <1>1 DEF Route
<1>4. cut = 0 => Route(0) = {}
  BY <1>1 DEF Route
<1>5. cut \in 0 .. Slaves - 1 => Route(1) = {[to |-> 1, by |-> SubSeq(Line, cut + 1, Slaves)]}
  BY <1>1 DEF Route
<1>6. cut = Slaves => Route(1) = {}
  BY <1>1 DEF Route
<1> QED BY <1>2, <1>3, <1>4, <1>5, <1>6

(* What the frame in its socket is to the slots                              *)
LEMMA Lands ==
  ASSUME Types, NEW to \in Stacks, NEW f \in Frames, sock' = [sock EXCEPT ![to] = Append(sock[to], f)]
  PROVE  /\ sock' \in [Stacks -> Seq(Frames)] /\ \A s \in Stacks : s # to => sock'[s] = sock[s]
         /\ Len(sock'[to]) = Len(sock[to]) + 1 /\ Len(sock[to]) \in Nat
         /\ sock'[to][Len(sock[to]) + 1] = f
         /\ \A j \in 1 .. Len(sock[to]) : sock'[to][j] = sock[to][j]
<1>1. sock[to] \in Seq(Frames) /\ sock'[to] = Append(sock[to], f)
  BY DEF Types
<1>2. sock'[to] \in Seq(Frames)
  BY <1>1, AppendAt
<1> QED BY <1>1, <1>2, AppendAt DEF Types

LEMMA Landed ==
  ASSUME Types, NEW i \in Idx, NEW dg, NEW src, NEW to \in Stacks, NEW by, Arrives(i, dg, src, to, by)
  PROVE  /\ sock' \in [Stacks -> Seq(Frames)]
         /\ \A s \in Stacks : \A n \in Idx : (s # to \/ n # i) => SameFrames(s, n)
<1> PICK f \in Frames : f.idx = i /\ sock' = [sock EXCEPT ![to] = Append(sock[to], f)]
  BY DEF Arrives
<1>1. ASSUME NEW s \in Stacks, NEW n \in Idx, s # to \/ n # i PROVE SameFrames(s, n)
  <2>1. CASE s # to
    BY <2>1, SameSock, Lands
  <2>2. CASE s = to /\ n # i
    <3>1. ASSUME NEW j \in 1 .. Len(sock'[s]), sock'[s][j].idx = n
          PROVE  j + 0 \in 1 .. Len(sock[s]) /\ sock'[s][j] = sock[s][j + 0]
      <4>1. j # Len(sock[to]) + 1
        BY <2>2, <3>1, Lands
      <4> QED BY <2>2, <3>1, <4>1, Lands
    <3>2. InSock(s, n) => \E j \in 1 .. Len(sock'[s]) : sock'[s][j].idx = n
      BY <2>2, Lands DEF InSock
    <3> QED BY <3>1, <3>2 DEF SameFrames
  <2> QED BY <1>1, <2>1, <2>2
<1> QED BY <1>1, Lands

(* What is sent, lost or not, is no frame of another index; and when nothing *)
(* of it is missed, it has come where the line lets it.                      *)
LEMMA Leaves ==
  ASSUME Types, NEW i \in Idx, NEW dg \in Datagrams, NEW src \in {"pri", "sec"}, NEW side \in Stacks,
         Double, Transmit(i, dg, side, src)
  PROVE  /\ missed \subseteq missed'
         /\ \A s \in Stacks : \A m \in Idx : m # i => SameFrames(s, m)
         /\ Route(side) = {} => sock' = sock
         /\ i \notin missed' => \A to \in Stacks, by \in Seq(Nat) :
              Route(side) = {[to |-> to, by |-> by]} => Arrives(i, dg, src, to, by)
<1>1. CASE UNCHANGED sock /\ missed' = IF Route(side) = {} THEN missed ELSE missed \cup {i}
  <2>1. \A s \in Stacks : \A m \in Idx : SameFrames(s, m)
    BY <1>1, SameSock
  <2>2. missed \subseteq missed' /\ (i \notin missed' => Route(side) = {})
    BY <1>1
  <2> QED BY <1>1, <2>1, <2>2
<1>2. ASSUME NEW r \in Route(side), Arrives(i, dg, src, r.to, r.by), missed' = missed
      PROVE  /\ missed \subseteq missed' /\ Route(side) # {}
             /\ \A s \in Stacks : \A m \in Idx : m # i => SameFrames(s, m)
             /\ \A to \in Stacks, by \in Seq(Nat) :
                  Route(side) = {[to |-> to, by |-> by]} => Arrives(i, dg, src, to, by)
  <2>1. r.to \in Stacks
    BY RouteType
  <2>2. \A s \in Stacks : \A m \in Idx : m # i => SameFrames(s, m)
    BY <1>2, <2>1, Landed
  <2>3. ASSUME NEW to \in Stacks, NEW by \in Seq(Nat), Route(side) = {[to |-> to, by |-> by]}
        PROVE  r.to = to /\ r.by = by
    <3>1. r = [to |-> to, by |-> by]
      BY <2>3
    <3> QED BY <3>1
  <2> QED BY <1>2, <2>2, <2>3
<1> QED BY <1>1, <1>2, Arrival

(* A slot whose frame has come to a socket where none of its frames was.     *)
LEMMA FliesNow ==
  ASSUME Types, NEW t, NEW k, NEW i \in Idx, NEW dg, NEW src, NEW to \in Stacks, NEW by,
         Arrives(i, dg, src, to, by), ~InSock(to, i), At(t, k)' = i
  PROVE  \E f \in Frames :
           /\ f.fresh /\ f.src = src
           /\ f.dg.own = dg.own /\ f.dg.seg = dg.seg /\ f.dg.path = Passed(dg, by)
           /\ Kind(t, k, to, f)' => Flying(t, k, to)' /\ InSock(to, At(t, k))'
<1> PICK f \in Frames :
      /\ f.idx = i /\ f.fresh /\ f.src = src
      /\ f.dg.own = dg.own /\ f.dg.seg = dg.seg /\ f.dg.path = Passed(dg, by)
      /\ sock' = [sock EXCEPT ![to] = Append(sock[to], f)]
  BY DEF Arrives
<1>1. SUFFICES ASSUME Kind(t, k, to, f)' PROVE Flying(t, k, to)' /\ InSock(to, At(t, k))'
  OBVIOUS
<1>2. ASSUME NEW j \in 1 .. Len(sock'[to]), sock'[to][j].idx = i
      PROVE  sock'[to][j] = f /\ j = Len(sock[to]) + 1
  <2>1. j \notin 1 .. Len(sock[to])
    BY <1>2, Lands DEF InSock
  <2> QED BY <2>1, Lands
<1>3. Flying(t, k, to)'
  BY <1>1, <1>2 DEF Flying
<1>4. \E m \in 1 .. Len(sock'[to]) : sock'[to][m].idx = i
  <2>1. Len(sock'[to]) = Len(sock[to]) + 1 /\ Len(sock[to]) \in Nat /\ sock'[to][Len(sock[to]) + 1] = f
    BY Lands
  <2> QED BY <2>1
<1> QED BY <1>3, <1>4 DEF InSock

(* A slot that is not the one whose frame is sent.                           *)
LEMMA SendingTracked ==
  ASSUME Port, Port', Ring, NEW t \in Threads, NEW k \in Slots(t), NEW n \in Slots(t), k # n, Tracked(t, k),
         NEW r \in Stacks, stat' = [stat EXCEPT ![r][At(t, n)] = "tx"],
         UNCHANGED <<line, txbuf, rxbuf, held, pend>>,
         \A s \in Stacks : \A m \in Idx : m # At(t, n) => SameFrames(s, m),
         \/ pc[t] \in {"out", "dummy"} /\ n = Len(held[t]) /\ got' = got /\ resent' = resent
         \/ pc[t] = "resend" /\ n = 1,
         pc'[t] \notin {"store", "result", "resend"}
  PROVE  Tracked(t, k)'
<1>1. UNCHANGED <<redstate, cut, txbuf, rxbuf, held, pend>>
  BY DEF line
<1>2. At(t, k) # At(t, n) /\ At(t, k) \in Idx /\ At(t, n) \in Idx
  BY EntryType DEF Port, Separate, At
<1>3. Again(t, k)' <=> Again(t, k)
  BY DEF Again
<1>4. \A s \in Stacks :
        /\ Len(sock'[s]) \in Nat /\ SameFrames(s, At(t, k))
        /\ stat'[s][At(t, k)] = stat[s][At(t, k)]
  <2>1. \A s \in Stacks : sock'[s] \in Seq(Frames)
    BY DEF Port, Types
  <2>2. \A s \in Stacks : stat'[s][At(t, k)] = stat[s][At(t, k)]
    BY <1>2 DEF Port, Types
  <2> QED BY <1>2, <2>1, <2>2
<1>5. \A s \in Stacks : ~InHand(t, s, At(t, k)) /\ ~InHand(t, s, At(t, k))'
  BY DEF InHand
<1>6. Ready(t, k)' => Ready(t, k)
  BY DEF Ready
<1>7. \A s \in Stacks : (k = 1 /\ s \in got'[t]) <=> (k = 1 /\ s \in got[t])
  OBVIOUS
<1> QED BY <1>1, <1>3, <1>4, <1>5, <1>6, <1>7, TrackedStays

LEMMA OutFrameRing ==
  ASSUME Port, Port', Ring, Double, NEW t \in Threads, OutFrame(t), clean'
  PROVE  Ring'
<1>1. pc[t] = "out" /\ held[t] \in Seq(Entries) /\ Len(held[t]) > 0 /\ got[t] = {}
  BY DEF OutFrame, Port, Shapes, Shape, Types
<1> PICK n \in Slots(t) : n = Len(held[t])
  BY <1>1 DEF Slots
<1> DEFINE i == At(t, n)
           dg == txbuf[i]
<1>2. /\ stat' = [stat EXCEPT ![0][i] = "tx"] /\ Transmit(i, dg, 0, "pri")
      /\ pc' = [pc EXCEPT ![t] = "dummy"]
      /\ UNCHANGED <<line, lastidx, txbuf, rxbuf, held, stack, resent, got, pend>>
  BY <1>1 DEF OutFrame, To, Cur, Entry, At
<1>3. Course(t) /\ \A u \in Threads \ {t} : pc[u] = "idle" /\ ~resent[u]
  BY <1>1, OnTurn DEF Port
<1>4. UNCHANGED <<redstate, cut, txbuf, rxbuf, held, resent, got, pend>> /\ At(t, n)' = At(t, n)
  BY <1>2 DEF line, At
<1>5. pc'[t] = "dummy" /\ \A u \in Threads \ {t} : pc'[u] = pc[u]
  BY <1>2 DEF Port, Types
<1>a. i \in Idx /\ dg \in Datagrams /\ GoodTx(t, n) /\ ~resent[t]
  BY <1>1, <1>3, EntryType DEF Course, Port, Types, GoodSlots, GoodSlot, At
<1>b. missed \subseteq missed' /\ \A s \in Stacks : \A m \in Idx : m # i => SameFrames(s, m)
  BY <1>2, <1>a, Leaves DEF Port, Stacks
<1>6. ASSUME Sound(t, n)
      PROVE  /\ i \in Idx /\ dg \in Datagrams /\ GoodTx(t, n) /\ ~resent[t] /\ dg.path = << >>
             /\ \A s \in Stacks : ~InSock(s, i) /\ stat[s][i] = "alloc"
             /\ \A s \in Stacks : Flying(t, n, s)
  BY <1>1, <1>3, <1>6, <1>a DEF Course, Leaving, Tracked, Begun
<1>7. stat'[0][i] = "tx" /\ (Sound(t, n) => stat'[1][i] = "alloc")
  BY <1>2, <1>6, <1>a DEF Port, Types, Stacks
<1> HIDE DEF i, dg
<1>c. i \notin missed' => Sound(t, n)
  BY <1>b DEF Sound, i
<1>8. ASSUME i \notin missed'
      PROVE
      /\ \A s \in Stacks : Flying(t, n, s)'
      /\ InSock(0, At(t, n))' <=> cut > 0
      /\ InSock(1, At(t, n))' <=> cut = -1
  <2>0. /\ dg.path = << >> /\ (\A s \in Stacks : ~InSock(s, i) /\ Flying(t, n, s))
        /\ i \in Idx /\ dg \in Datagrams /\ GoodTx(t, n)
    BY <1>6, <1>8, <1>a, <1>c
  <2>1. cut \in -1 .. Slaves /\ Slaves \in Nat \ {0}
    BY Bounds DEF Port, Types
  <2>2. \A s \in Stacks : Flying(t, n, s) /\ Len(sock'[s]) \in Nat
    BY <2>0 DEF Port, Types
  <2>3. ASSUME NEW s \in Stacks, SameFrames(s, i)
        PROVE  Flying(t, n, s)' /\ ~InSock(s, At(t, n))'
    <3>1. Again(t, n)' <=> Again(t, n)
      BY <1>4 DEF Again
    <3> QED BY <1>4, <2>0, <2>2, <2>3, <3>1, FlyingStays DEF i
  <2>4. CASE cut = -1
    <3>1. Arrives(i, dg, "pri", 1, Line)
      <4>1. Route(0) = {[to |-> 1, by |-> Line]} /\ Line \in Seq(Nat) /\ 0 \in Stacks /\ 1 \in Stacks
        BY <2>4, Sides, LineSeq DEF Port, Stacks
      <4>2. Types /\ Transmit(i, dg, 0, "pri")
        BY <1>2 DEF Port, i, dg
      <4> QED BY ONLY <1>8, <2>0, <4>1, <4>2, Leaves, Double
    <3>2. Flying(t, n, 1)' /\ InSock(1, At(t, n))'
      <4> PICK f \in Frames :
            /\ f.fresh /\ f.src = "pri"
            /\ f.dg.own = dg.own /\ f.dg.seg = dg.seg /\ f.dg.path = Passed(dg, Line)
            /\ Kind(t, n, 1, f)' => Flying(t, n, 1)' /\ InSock(1, At(t, n))'
        <5>1. Types /\ 1 \in Stacks /\ At(t, n)' = i /\ ~InSock(1, i) /\ i \in Idx
          BY <1>4, <2>0 DEF Port, Stacks, i
        <5> QED BY ONLY <5>1, <3>1, FliesNow
      <4>1. Kind(t, n, 1, f)'
        BY <1>4, <2>0, <2>4, Joins, LineSeq DEF Kind, Good, GoodTx, Whole, Passed, i, dg
      <4> QED BY <4>1
    <3>3. \A s \in Stacks : \A m \in Idx : (s # 1 \/ m # i) => SameFrames(s, m)
      BY <2>0, <3>1, Landed DEF Port, Stacks
    <3> QED BY <2>0, <2>3, <2>4, <3>2, <3>3 DEF Stacks
  <2>5. CASE cut > 0
    <3>1. SubSeq(Line, 1, cut) \in Seq(Nat)
      BY <2>1, <2>5, LineParts
    <3>2. Arrives(i, dg, "pri", 0, SubSeq(Line, 1, cut))
      <4>1. Route(0) = {[to |-> 0, by |-> SubSeq(Line, 1, cut)]} /\ 0 \in Stacks
        BY <2>5, Sides DEF Port, Stacks
      <4>2. Types /\ Transmit(i, dg, 0, "pri")
        BY <1>2 DEF Port, i, dg
      <4> QED BY ONLY <1>8, <2>0, <3>1, <4>1, <4>2, Leaves, Double
    <3>3. Flying(t, n, 0)' /\ InSock(0, At(t, n))'
      <4> PICK f \in Frames :
            /\ f.fresh /\ f.src = "pri"
            /\ f.dg.own = dg.own /\ f.dg.seg = dg.seg /\ f.dg.path = Passed(dg, SubSeq(Line, 1, cut))
            /\ Kind(t, n, 0, f)' => Flying(t, n, 0)' /\ InSock(0, At(t, n))'
        <5>1. Types /\ 0 \in Stacks /\ At(t, n)' = i /\ ~InSock(0, i) /\ i \in Idx
          BY <1>4, <2>0 DEF Port, Stacks, i
        <5> QED BY ONLY <5>1, <3>2, FliesNow
      <4>1. Kind(t, n, 0, f)'
        BY <1>4, <2>0, <2>5, <3>1, Joins DEF Kind, Good, GoodTx, Passed, i, dg
      <4> QED BY <4>1
    <3>4. \A s \in Stacks : \A m \in Idx : (s # 0 \/ m # i) => SameFrames(s, m)
      BY <2>0, <3>2, Landed DEF Port, Stacks
    <3> QED BY <2>0, <2>1, <2>3, <2>5, <3>3, <3>4 DEF Stacks
  <2>6. CASE cut = 0
    <3>1. sock' = sock
      <4>1. Route(0) = {} /\ Types /\ Transmit(i, dg, 0, "pri") /\ 0 \in Stacks
        BY <1>2, <2>6, Sides DEF Port, i, dg, Stacks
      <4> QED BY ONLY <2>0, <4>1, Leaves, Double
    <3>2. \A s \in Stacks : \A m \in Idx : SameFrames(s, m)
      BY <3>1, SameSock DEF Port
    <3> QED BY <2>0, <2>3, <2>6, <3>2 DEF Stacks
  <2> QED BY <2>1, <2>4, <2>5, <2>6
<1>9. ASSUME NEW k \in Slots(t), Sound(t, k)' PROVE Tracked(t, k)'
  <2>1. CASE k # n
    <3>1. Tracked(t, k)
      <4>1. At(t, k)' = At(t, k)
        BY <1>4 DEF At
      <4> QED BY <1>3, <1>9, <1>b, <4>1 DEF Course, Sound
    <3> QED BY <1>1, <1>2, <1>5, <1>b, <2>1, <3>1, SendingTracked DEF Stacks, i
  <2>2. CASE k = n
    <3>0. i \notin missed' /\ dg.path = << >>
      BY <1>4, <1>6, <1>9, <1>c, <2>2 DEF Sound, i
    <3>1. Begun(t, n)'
      BY <1>4, <1>5, <1>a, <3>0 DEF Begun, i, dg
    <3>2. ASSUME NEW s \in Stacks PROVE Fate(t, n, s)'
      <4>1. ~Ready(t, n)' /\ ~InHand(t, s, At(t, n))'
        BY <1>4, <1>5 DEF Ready, InHand
      <4>2. stat'[s][At(t, n)'] \in {"tx", "alloc"} /\ s \notin got'[t]
        BY <1>1, <1>4, <1>7, <1>c, <3>0 DEF Stacks, i
      <4> QED BY <4>1, <4>2 DEF Fate
    <3> QED BY <1>8, <2>2, <3>0, <3>1, <3>2 DEF Tracked
  <2> QED BY <2>1, <2>2
<1>10. i \notin missed' => Leaving(t)'
  <2>1. At(t, Len(held[t]))' = i /\ At(t, n)' = i
    BY <1>4 DEF At, i
  <2> QED BY <1>4, <1>5, <1>7, <1>8, <1>c, <2>1 DEF Leaving
<1>11. Course(t)'
  <2>1. held' = held /\ resent' = resent /\ At(t, Len(held[t]))' = i
    BY <1>4 DEF At, i
  <2>2. Slots(t)' = Slots(t) /\ (Sound(t, Len(held[t]))' => i \notin missed')
    BY <2>1 DEF Slots, Sound
  <2>3. Decided(t)' /\ ~resent'[t]
    BY <1>5, <1>a, <2>1 DEF Decided
  <2> QED BY <1>9, <1>10, <2>2, <2>3 DEF Course
<1> QED BY <1>3, <1>4, <1>5, <1>11, RingKeeps

LEMMA OutDummyRing ==
  ASSUME Port, Port', Ring, Double, NEW t \in Threads, OutDummy(t), clean'
  PROVE  Ring'
<1>1. pc[t] = "dummy" /\ held[t] \in Seq(Entries) /\ Len(held[t]) > 0 /\ got[t] = {}
  BY DEF OutDummy, Port, Shapes, Shape, Types
<1> PICK n \in Slots(t) : n = Len(held[t])
  BY <1>1 DEF Slots
<1> DEFINE i == At(t, n)
<1>2. /\ stat' = [stat EXCEPT ![1][i] = "tx"] /\ Transmit(i, Dummy, 1, "sec")
      /\ pc' = [pc EXCEPT ![t] = Sent(t)]
      /\ UNCHANGED <<line, lastidx, txbuf, rxbuf, held, stack, resent, got, pend>>
  BY <1>1 DEF OutDummy, To, Cur, Entry, At
<1>3. Course(t) /\ \A u \in Threads \ {t} : pc[u] = "idle" /\ ~resent[u]
  BY <1>1, OnTurn DEF Port
<1>4. UNCHANGED <<redstate, cut, txbuf, rxbuf, held, resent, got, pend>> /\ At(t, n)' = At(t, n)
  BY <1>2 DEF line, At
<1>5. pc'[t] \in {"claim", "look"} /\ \A u \in Threads \ {t} : pc'[u] = pc[u]
  BY <1>2, SentPlace DEF Port, Types
<1>a. i \in Idx /\ Dummy \in Datagrams /\ ~resent[t]
  <2>1. Dummy \in Datagrams
    BY DEF Dummy, Datagrams, Commands
  <2> QED BY <1>1, <1>3, <2>1, EntryType DEF Course, Port, At
<1>b. missed \subseteq missed' /\ \A s \in Stacks : \A m \in Idx : m # i => SameFrames(s, m)
  BY <1>2, <1>a, Leaves DEF Port, Stacks
<1>6. ASSUME Sound(t, n)
      PROVE  /\ txbuf[i].path = << >> /\ stat[0][i] = "tx"
             /\ InSock(0, i) <=> cut > 0
             /\ InSock(1, i) <=> cut = -1
             /\ \A s \in Stacks : Flying(t, n, s)
  BY <1>1, <1>3, <1>6, <1>a DEF Course, Leaving, Tracked, Begun
<1>7. stat'[1][i] = "tx" /\ (Sound(t, n) => stat'[0][i] = "tx")
  BY <1>2, <1>6, <1>a DEF Port, Types, Stacks
<1> HIDE DEF i
<1>c. i \notin missed' => Sound(t, n)
  BY <1>b DEF Sound, i
<1>8. ASSUME i \notin missed'
      PROVE  \A s \in Stacks : Flying(t, n, s)' /\ (Awaited(s) => InSock(s, At(t, n))')
  <2>0. /\ i \in Idx /\ Dummy \in Datagrams
        /\ InSock(0, i) <=> cut > 0
        /\ InSock(1, i) <=> cut = -1
    BY <1>6, <1>8, <1>a, <1>c
  <2>1. cut \in -1 .. Slaves /\ Slaves \in Nat \ {0}
    BY Bounds DEF Port, Types
  <2>2. \A s \in Stacks : Flying(t, n, s) /\ Len(sock'[s]) \in Nat
    BY <1>6, <1>8, <1>c DEF Port, Types
  <2>3. Again(t, n)' <=> Again(t, n)
    BY <1>4 DEF Again
  <2>4. ASSUME NEW s \in Stacks, SameFrames(s, i)
        PROVE  Flying(t, n, s)' /\ (InSock(s, At(t, n))' <=> InSock(s, i))
    BY <1>4, <2>0, <2>2, <2>3, <2>4, FlyingStays DEF i
  <2>5. CASE cut = -1
    <3>1. Arrives(i, Dummy, "sec", 0, << >>)
      <4>1. << >> \in Seq(Nat) /\ Route(1) = {[to |-> 0, by |-> << >>]} /\ 0 \in Stacks /\ 1 \in Stacks
        BY <2>5, Sides DEF Port, Stacks
      <4>2. Types /\ Transmit(i, Dummy, 1, "sec")
        BY <1>2 DEF Port, i
      <4> QED BY ONLY <1>8, <2>0, <4>1, <4>2, Leaves, Double
    <3>2. Flying(t, n, 0)' /\ InSock(0, At(t, n))'
      <4> PICK f \in Frames :
            /\ f.fresh /\ f.src = "sec"
            /\ f.dg.own = Dummy.own /\ f.dg.seg = Dummy.seg /\ f.dg.path = Passed(Dummy, << >>)
            /\ Kind(t, n, 0, f)' => Flying(t, n, 0)' /\ InSock(0, At(t, n))'
        <5>1. Types /\ 0 \in Stacks /\ At(t, n)' = i /\ ~InSock(0, i) /\ i \in Idx
          BY <1>4, <2>0, <2>5 DEF Port, Stacks, i
        <5> QED BY ONLY <3>1, <5>1, FliesNow
      <4>1. Kind(t, n, 0, f)'
        BY <1>4, <2>5 DEF Kind, Good, Double
      <4> QED BY <4>1
    <3>3. \A s \in Stacks : \A m \in Idx : (s # 0 \/ m # i) => SameFrames(s, m)
      BY <2>0, <3>1, Landed DEF Port, Stacks
    <3>4. Flying(t, n, 1)' /\ InSock(1, At(t, n))'
      BY <2>0, <2>4, <2>5, <3>3 DEF Stacks
    <3> QED BY <3>2, <3>3, <3>4 DEF Stacks
  <2>6. CASE cut \in 0 .. Slaves - 1
    <3>1. SubSeq(Line, cut + 1, Slaves) \in Seq(Nat)
      BY <2>1, <2>6, LineParts
    <3>2. Arrives(i, Dummy, "sec", 1, SubSeq(Line, cut + 1, Slaves))
      <4>1. Route(1) = {[to |-> 1, by |-> SubSeq(Line, cut + 1, Slaves)]} /\ 1 \in Stacks
        BY <2>6, Sides DEF Port, Stacks
      <4>2. Types /\ Transmit(i, Dummy, 1, "sec")
        BY <1>2 DEF Port, i
      <4> QED BY ONLY <1>8, <2>0, <3>1, <4>1, <4>2, Leaves, Double
    <3>3. Flying(t, n, 1)' /\ InSock(1, At(t, n))'
      <4> PICK f \in Frames :
            /\ f.fresh /\ f.src = "sec"
            /\ f.dg.own = Dummy.own /\ f.dg.seg = Dummy.seg
            /\ f.dg.path = Passed(Dummy, SubSeq(Line, cut + 1, Slaves))
            /\ Kind(t, n, 1, f)' => Flying(t, n, 1)' /\ InSock(1, At(t, n))'
        <5>1. Types /\ 1 \in Stacks /\ At(t, n)' = i /\ ~InSock(1, i) /\ i \in Idx
          BY <1>4, <2>0, <2>6 DEF Port, Stacks, i
        <5> QED BY ONLY <3>2, <5>1, FliesNow
      <4>1. Kind(t, n, 1, f)'
        BY <1>4, <1>a, <2>6 DEF Kind, Good, Double, Again
      <4> QED BY <4>1
    <3>4. \A s \in Stacks : \A m \in Idx : (s # 1 \/ m # i) => SameFrames(s, m)
      BY <2>0, <3>2, Landed DEF Port, Stacks
    <3>5. Flying(t, n, 0)' /\ (Awaited(0) => InSock(0, At(t, n))')
      BY <2>0, <2>1, <2>4, <2>6, <3>4 DEF Stacks, Awaited
    <3> QED BY <3>3, <3>4, <3>5 DEF Stacks
  <2>7. CASE cut = Slaves
    <3>1. sock' = sock
      <4>1. Route(1) = {} /\ Types /\ Transmit(i, Dummy, 1, "sec") /\ 1 \in Stacks
        BY <1>2, <2>7, Sides DEF Port, i, Stacks
      <4> QED BY ONLY <2>0, <4>1, Leaves, Double
    <3>2. \A s \in Stacks : \A m \in Idx : SameFrames(s, m)
      BY <3>1, SameSock DEF Port
    <3>3. \A s \in Stacks : Awaited(s) => InSock(s, i)
      BY <2>0, <2>1, <2>7 DEF Awaited, Stacks
    <3> QED BY <2>0, <2>4, <3>2, <3>3
  <2> QED BY <2>1, <2>5, <2>6, <2>7
<1>9. ASSUME NEW k \in Slots(t), Sound(t, k)' PROVE Tracked(t, k)'
  <2>1. CASE k # n
    <3>1. Tracked(t, k)
      <4>1. At(t, k)' = At(t, k)
        BY <1>4 DEF At
      <4> QED BY <1>3, <1>9, <1>b, <4>1 DEF Course, Sound
    <3> QED BY <1>1, <1>2, <1>5, <1>b, <2>1, <3>1, SendingTracked DEF Stacks, i
  <2>2. CASE k = n
    <3>0. i \notin missed' /\ txbuf[i].path = << >>
      BY <1>4, <1>6, <1>9, <1>c, <2>2 DEF Sound, i
    <3>1. Begun(t, n)'
      BY <1>4, <1>5, <1>a, <3>0 DEF Begun, i
    <3>2. ASSUME NEW s \in Stacks PROVE Fate(t, n, s)'
      <4>1. ~InHand(t, s, At(t, n))' /\ (Awaited(s)' <=> Awaited(s))
        BY <1>4, <1>5 DEF InHand, Awaited
      <4>2. stat'[s][At(t, n)'] = "tx" /\ s \notin got'[t]
        BY <1>1, <1>4, <1>7, <1>c, <3>0 DEF Stacks, i
      <4> QED BY <1>8, <3>0, <4>1, <4>2 DEF Fate
    <3> QED BY <1>8, <2>2, <3>0, <3>1, <3>2 DEF Tracked
  <2> QED BY <2>1, <2>2
<1>10. Course(t)'
  BY <1>4, <1>5, <1>9, <1>a DEF Course, Slots, Leaving, Decided
<1> QED BY <1>3, <1>4, <1>5, <1>10, RingKeeps

LEMMA ResendRing ==
  ASSUME Port, Port', Ring, Double, NEW t \in Threads, Resend(t)
  PROVE  Ring'
<1>1. pc[t] = "resend"
  BY DEF Resend
<1>2. 1 \in Slots(t) /\ Cur(t) = At(t, 1) /\ Cur(t) \in Idx
  BY <1>1, Waits
<1> DEFINE i == At(t, 1)
           dg == txbuf[i]
<1>3. /\ stat' = [stat EXCEPT ![1][i] = "tx"] /\ Transmit(i, dg, 1, "pri")
      /\ pc' = [pc EXCEPT ![t] = "look"] /\ resent' = [resent EXCEPT ![t] = TRUE]
      /\ got' = [got EXCEPT ![t] = @ \ {1}]
      /\ UNCHANGED <<line, lastidx, txbuf, rxbuf, held, pend>>
  BY <1>2 DEF Resend, To
<1>4. Course(t) /\ \A u \in Threads \ {t} : pc[u] = "idle" /\ ~resent[u]
  BY <1>1, OnTurn DEF Port
<1>5. UNCHANGED <<redstate, cut, txbuf, rxbuf, held, pend>> /\ At(t, 1)' = i
  BY <1>3 DEF line, At
<1>6. /\ pc'[t] = "look" /\ resent'[t] /\ got'[t] = got[t] \ {1}
      /\ \A u \in Threads \ {t} : pc'[u] = pc[u] /\ resent'[u] = resent[u]
  BY <1>3 DEF Port, Types
<1>a. i \in Idx /\ dg \in Datagrams /\ GoodTx(t, 1) /\ Transmit(i, dg, 1, "pri") /\ Types
  BY <1>2, <1>3 DEF Port, Types, GoodSlots, GoodSlot
<1>b. missed \subseteq missed' /\ \A s \in Stacks : \A m \in Idx : m # i => SameFrames(s, m)
  BY <1>a, Leaves DEF Stacks
<1>7. ASSUME Sound(t, 1)
      PROVE  cut \in 0 .. Slaves - 1 /\ 1 \in got[t] /\ dg.path = SubSeq(Line, 1, cut) /\ Tracked(t, 1)
  BY <1>1, <1>2, <1>4, <1>7 DEF Course, Decided, Tracked, Begun
<1>9. stat'[1][i] = "tx" /\ stat'[0][i] = stat[0][i]
  BY <1>3, <1>a DEF Port, Types, Stacks
<1> HIDE DEF i, dg
<1>c. i \notin missed' => Sound(t, 1)
  BY <1>b DEF Sound, i
<1>8. i \notin missed' => ~InSock(1, i)
  <2> HAVE i \notin missed'
  <2>1. 1 \in got[t] /\ Fate(t, 1, 1)
    BY <1>7, <1>c DEF Tracked, Stacks
  <2> QED BY <1>1, <2>1 DEF Fate, i
<1>10. i \notin missed' =>
         cut \in 0 .. Slaves - 1 /\ Slaves \in Nat \ {0} /\ SubSeq(Line, cut + 1, Slaves) \in Seq(Nat)
  BY <1>7, <1>c, Bounds, LineParts
<1>11. i \notin missed' => Arrives(i, dg, "pri", 1, SubSeq(Line, cut + 1, Slaves))
  <2> HAVE i \notin missed'
  <2>1. Route(1) = {[to |-> 1, by |-> SubSeq(Line, cut + 1, Slaves)]} /\ 1 \in Stacks
    BY <1>10, <1>a, Sides DEF Stacks
  <2> QED BY ONLY i \notin missed', <1>10, <1>a, <2>1, Leaves, Double
<1>12. i \notin missed' => \A s \in Stacks : \A m \in Idx : (s # 1 \/ m # i) => SameFrames(s, m)
  BY <1>11, <1>a, Landed DEF Stacks
<1>13. ASSUME i \notin missed' PROVE Flying(t, 1, 1)' /\ InSock(1, At(t, 1))'
  <2>0. /\ Arrives(i, dg, "pri", 1, SubSeq(Line, cut + 1, Slaves))
        /\ cut \in 0 .. Slaves - 1 /\ dg.path = SubSeq(Line, 1, cut)
    BY <1>7, <1>11, <1>13, <1>c
  <2> PICK f \in Frames :
        /\ f.fresh /\ f.src = "pri"
        /\ f.dg.own = dg.own /\ f.dg.seg = dg.seg /\ f.dg.path = Passed(dg, SubSeq(Line, cut + 1, Slaves))
        /\ Kind(t, 1, 1, f)' => Flying(t, 1, 1)' /\ InSock(1, At(t, 1))'
    <3>1. Types /\ 1 \in Stacks /\ At(t, 1)' = i /\ ~InSock(1, i) /\ i \in Idx
      BY <1>5, <1>8, <1>13, <1>a DEF Port, Stacks
    <3> QED BY ONLY <2>0, <3>1, FliesNow
  <2>1. f.dg.path = Line
    <3>1. cut \in 0 .. Slaves
      BY <1>10, <1>13
    <3> QED BY <2>0, <3>1, Joins DEF Passed
  <2>2. Kind(t, 1, 1, f)'
    BY <1>5, <1>6, <1>a, <2>0, <2>1 DEF Kind, Good, GoodTx, Whole, Again, i, dg
  <2> QED BY <2>2
<1>14. ASSUME i \notin missed' PROVE Flying(t, 1, 0)' /\ (InSock(0, At(t, 1))' <=> InSock(0, i))
  <2>1. Flying(t, 1, 0) /\ Len(sock'[0]) \in Nat /\ SameFrames(0, i)
    BY <1>7, <1>12, <1>14, <1>a, <1>c DEF Tracked, Stacks, Port, Types
  <2> QED BY <1>5, <2>1, FlyingStays DEF i
<1>15. ASSUME NEW k \in Slots(t), Sound(t, k)' PROVE Tracked(t, k)'
  <2>1. CASE k # 1
    <3>1. Tracked(t, k)
      <4>1. At(t, k)' = At(t, k)
        BY <1>5 DEF At
      <4> QED BY <1>4, <1>15, <1>b, <4>1 DEF Course, Sound
    <3> QED BY <1>1, <1>2, <1>3, <1>6, <1>b, <2>1, <3>1, SendingTracked DEF Stacks, i
  <2>2. CASE k = 1
    <3>0. i \notin missed' /\ dg.path = SubSeq(Line, 1, cut) /\ Tracked(t, 1)
      BY <1>5, <1>7, <1>15, <1>c, <2>2 DEF Sound
    <3>1. Begun(t, 1)'
      BY <1>5, <1>6, <3>0 DEF Begun, dg
    <3>2. \A s \in Stacks : ~InHand(t, s, At(t, 1))' /\ (Awaited(s)' <=> Awaited(s))
      BY <1>5, <1>6 DEF InHand, Awaited
    <3>3. Fate(t, 1, 1)'
      BY <1>5, <1>6, <1>9, <1>13, <3>0, <3>2 DEF Fate, Stacks
    <3>4. Fate(t, 1, 0)'
      <4>1. Fate(t, 1, 0)
        BY <3>0 DEF Tracked, Stacks
      <4>2. \A f : Kind(t, 1, 0, f)' <=> Kind(t, 1, 0, f)
        BY <1>5 DEF Kind, Good, Double, Whole
      <4>3. Ready(t, 1)' /\ Ready(t, 1) /\ ~InHand(t, 0, i)
        BY <1>1, <1>6 DEF Ready, InHand
      <4> QED BY <1>1, <1>5, <1>6, <1>9, <1>14, <3>0, <3>2, <4>1, <4>2, <4>3 DEF Fate, Stacks, i
    <3> QED BY <1>13, <1>14, <2>2, <3>0, <3>1, <3>3, <3>4 DEF Tracked, Stacks
  <2> QED BY <2>1, <2>2
<1>16. Course(t)'
  <2>1. Sound(t, 1)' => cut \in 0 .. Slaves - 1
    BY <1>5, <1>10 DEF Sound
  <2> QED BY <1>5, <1>6, <1>15, <2>1 DEF Course, Slots, Leaving, Decided
<1> QED BY <1>4, <1>6, <1>16, RingKeeps

LEMMA ClaimRing ==
  ASSUME Port, Port', Ring, Double, NEW t \in Threads, Claim(t), clean'
  PROVE  Ring'
<1> PICK i \in Free : i = Found
  BY DEF Claim
<1> DEFINE m == Len(held[t]) + 1
           e == [i |-> i, seg |-> m]
           dg == [own |-> t, seg |-> m, cmd |-> Cmds(t)[m], path |-> << >>]
<1>1. /\ UNCHANGED <<line, rxbuf, stack, resent, got, pend, missed>> /\ pc[t] = "claim" /\ ComeRound(i)
      /\ stat' = [s \in Stacks |-> IF s = 0 \/ redstate = "double"
                                   THEN [stat[s] EXCEPT ![i] = "alloc"] ELSE stat[s]]
      /\ txbuf' = [txbuf EXCEPT ![i] = dg] /\ held' = [held EXCEPT ![t] = Append(held[t], e)]
      /\ pc' = [pc EXCEPT ![t] = "out"]
  BY DEF Claim, To
<1>2. Course(t) /\ \A u \in Threads \ {t} : pc[u] = "idle" /\ ~resent[u]
  BY <1>1, OnTurn DEF Port
<1>3. i \in Idx /\ stat[0][i] = "empty" /\ got[t] = {} /\ ~resent[t] /\ held[t] \in Seq(Entries)
  BY <1>1, <1>2 DEF Free, Port, Shapes, Shape, Types, Course
<1>4. \A k \in Slots(t) : At(t, k) # i /\ At(t, k) \in Idx
  BY <1>3, EntryType DEF Port, Kept, At
<1> PICK n \in Nat : n = Len(held[t]) + 1
  BY <1>3
<1>5. /\ Len(held'[t]) = n /\ held'[t][n].i = i
      /\ \A k \in Slots(t) : held'[t][k] = held[t][k] /\ k # n
      /\ Slots(t)' = Slots(t) \cup {n}
  <2>1. held'[t] = Append(held[t], e)
    BY <1>1 DEF Port, Types
  <2>2. Len(held'[t]) = n /\ held'[t][n] = e /\ \A k \in 1 .. Len(held[t]) : held'[t][k] = held[t][k]
    BY <1>3, <2>1
  <2>3. \A k \in Slots(t) : held'[t][k] = held[t][k] /\ k # n
    BY <1>3, <2>2 DEF Slots
  <2>4. Slots(t)' = Slots(t) \cup {n}
    BY <1>3, <2>2 DEF Slots
  <2> QED BY <2>2, <2>3, <2>4
<1>6. UNCHANGED <<redstate, cut, rxbuf, resent, got, missed>> /\ pc'[t] = "out" /\ \A u \in Threads \ {t} : pc'[u] = pc[u]
  BY <1>1 DEF line, Port, Types
<1>7. /\ \A s \in Stacks : \A j \in Idx : j # i => stat'[s][j] = stat[s][j]
      /\ \A s \in Stacks : stat'[s][i] = "alloc"
      /\ \A j \in Idx : j # i => txbuf'[j] = txbuf[j]
      /\ txbuf'[i].path = << >>
  BY <1>1, <1>3 DEF Port, Types, Stacks, Double
<1>8. \A s \in Stacks :
        /\ Len(sock[s]) \in Nat /\ Len(sock'[s]) = Len(sock[s])
        /\ \A j \in 1 .. Len(sock[s]) : sock'[s][j] = Outdated(i, sock[s][j])
  BY <1>1, ClaimSock DEF Port
<1>9. ASSUME NEW s \in Stacks, NEW x \in Idx, x # i PROVE SameFrames(s, x)
  <2>1. \A j \in 1 .. Len(sock'[s]) : sock'[s][j].idx = x =>
          j + 0 \in 1 .. Len(sock[s]) /\ sock'[s][j] = sock[s][j + 0]
    BY <1>8, <1>9, ForeignType DEF Outdated
  <2>2. InSock(s, x) => \E j \in 1 .. Len(sock'[s]) : sock'[s][j].idx = x
    BY <1>8, <1>9 DEF InSock, Outdated
  <2> QED BY <2>1, <2>2 DEF SameFrames
<1>10. ASSUME NEW s \in Stacks PROVE \A j \in 1 .. Len(sock'[s]) : sock'[s][j].idx # i
  BY <1>3, <1>8, ForeignType DEF Outdated
<1>11. ASSUME NEW k \in Slots(t), Sound(t, k)' PROVE Tracked(t, k)'
  <2>1. Again(t, k)' <=> Again(t, k)
    BY <1>6 DEF Again
  <2>2. Ready(t, k) /\ \A s \in Stacks : ~InHand(t, s, At(t, k)) /\ ~InHand(t, s, At(t, k))'
    BY <1>1, <1>6 DEF Ready, InHand
  <2>3. Tracked(t, k)
    BY <1>2, <1>5, <1>6, <1>11 DEF Course, Sound, At
  <2>4. \A s \in Stacks :
          /\ Len(sock'[s]) \in Nat /\ SameFrames(s, At(t, k))
          /\ stat'[s][At(t, k)] = stat[s][At(t, k)] /\ rxbuf'[s][At(t, k)] = rxbuf[s][At(t, k)]
    BY <1>4, <1>6, <1>7, <1>8, <1>9
  <2>5. held'[t][k] = held[t][k] /\ txbuf'[At(t, k)] = txbuf[At(t, k)]
    BY <1>4, <1>5, <1>7
  <2>6. cut' = cut /\ redstate' = redstate /\ got' = got /\ pc[t] = "claim" /\ pc'[t] = "out"
    BY <1>1, <1>6
  <2> QED BY ONLY <2>1, <2>2, <2>3, <2>4, <2>5, <2>6, TrackedStays
<1>12. At(t, n)' = i /\ \A s \in Stacks : ~InSock(s, At(t, n))'
  BY <1>5, <1>10 DEF At, InSock
<1>13. Tracked(t, n)'
  <2>1. Begun(t, n)'
    BY <1>3, <1>6, <1>7, <1>12 DEF Begun
  <2>2. ASSUME NEW s \in Stacks PROVE Flying(t, n, s)' /\ Fate(t, n, s)'
    <3>1. Flying(t, n, s)'
      BY <1>10, <1>12 DEF Flying
    <3>2. ~Ready(t, n)' /\ ~InHand(t, s, At(t, n))'
      BY <1>5, <1>6 DEF Ready, InHand
    <3>3. Fate(t, n, s)'
      BY <1>3, <1>6, <1>7, <1>12, <3>2 DEF Fate
    <3> QED BY <3>1, <3>3
  <2> QED BY <2>1, <2>2 DEF Tracked
<1>14. Leaving(t)'
  <2>1. At(t, Len(held[t]))' = i
    BY <1>5 DEF At
  <2>2. \A s \in Stacks : ~InSock(s, At(t, Len(held[t])))'
    BY <1>10, <2>1 DEF InSock
  <2> QED BY <1>6, <1>7, <2>1, <2>2 DEF Leaving
<1>15. Course(t)'
  BY <1>3, <1>5, <1>6, <1>11, <1>13, <1>14 DEF Course, Decided
<1> QED BY <1>2, <1>6, <1>15, RingKeeps

LEMMA ReleaseRing ==
  ASSUME Port, Port', Ring, Double, NEW t \in Threads, Release(t), pc[t] = "result", UNCHANGED line
  PROVE  Ring'
<1>1. 1 \in Slots(t) /\ Cur(t) = At(t, 1) /\ Cur(t) \in Idx
  BY Waits
<1> DEFINE i == At(t, 1)
<1>2. /\ stat' = [s \in Stacks |-> IF s = 0 \/ redstate = "double"
                                   THEN [stat[s] EXCEPT ![i] = "empty"] ELSE stat[s]]
      /\ rxbuf' = [s \in Stacks |-> [rxbuf[s] EXCEPT ![i] = NoFrame]]
      /\ held' = [held EXCEPT ![t] = Tail(held[t])]
      /\ resent' = [resent EXCEPT ![t] = FALSE]
      /\ got' = [got EXCEPT ![t] = {}]
      /\ pc' = [pc EXCEPT ![t] = IF Len(held[t]) > 1 THEN "look" ELSE "idle"]
      /\ txbuf' = [txbuf EXCEPT ![i] = Dummy] /\ missed' = missed \ {i}
  BY <1>1 DEF Release, To
<1>3. Course(t) /\ \A u \in Threads \ {t} : pc[u] = "idle" /\ ~resent[u]
  BY OnTurn DEF Port
<1>4. /\ redstate' = redstate /\ cut' = cut /\ pc'[t] \in {"look", "idle"} /\ ~resent'[t] /\ got'[t] = {}
      /\ \A u \in Threads \ {t} : pc'[u] = pc[u] /\ resent'[u] = resent[u]
  BY <1>2 DEF line, Port, Types
<1>5. \A s \in Stacks :
        /\ Len(sock[s]) \in Nat /\ Len(sock'[s]) = Len(sock[s])
        /\ \A j \in 1 .. Len(sock[s]) :
             /\ sock'[s][j].idx = sock[s][j].idx
             /\ sock[s][j].idx # i => sock'[s][j] = sock[s][j]
  BY <1>1, ReleaseSock DEF Port
<1> HIDE DEF i
<1>6. /\ \A s \in Stacks : \A j \in Idx : j # i => stat'[s][j] = stat[s][j] /\ rxbuf'[s][j] = rxbuf[s][j]
      /\ \A j \in Idx : j # i => txbuf'[j] = txbuf[j]
  BY <1>2 DEF Port, Types
<1>7. ASSUME NEW s \in Stacks, NEW x \in Idx, x # i PROVE SameFrames(s, x)
  <2>1. \A j \in 1 .. Len(sock'[s]) : sock'[s][j].idx = x =>
          j + 0 \in 1 .. Len(sock[s]) /\ sock'[s][j] = sock[s][j + 0]
    BY <1>5, <1>7
  <2>2. InSock(s, x) => \E j \in 1 .. Len(sock'[s]) : sock'[s][j].idx = x
    BY <1>5, <1>7 DEF InSock
  <2> QED BY <2>1, <2>2 DEF SameFrames
<1>8. ASSUME NEW k \in Slots(t)', Sound(t, k)' PROVE Tracked(t, k)'
  <2>1. held[t] \in Seq(Entries) /\ Len(held[t]) > 0 /\ held'[t] = Tail(held[t])
    BY <1>2 DEF Port, Shapes, Shape, Types
  <2>2. held[t] # << >>
    BY <2>1
  <2>3. Len(held[t]) \in Nat /\ Len(held'[t]) = Len(held[t]) - 1 /\ \A j \in 1 .. Len(held[t]) - 1 : held'[t][j] = held[t][j + 1]
    BY <2>1, <2>2, TailAt
  <2> PICK l \in Slots(t) : l = k + 1 /\ k \in 1 .. Len(held[t]) - 1
    BY <2>3 DEF Slots
  <2>a. l # 1 /\ held'[t][k] = held[t][l]
    BY <2>3
  <2>5. At(t, l) # i /\ At(t, l) \in Idx
    BY <1>1, <2>a, EntryType DEF Port, Separate, At, i
  <2>b. Sound(t, l)
    BY <1>2, <1>8, <2>5, <2>a DEF Sound, At
  <2>4. l # 1 /\ held'[t][k] = held[t][l] /\ Tracked(t, l)
    BY <1>3, <2>a, <2>b DEF Course
  <2>6. ~Again(t, k)' /\ ~Again(t, l)
    BY <1>4, <2>4 DEF Again
  <2>7. Ready(t, l) /\ \A s \in Stacks : ~InHand(t, s, At(t, l)) /\ ~InHand(t, s, At(t, k))'
    BY <1>4 DEF Ready, InHand
  <2> QED BY <1>4, <1>5, <1>6, <1>7, <2>4, <2>5, <2>6, <2>7, TrackedStays
<1>9. Course(t)'
  BY <1>4, <1>8 DEF Course, Leaving, Decided
<1> QED BY <1>3, <1>4, <1>9, RingKeeps

LEMMA RecvRing ==
  ASSUME Port, Port', Ring, Double, NEW t \in Threads, RecvFrame(t)
  PROVE  Ring'
<1>1. pc[t] = "recv"
  BY DEF RecvFrame
<1> PICK r \in Stacks : r = stack[t]
  BY <1>1, Waits
<1> DEFINE i == At(t, 1)
           f == Head(sock[r])
<1>2. 1 \in Slots(t) /\ Cur(t) = i /\ i \in Idx
  BY <1>1, Waits
<1>3. /\ UNCHANGED <<line, lastidx, txbuf, held, resent, missed>> /\ sock[r] # << >>
      /\ sock' = [sock EXCEPT ![r] = Tail(sock[r])]
      /\ \/ /\ f.idx = i /\ rxbuf' = [rxbuf EXCEPT ![r][i] = f]
            /\ stat' = [stat EXCEPT ![r][i] = "complete"]
            /\ got' = [got EXCEPT ![t] = @ \cup {r}] /\ Proceed(t, got[t] \cup {r}) /\ pend' = pend
         \/ /\ f.idx # i /\ f.idx \in Idx /\ stat[r][f.idx] = "tx"
            /\ pend' = [pend EXCEPT ![t] = f] /\ pc' = [pc EXCEPT ![t] = "store"]
            /\ UNCHANGED <<rxbuf, stat, got, stack>>
         \/ /\ f.idx # i /\ (f.idx \in Idx => stat[r][f.idx] # "tx") /\ Proceed(t, got[t])
            /\ UNCHANGED <<rxbuf, stat, got, pend>>
  BY <1>2 DEF RecvFrame, Gets, To
<1>4. Course(t) /\ \A u \in Threads \ {t} : pc[u] = "idle" /\ ~resent[u]
  BY <1>1, OnTurn DEF Port
<1>5. /\ f \in Frames /\ 1 \in 1 .. Len(sock[r]) /\ f = sock[r][1] /\ Len(sock[r]) \in Nat
      /\ Len(sock'[r]) = Len(sock[r]) - 1
      /\ \A j \in 1 .. Len(sock'[r]) : j + 1 \in 1 .. Len(sock[r]) /\ sock'[r][j] = sock[r][j + 1]
      /\ \A j \in 1 .. Len(sock[r]) : j # 1 => j - 1 \in 1 .. Len(sock'[r]) /\ sock'[r][j - 1] = sock[r][j]
      /\ \A s \in Stacks : s # r => sock'[s] = sock[s]
  <2>1. sock[r] \in Seq(Frames) /\ sock'[r] = Tail(sock[r]) /\ \A s \in Stacks : s # r => sock'[s] = sock[s]
    BY <1>3 DEF Port, Types
  <2>2. /\ f \in Frames /\ 1 \in 1 .. Len(sock[r]) /\ f = sock[r][1] /\ Len(sock[r]) \in Nat
        /\ Len(sock'[r]) = Len(sock[r]) - 1
        /\ \A j \in 1 .. Len(sock[r]) - 1 : sock'[r][j] = sock[r][j + 1]
    <3>1. sock[r] # << >> /\ f = Head(sock[r])
      BY <1>3
    <3> HIDE DEF f
    <3>2. /\ Len(sock[r]) \in Nat /\ Len(sock[r]) > 0 /\ f \in Frames /\ f = sock[r][1]
          /\ Len(Tail(sock[r])) = Len(sock[r]) - 1
          /\ \A j \in 1 .. Len(sock[r]) - 1 : Tail(sock[r])[j] = sock[r][j + 1]
      BY ONLY <2>1, <3>1, TailAt
    <3> QED BY <2>1, <3>2
  <2>3. \A j \in 1 .. Len(sock'[r]) : j + 1 \in 1 .. Len(sock[r]) /\ sock'[r][j] = sock[r][j + 1]
    BY <2>2
  <2>4. \A j \in 1 .. Len(sock[r]) : j # 1 => j - 1 \in 1 .. Len(sock'[r]) /\ sock'[r][j - 1] = sock[r][j]
    BY <2>2
  <2> QED BY <2>1, <2>2, <2>3, <2>4
<1>6. UNCHANGED <<redstate, cut, txbuf, held, resent, missed>> /\ \A k \in Slots(t) : At(t, k)' = At(t, k)
  BY <1>3 DEF line, At
<1>7. pc'[t] \in {"look", "test", "store"} /\ \A u \in Threads \ {t} : pc'[u] = pc[u]
  BY <1>3, ProceedType DEF Port, Types
<1> HIDE DEF f, i
<1>8. \A s \in Stacks : Len(sock'[s]) \in Nat
  BY DEF Port, Types
<1>9. ASSUME NEW s \in Stacks, NEW x \in Idx, s # r \/ x # f.idx PROVE SameFrames(s, x)
  <2>1. CASE s # r
    BY <1>5, <2>1, SameSock DEF Port
  <2>2. CASE s = r /\ x # f.idx
    <3>1. \A j \in 1 .. Len(sock'[s]) : j + 1 \in 1 .. Len(sock[s]) /\ sock'[s][j] = sock[s][j + 1]
      BY <1>5, <2>2
    <3>2. ASSUME InSock(s, x) PROVE \E j \in 1 .. Len(sock'[s]) : sock'[s][j].idx = x
      <4> PICK j \in 1 .. Len(sock[s]) : sock[s][j].idx = x
        BY <3>2 DEF InSock
      <4>1. j # 1
        BY <1>5, <2>2
      <4> QED BY <1>5, <2>2, <4>1
    <3> QED BY <3>1, <3>2 DEF SameFrames
  <2> QED BY <1>9, <2>1, <2>2
(* The head is the only frame of its slot in this socket.                    *)
<1>10. ASSUME NEW k \in Slots(t), Sound(t, k), At(t, k) = f.idx
       PROVE  /\ InSock(r, At(t, k)) /\ ~InSock(r, At(t, k))' /\ Kind(t, k, r, f)
              /\ Flying(t, k, r)' /\ stat[r][At(t, k)] = "tx"
  <2>1. Flying(t, k, r) /\ Fate(t, k, r)
    BY <1>4, <1>10 DEF Course, Tracked
  <2>2. InSock(r, At(t, k)) /\ Kind(t, k, r, f)
    BY <1>5, <1>10, <2>1 DEF InSock, Flying
  <2>3. ASSUME NEW j \in 1 .. Len(sock'[r]) PROVE sock'[r][j].idx # At(t, k)
    <3>1. j + 1 \in 1 .. Len(sock[r]) /\ j + 1 # 1 /\ sock'[r][j] = sock[r][j + 1]
      BY <1>5
    <3> QED BY <1>5, <1>10, <2>1, <3>1 DEF Flying
  <2>4. ~InSock(r, At(t, k))' /\ Flying(t, k, r)'
    BY <1>6, <2>3 DEF InSock, Flying
  <2>5. Ready(t, k)
    BY <1>1 DEF Ready
  <2> QED BY <2>1, <2>2, <2>4, <2>5 DEF Fate
<1>11. ASSUME NEW k \in Slots(t), Sound(t, k), NEW s \in Stacks, s # r \/ At(t, k) # f.idx
       PROVE  Flying(t, k, s)' /\ (InSock(s, At(t, k))' <=> InSock(s, At(t, k)))
  <2>1. At(t, k) \in Idx /\ Flying(t, k, s)
    BY <1>4, <1>11, EntryType DEF Course, Tracked, Port, At
  <2>2. SameFrames(s, At(t, k))
    BY <1>9, <1>11, <2>1
  <2>3. Again(t, k)' <=> Again(t, k)
    BY <1>6 DEF Again
  <2> QED BY <1>6, <1>8, <2>1, <2>2, <2>3, FlyingStays
<1>12. ASSUME NEW k \in Slots(t), Sound(t, k), NEW s \in Stacks PROVE Fate(t, k, s)'
  <2>1. Fate(t, k, s) /\ At(t, k) \in Idx /\ Ready(t, k)
    BY <1>1, <1>4, <1>12, EntryType DEF Course, Tracked, Port, At, Ready
  <2>2. (\A g : Kind(t, k, s, g)' <=> Kind(t, k, s, g)) /\ (Awaited(s)' <=> Awaited(s))
    BY <1>6 DEF Kind, Good, Double, Whole, Again, Awaited
  <2>3. ~InHand(t, s, At(t, k)) /\ Ready(t, k)'
    BY <1>1, <1>7 DEF InHand, Ready
  <2>4. k # 1 => At(t, k) # i
    BY <1>2 DEF Port, Separate, i
  <2>5. CASE /\ f.idx = i /\ rxbuf' = [rxbuf EXCEPT ![r][i] = f]
             /\ stat' = [stat EXCEPT ![r][i] = "complete"]
             /\ got' = [got EXCEPT ![t] = @ \cup {r}] /\ Proceed(t, got[t] \cup {r})
    <3>1. pc'[t] # "store" /\ got'[t] = got[t] \cup {r}
      <4>1. pc'[t] # "store"
        BY <2>5, ProceedType DEF Port
      <4> QED BY <2>5, <4>1 DEF Port, Types
    <3>2. ~InHand(t, s, At(t, k))'
      BY <3>1 DEF InHand
    <3>3. CASE k = 1 /\ s = r
      <4>1. At(t, k) = i /\ stat'[s][i] = "complete" /\ rxbuf'[s][i] = f
        BY <1>2, <2>5, <3>3 DEF Port, Types, i
      <4> QED BY <1>6, <1>10, <1>12, <2>2, <2>5, <3>1, <3>2, <3>3, <4>1 DEF Fate
    <3>4. CASE ~(k = 1 /\ s = r)
      <4>1. s # r \/ At(t, k) # f.idx
        BY <2>4, <2>5, <3>4
      <4>2. stat'[s][At(t, k)] = stat[s][At(t, k)] /\ rxbuf'[s][At(t, k)] = rxbuf[s][At(t, k)]
        BY <1>2, <2>1, <2>5, <4>1 DEF Port, Types
      <4>3. InSock(s, At(t, k))' <=> InSock(s, At(t, k))
        BY <1>11, <1>12, <4>1
      <4>4. k = 1 => (s \in got'[t] <=> s \in got[t])
        BY <3>1, <3>4
      <4> QED BY <1>1, <1>6, <1>7, <2>1, <2>2, <2>3, <3>1, <3>2, <4>2, <4>3, <4>4 DEF Fate
    <3> QED BY <3>3, <3>4
  <2>6. CASE /\ f.idx # i /\ f.idx \in Idx /\ stat[r][f.idx] = "tx"
             /\ pend' = [pend EXCEPT ![t] = f] /\ pc' = [pc EXCEPT ![t] = "store"]
             /\ UNCHANGED <<rxbuf, stat, got, stack>>
    <3>1. pc'[t] = "store" /\ stack'[t] = r /\ pend'[t] = f
      BY <2>6 DEF Port, Types
    <3>2. InHand(t, s, At(t, k))' <=> s = r /\ At(t, k) = f.idx
      BY <1>6, <3>1 DEF InHand
    <3>3. CASE s = r /\ At(t, k) = f.idx
      <4>1. k # 1
        BY <2>6, <3>3 DEF i
      <4> QED BY <1>6, <1>10, <1>12, <2>2, <2>6, <3>1, <3>2, <3>3, <4>1 DEF Fate
    <3>4. CASE ~(s = r /\ At(t, k) = f.idx)
      BY <1>1, <1>6, <1>11, <1>12, <2>1, <2>2, <2>3, <2>6, <3>1, <3>2, <3>4 DEF Fate
    <3> QED BY <3>3, <3>4
  <2>7. CASE /\ f.idx # i /\ (f.idx \in Idx => stat[r][f.idx] # "tx") /\ Proceed(t, got[t])
             /\ UNCHANGED <<rxbuf, stat, got, pend>>
    <3>1. pc'[t] \notin {"store", "result"}
      BY <2>7, ProceedType DEF Port
    <3>2. ~InHand(t, s, At(t, k))'
      BY <3>1 DEF InHand
    <3>3. s # r \/ At(t, k) # f.idx
      BY <1>10, <1>12, <2>1, <2>7
    <3> QED BY <1>1, <1>6, <1>11, <1>12, <2>1, <2>2, <2>3, <2>7, <3>1, <3>2, <3>3 DEF Fate
  <2> QED BY <1>3, <2>5, <2>6, <2>7 DEF f
<1>13. ASSUME NEW k \in Slots(t), Sound(t, k) PROVE Tracked(t, k)'
  <2>1. Begun(t, k)'
    BY <1>1, <1>4, <1>6, <1>7, <1>13 DEF Course, Tracked, Begun
  <2>2. \A s \in Stacks : Flying(t, k, s)'
    BY <1>10, <1>11, <1>13
  <2> QED BY <1>12, <1>13, <2>1, <2>2 DEF Tracked
<1>14. Course(t)'
  BY <1>4, <1>6, <1>7, <1>13 DEF Course, Sound, At, Slots, Leaving, Decided
<1> QED BY <1>4, <1>6, <1>7, <1>14, RingKeeps

LEMMA StoreRing ==
  ASSUME Port, Port', Ring, Double, NEW t \in Threads, Store(t)
  PROVE  Ring'
<1>1. pc[t] = "store"
  BY DEF Store
<1> PICK r \in Stacks : r = stack[t]
  BY <1>1, Waits
<1> DEFINE f == pend[t]
<1>2. /\ UNCHANGED <<line, lastidx, txbuf, sock, held, resent, got, missed>>
      /\ rxbuf' = [rxbuf EXCEPT ![r][f.idx] = f]
      /\ stat' = [stat EXCEPT ![r][f.idx] = "rcvd"]
      /\ Proceed(t, got[t])
  BY DEF Store
<1>3. Course(t) /\ \A u \in Threads \ {t} : pc[u] = "idle" /\ ~resent[u]
  BY <1>1, OnTurn DEF Port
<1>4. UNCHANGED <<redstate, cut, txbuf, sock, held, resent, got, missed>> /\ \A k \in Slots(t) : At(t, k)' = At(t, k)
  BY <1>2 DEF line, At
<1>5. pc'[t] \in {"look", "test"} /\ \A u \in Threads \ {t} : pc'[u] = pc[u]
  BY <1>2, ProceedType DEF Port
<1>6. f.idx \in Idx
  BY <1>1 DEF Port, Shapes, Shape
<1>7. \A s \in Stacks : \A j \in Idx :
        IF s = r /\ j = f.idx THEN stat'[s][j] = "rcvd" /\ rxbuf'[s][j] = f
        ELSE stat'[s][j] = stat[s][j] /\ rxbuf'[s][j] = rxbuf[s][j]
  BY <1>2, <1>6 DEF Port, Types
<1> HIDE DEF f
<1>8. ASSUME NEW k \in Slots(t), Sound(t, k), NEW s \in Stacks PROVE Flying(t, k, s)' /\ Fate(t, k, s)'
  <2>1. Fate(t, k, s) /\ Flying(t, k, s) /\ At(t, k) \in Idx /\ Ready(t, k)
    BY <1>1, <1>3, <1>8, EntryType DEF Course, Tracked, Port, At, Ready
  <2>2. (\A g : Kind(t, k, s, g)' <=> Kind(t, k, s, g)) /\ (Awaited(s)' <=> Awaited(s))
    BY <1>4 DEF Kind, Good, Double, Whole, Again, Awaited
  <2>3. Flying(t, k, s)' /\ (InSock(s, At(t, k))' <=> InSock(s, At(t, k)))
    BY <1>4, <2>1, <2>2 DEF Flying, InSock
  <2>4. (InHand(t, s, At(t, k)) <=> s = r /\ At(t, k) = f.idx) /\ ~InHand(t, s, At(t, k))' /\ Ready(t, k)'
    BY <1>1, <1>5 DEF InHand, Ready, f
  <2>5. CASE s = r /\ At(t, k) = f.idx
    <3>1. k # 1 /\ ~InSock(s, At(t, k)) /\ Kind(t, k, s, f)
      BY <2>1, <2>4, <2>5 DEF Fate, f
    <3>2. stat'[s][At(t, k)] = "rcvd" /\ rxbuf'[s][At(t, k)] = f
      BY <1>7, <2>1, <2>5
    <3> QED BY <1>4, <1>5, <2>2, <2>3, <2>4, <3>1, <3>2 DEF Fate
  <2>6. CASE ~(s = r /\ At(t, k) = f.idx)
    <3>1. stat'[s][At(t, k)] = stat[s][At(t, k)] /\ rxbuf'[s][At(t, k)] = rxbuf[s][At(t, k)]
      BY <1>7, <2>1, <2>6
    <3> QED BY <1>1, <1>4, <1>5, <2>1, <2>2, <2>3, <2>4, <2>6, <3>1 DEF Fate
  <2> QED BY <2>3, <2>5, <2>6
<1>9. ASSUME NEW k \in Slots(t), Sound(t, k) PROVE Tracked(t, k)'
  <2>1. Begun(t, k)'
    BY <1>1, <1>3, <1>4, <1>5, <1>9 DEF Course, Tracked, Begun
  <2> QED BY <1>8, <1>9, <2>1 DEF Tracked
<1>10. Course(t)'
  BY <1>3, <1>4, <1>5, <1>9 DEF Course, Sound, At, Slots, Leaving, Decided
<1> QED BY <1>3, <1>4, <1>5, <1>10, RingKeeps

(* When the wait is over, what was awaited has come.                         *)
LEMMA HasCome ==
  ASSUME Port, NEW t \in Threads, pc[t] = "test", Tracked(t, 1), NEW s \in Stacks, Awaited(s), ~UnderWay(t)
  PROVE  s \in got[t]
<1>1. 1 \in Slots(t) /\ Cur(t) = At(t, 1)
  BY Waits
<1>2. Fate(t, 1, s) /\ Ready(t, 1)
  BY <1>1 DEF Tracked, Ready
<1>3. stat[s][At(t, 1)] # "rcvd" /\ ~InSock(s, At(t, 1))
  BY <1>1 DEF UnderWay, InSock
<1>4. ~InHand(t, s, At(t, 1))
  BY DEF InHand
<1> QED BY <1>2, <1>3, <1>4 DEF Fate

LEMMA GotAwaited ==
  ASSUME Port, NEW t \in Threads, pc[t] \notin {"idle", "claim", "out", "dummy", "result"}, Tracked(t, 1),
         NEW s \in Stacks, s \in got[t]
  PROVE  Awaited(s) /\ Kind(t, 1, s, rxbuf[s][At(t, 1)])
<1>1. 1 \in Slots(t)
  BY Waits
<1>2. Fate(t, 1, s) /\ cut \in -1 .. Slaves /\ Slaves \in Nat \ {0}
  BY <1>1, Bounds DEF Tracked, Port, Types
<1>3. Kind(t, 1, s, rxbuf[s][At(t, 1)])
  BY <1>2 DEF Fate
<1> QED BY <1>2, <1>3 DEF Kind, Awaited, Stacks

LEMMA WaitedRing ==
  ASSUME Port, Port', Ring, Double, NEW t \in Threads, Waited(t)
  PROVE  Ring'
<1>1. pc[t] = "test"
  BY DEF Waited
<1>2. 1 \in Slots(t) /\ Cur(t) = At(t, 1) /\ At(t, 1) \in Idx
  BY <1>1, Waits
<1>3. Course(t) /\ \A u \in Threads \ {t} : pc[u] = "idle" /\ ~resent[u]
  BY <1>1, OnTurn DEF Port
<1> DEFINE i == At(t, 1)
<1>4. /\ UNCHANGED <<line, lastidx, stat, txbuf, sock, held, stack, resent, pend>>
      /\ missed' = IF ~Complete(t) /\ UnderWay(t) THEN missed \cup {i} ELSE missed
      /\ pc' = [pc EXCEPT ![t] = IF ~resent[t] THEN "decide" ELSE "result"]
      /\ IF resent[t] /\ 1 \in got[t]
         THEN rxbuf' = [rxbuf EXCEPT ![0][i] = rxbuf[1][i]] /\ got' = [got EXCEPT ![t] = @ \cup {0}]
         ELSE UNCHANGED <<rxbuf, got>>
  BY <1>2 DEF Waited, To
<1>5. UNCHANGED <<redstate, cut, stat, txbuf, sock, held, resent, pend>> /\ \A k \in Slots(t) : At(t, k)' = At(t, k)
  BY <1>4 DEF line, At
<1>6. /\ pc'[t] = (IF ~resent[t] THEN "decide" ELSE "result")
      /\ \A u \in Threads \ {t} : pc'[u] = pc[u]
  BY <1>4 DEF Port, Types
<1>7. cut \in -1 .. Slaves /\ Slaves \in Nat \ {0}
  BY Bounds DEF Port, Types
<1>a. \A k \in Slots(t) : Sound(t, k)' => Sound(t, k) /\ Tracked(t, k)
  BY <1>3, <1>4, <1>5 DEF Sound, Course
<1>b. ASSUME Sound(t, 1)'
      PROVE  Sound(t, 1) /\ Tracked(t, 1) /\ Decided(t) /\ (Complete(t) \/ ~UnderWay(t))
  <2>1. Sound(t, 1) /\ Tracked(t, 1) /\ Decided(t)
    BY <1>2, <1>3, <1>a, <1>b DEF Course
  <2> QED BY <1>2, <1>4, <1>5, <1>b, <2>1 DEF Sound
<1> HIDE DEF i
<1>8. CASE ~resent[t]
  <2>1. Sound(t, 1)' => \A s \in Stacks : s \in got[t] <=> Awaited(s)
    BY <1>1, <1>8, <1>b, HasCome, GotAwaited DEF Complete, Stacks
  <2>2. ASSUME NEW k \in Slots(t), Sound(t, k)' PROVE Tracked(t, k)'
    BY <1>1, <1>4, <1>6, <1>8, <1>a, <2>2, WaitingTracked DEF port
  <2>3. Sound(t, 1)' => \A s \in Stacks : s \in got'[t] <=> Awaited(s)'
    BY <1>4, <1>5, <1>8, <2>1 DEF Awaited
  <2>4. Sound(t, 1)' => Decided(t)'
    BY <1>5, <1>6, <1>8, <2>3 DEF Decided
  <2>5. Course(t)'
    BY <1>5, <1>6, <1>8, <2>2, <2>4 DEF Course, Slots, Leaving
  <2> QED BY <1>3, <1>5, <1>6, <2>5, RingKeeps
<1>9. CASE resent[t]
  <2>1. Sound(t, 1)' => cut \in 0 .. Slaves - 1
    BY <1>9, <1>b DEF Decided
  <2>2. Sound(t, 1)' => 1 \in got[t]
    BY <1>1, <1>7, <1>9, <1>b, <2>1, HasCome DEF Complete, Awaited, Stacks
  <2>3. ASSUME Sound(t, 1)' PROVE Whole(rxbuf[1][i])
    <3>1. Kind(t, 1, 1, rxbuf[1][i])
      BY <1>1, <1>b, <2>2, <2>3, GotAwaited DEF Stacks, i
    <3> QED BY <1>7, <1>9, <2>1, <2>3, <3>1 DEF Kind, Again
  <2>4. /\ \A s \in Stacks : \A j \in Idx : j # i => rxbuf'[s][j] = rxbuf[s][j]
        /\ Sound(t, 1)' => got'[t] = got[t] \cup {0} /\ rxbuf'[0][i] = rxbuf[1][i]
        /\ 1 \in got'[t] <=> 1 \in got[t]
    <3>1. CASE 1 \in got[t]
      <4>1. rxbuf' = [rxbuf EXCEPT ![0][i] = rxbuf[1][i]] /\ got' = [got EXCEPT ![t] = @ \cup {0}]
        BY <1>4, <1>9, <3>1 DEF i
      <4>2. got'[t] = got[t] \cup {0}
        BY <4>1 DEF Port, Types
      <4>3. 0 \in Stacks /\ i \in Idx /\ rxbuf \in [Stacks -> [Idx -> Frames]]
        BY <1>2 DEF Port, Types, Stacks, i
      <4>4. rxbuf'[0][i] = rxbuf[1][i] /\ \A s \in Stacks : \A j \in Idx : j # i => rxbuf'[s][j] = rxbuf[s][j]
        BY <4>1, <4>3
      <4>5. 1 \in got'[t] <=> 1 \in got[t]
        BY <3>1, <4>2
      <4> QED BY <4>2, <4>4, <4>5
    <3>2. CASE 1 \notin got[t]
      BY <1>4, <2>2, <3>2
    <3> QED BY <3>1, <3>2
  <2>5. ASSUME NEW k \in Slots(t), Sound(t, k)' PROVE Tracked(t, k)'
    <3>1. \A s \in Stacks : Len(sock'[s]) \in Nat /\ SameFrames(s, At(t, k))
      BY <1>5, SameSock DEF Port
    <3>2. Again(t, k)' <=> Again(t, k)
      BY <1>5 DEF Again
    <3>3. Ready(t, k) /\ Ready(t, k)' /\ \A s \in Stacks : ~InHand(t, s, At(t, k)) /\ ~InHand(t, s, At(t, k))'
      BY <1>1, <1>6, <1>9 DEF Ready, InHand
    <3>4. Tracked(t, k)
      BY <1>a, <2>5
    <3>5. CASE k # 1
      <4>1. At(t, k) # i /\ At(t, k) \in Idx
        BY <1>2, <3>5, EntryType DEF Port, Separate, At, i
      <4>2. \A s \in Stacks : rxbuf'[s][At(t, k)] = rxbuf[s][At(t, k)]
        BY <2>4, <4>1
      <4> QED BY <1>1, <1>5, <1>6, <1>9, <3>1, <3>2, <3>3, <3>4, <3>5, <4>2, TrackedStays
    <3>6. CASE k = 1
      <4>1. Begun(t, k)'
        BY <1>1, <1>5, <1>6, <1>9, <3>2, <3>4 DEF Tracked, Begun
      <4>2. ASSUME NEW s \in Stacks PROVE Flying(t, k, s)' /\ Fate(t, k, s)'
        <5>1. Flying(t, k, s)' /\ (InSock(s, At(t, k))' <=> InSock(s, At(t, k)))
          BY <1>5, <3>1, <3>2, <3>4, FlyingStays DEF Tracked
        <5>2. Awaited(s)' <=> Awaited(s)
          BY <1>5 DEF Awaited
        <5>3. Fate(t, k, s)'
          BY <1>5, <1>6, <1>9, <2>4, <2>5, <3>3, <3>4, <3>6, <5>1, <5>2 DEF Tracked, Fate
        <5> QED BY <5>1, <5>3
      <4> QED BY <4>1, <4>2 DEF Tracked
    <3> QED BY <3>5, <3>6
  <2>6. Sound(t, 1)' => Decided(t)'
    BY <1>5, <1>6, <1>9, <2>1, <2>3, <2>4 DEF Decided, Whole, i, At
  <2>7. Course(t)'
    BY <1>5, <1>6, <1>9, <2>5, <2>6 DEF Course, Slots, Leaving
  <2> QED BY <1>3, <1>5, <1>6, <2>7, RingKeeps
<1> QED BY <1>8, <1>9

LEMMA DecideRing ==
  ASSUME Port, Port', Ring, Double, NEW t \in Threads, Decide(t)
  PROVE  Ring'
<1>1. pc[t] = "decide"
  BY DEF Decide
<1>2. 1 \in Slots(t) /\ Cur(t) = At(t, 1) /\ At(t, 1) \in Idx
  BY <1>1, Waits
<1>3. Course(t) /\ \A u \in Threads \ {t} : pc[u] = "idle" /\ ~resent[u]
  BY <1>1, OnTurn DEF Port
<1> DEFINE i == At(t, 1)
<1>4. UNCHANGED <<line, lastidx, stat, sock, held, stack, resent, got, pend, missed>>
  BY DEF Decide
<1>5. UNCHANGED <<redstate, cut, stat, sock, held, resent, got, pend, missed>> /\ \A k \in Slots(t) : At(t, k)' = At(t, k)
  BY <1>4 DEF line, At
<1>6. cut \in -1 .. Slaves /\ Slaves \in Nat \ {0} /\ ~resent[t] /\ (Sound(t, 1) => Tracked(t, 1))
  BY <1>1, <1>2, <1>3, Bounds DEF Port, Types, Course
<1>7. Sound(t, 1) =>
        \A s \in Stacks : (s \in got[t] <=> Awaited(s)) /\ (s \in got[t] => Kind(t, 1, s, rxbuf[s][i]))
  BY <1>1, <1>3, <1>6, GotAwaited DEF Course, Decided
(* What the cut lets arrive on either side                                   *)
<1>8. ASSUME Sound(t, 1)
      PROVE
      /\ Source(t, 0) = (IF cut = 0 THEN "none" ELSE IF cut = -1 THEN "sec" ELSE "pri")
      /\ Source(t, 1) = (IF cut = Slaves THEN "none" ELSE IF cut = -1 THEN "pri" ELSE "sec")
      /\ cut = -1 => 0 \in got[t] /\ Whole(rxbuf[1][i])
      /\ cut > 0 => 0 \in got[t] /\ rxbuf[0][i].src = "pri" /\ rxbuf[0][i].dg.path = SubSeq(Line, 1, cut)
      /\ cut \in 0 .. Slaves - 1 => 1 \in got[t]
  BY <1>2, <1>6, <1>7, <1>8 DEF Source, Awaited, Kind, Again, Whole, Stacks
<1> HIDE DEF i
<1>a. /\ \A s \in Stacks : \A j \in Idx : j # i => rxbuf'[s][j] = rxbuf[s][j]
      /\ \A j \in Idx : j # i => txbuf'[j] = txbuf[j]
      /\ pc'[t] \in {"result", "resend"} /\ \A u \in Threads \ {t} : pc'[u] = pc[u]
  <2> USE DEF Port, Types, To
  <2>1. i = Cur(t) /\ i \in Idx
    BY <1>2 DEF i
  <2>2. rxbuf' = rxbuf \/ rxbuf' = [rxbuf EXCEPT ![0][i] = rxbuf[1][i]]
    BY <2>1 DEF Decide
  <2>3. txbuf' = txbuf \/ txbuf' = [txbuf EXCEPT ![i] = rxbuf[0][i].dg]
    BY <2>1 DEF Decide
  <2>4. pc' = [pc EXCEPT ![t] = "result"] \/ pc' = [pc EXCEPT ![t] = "resend"]
    BY DEF Decide
  <2> QED BY <2>1, <2>2, <2>3, <2>4 DEF Stacks
<1>9. ASSUME Sound(t, 1)
      PROVE
      \/ /\ cut = -1 /\ pc' = [pc EXCEPT ![t] = "result"] /\ txbuf' = txbuf
         /\ rxbuf' = [rxbuf EXCEPT ![0][i] = rxbuf[1][i]]
      \/ /\ cut \in 0 .. Slaves - 1 /\ pc' = [pc EXCEPT ![t] = "resend"] /\ rxbuf' = rxbuf
         /\ txbuf' = IF cut > 0 THEN [txbuf EXCEPT ![i] = rxbuf[0][i].dg] ELSE txbuf
      \/ /\ cut = Slaves /\ pc' = [pc EXCEPT ![t] = "result"] /\ UNCHANGED <<txbuf, rxbuf>>
  BY <1>2, <1>6, <1>8, <1>9 DEF Decide, To, i
<1>10. ASSUME Sound(t, 1)
       PROVE
       /\ pc'[t] = "result" => txbuf' = txbuf /\ Whole(rxbuf'[0][i]) /\ 0 \in got[t]
       /\ pc'[t] = "resend" => /\ cut \in 0 .. Slaves - 1 /\ 1 \in got[t] /\ rxbuf' = rxbuf
                               /\ txbuf'[i].path = SubSeq(Line, 1, cut)
  <2>1. txbuf[i].path = << >>
    BY <1>1, <1>6, <1>10 DEF Tracked, Begun, i
  <2>2. CASE /\ cut = -1 /\ pc' = [pc EXCEPT ![t] = "result"] /\ txbuf' = txbuf
             /\ rxbuf' = [rxbuf EXCEPT ![0][i] = rxbuf[1][i]]
    BY <1>2, <1>8, <1>10, <2>2 DEF Port, Types, Stacks, i
  <2>3. CASE /\ cut \in 0 .. Slaves - 1 /\ pc' = [pc EXCEPT ![t] = "resend"] /\ rxbuf' = rxbuf
             /\ txbuf' = IF cut > 0 THEN [txbuf EXCEPT ![i] = rxbuf[0][i].dg] ELSE txbuf
    <3>1. pc'[t] = "resend" /\ \A u \in Threads \ {t} : pc'[u] = pc[u]
      BY <2>3 DEF Port, Types
    <3>2. txbuf \in [Idx -> Datagrams] /\ i \in Idx
      BY <1>2 DEF Port, Types, i
    <3>3. CASE cut > 0
      <4>1. txbuf' = [txbuf EXCEPT ![i] = rxbuf[0][i].dg]
        BY <2>3, <3>3
      <4>2. txbuf'[i] = rxbuf[0][i].dg /\ \A j \in Idx : j # i => txbuf'[j] = txbuf[j]
        BY <3>2, <4>1
      <4>3. txbuf'[i].path = SubSeq(Line, 1, cut)
        BY <1>8, <1>10, <3>3, <4>2
      <4>4. cut \in 0 .. Slaves - 1 /\ 1 \in got[t] /\ rxbuf' = rxbuf
        BY <1>8, <1>10, <2>3
      <4> QED BY ONLY <3>1, <4>2, <4>3, <4>4
    <3>4. CASE ~(cut > 0)
      <4>1. cut = 0 /\ SubSeq(Line, 1, 0) = << >>
        BY <1>6, <2>3, <3>4, Joins
      <4>2. txbuf' = txbuf /\ txbuf'[i].path = SubSeq(Line, 1, cut)
        BY <2>1, <2>3, <3>4, <4>1
      <4>3. cut \in 0 .. Slaves - 1 /\ 1 \in got[t] /\ rxbuf' = rxbuf
        BY <1>8, <1>10, <2>3
      <4> QED BY ONLY <3>1, <4>2, <4>3
    <3> QED BY <3>3, <3>4
  <2>4. CASE cut = Slaves /\ pc' = [pc EXCEPT ![t] = "result"] /\ UNCHANGED <<txbuf, rxbuf>>
    BY <1>6, <1>8, <1>10, <2>4, Joins DEF Port, Types, Whole
  <2> QED BY <1>9, <1>10, <2>2, <2>3, <2>4
<1>b. \A k \in Slots(t) : Sound(t, k)' <=> Sound(t, k)
  BY <1>5 DEF Sound
<1>11. ASSUME NEW k \in Slots(t), Sound(t, k) PROVE Tracked(t, k)'
  <2>1. \A s \in Stacks : Len(sock'[s]) \in Nat /\ SameFrames(s, At(t, k))
    BY <1>5, SameSock DEF Port
  <2>2. Again(t, k)' <=> Again(t, k)
    BY <1>5 DEF Again
  <2>3. Ready(t, k) /\ Ready(t, k)' /\ \A s \in Stacks : ~InHand(t, s, At(t, k)) /\ ~InHand(t, s, At(t, k))'
    BY <1>1, <1>a DEF Ready, InHand
  <2>4. Tracked(t, k)
    BY <1>3, <1>11 DEF Course
  <2>5. CASE k # 1
    <3>1. At(t, k) # i /\ At(t, k) \in Idx
      BY <1>2, <2>5, EntryType DEF Port, Separate, At, i
    <3>2. txbuf'[At(t, k)] = txbuf[At(t, k)] /\ \A s \in Stacks : rxbuf'[s][At(t, k)] = rxbuf[s][At(t, k)]
      BY <1>a, <3>1
    <3> QED BY <1>1, <1>5, <2>1, <2>2, <2>3, <2>4, <2>5, <3>2, TrackedStays
  <2>6. CASE k = 1
    <3>1. Begun(t, k)'
      BY <1>1, <1>5, <1>6, <1>10, <1>11, <1>a, <2>4, <2>6 DEF Tracked, Begun, i
    <3>2. ASSUME NEW s \in Stacks PROVE Flying(t, k, s)' /\ Fate(t, k, s)'
      <4>1. Flying(t, k, s)' /\ (InSock(s, At(t, k))' <=> InSock(s, At(t, k)))
        BY <1>5, <2>1, <2>2, <2>4, FlyingStays DEF Tracked
      <4>2. \A f : Kind(t, k, s, f)' <=> Kind(t, k, s, f)
        BY <1>5, <2>2, KindStays
      <4>3. Awaited(s)' <=> Awaited(s)
        BY <1>5 DEF Awaited
      <4>4. Fate(t, k, s)'
        BY <1>1, <1>5, <1>10, <1>11, <1>a, <2>3, <2>4, <2>6, <4>1, <4>2, <4>3 DEF Tracked, Fate
      <4> QED BY <4>1, <4>4
    <3> QED BY <3>1, <3>2 DEF Tracked
  <2> QED BY <2>5, <2>6
<1>12. Sound(t, 1) => Decided(t)'
  BY <1>2, <1>5, <1>6, <1>10, <1>a DEF Decided, Whole, i
<1>13. Course(t)'
  BY <1>2, <1>5, <1>6, <1>11, <1>12, <1>a, <1>b DEF Course, Slots, Leaving
<1> QED BY <1>3, <1>5, <1>13, <1>a, RingKeeps

LEMMA RingStep ==
  ASSUME Port, Port', Ring, Double, NEW t \in Threads, Step(t), clean'
  PROVE  Ring'
<1>1. CASE Return(t) \/ Take(t)
  <2>1. Release(t) /\ pc[t] = "result" /\ UNCHANGED line
    BY <1>1 DEF Return, Take, Release
  <2> QED BY <2>1, ReleaseRing
<1>2. CASE ~(Return(t) \/ Take(t))
  BY <1>2, BeginRing, ClaimRing, OutFrameRing, OutDummyRing, LookRing, WaitingRing, RecvRing,
     StoreRing, WaitedRing, DecideRing, ResendRing, RetryRing DEF Step
<1> QED BY <1>1, <1>2
-----------------------------------------------------------------------------
(* Both modes together *)

RingInv == Inv /\ (clean => Made) /\ (clean /\ Double => Routed /\ Ring)

LEMMA LineIsKept ==
  ASSUME NEW t \in Threads, Step(t), clean'
  PROVE  clean /\ redstate' = redstate
<1>1. clean
  BY DEF Step, Begin, Claim, OutFrame, OutDummy, Look, RecvNothing, RecvFrame, Store,
         WaitMore, Waited, Decide, Resend, Retry, Return, Take, Release
<1>2. UNCHANGED line
  BY DEF Step, Begin, Claim, OutFrame, OutDummy, Look, RecvNothing, RecvFrame, Store,
         WaitMore, Waited, Decide, Resend, Retry, Return, Take, Release
<1> QED BY <1>1, <1>2 DEF line

LEMMA MadeStutters == UNCHANGED <<redstate, layout, txbuf, rxbuf, sock, pend>> /\ Made => Made'
<1> SUFFICES ASSUME UNCHANGED <<redstate, layout, txbuf, rxbuf, sock, pend>>, Made PROVE Made'
  OBVIOUS
<1>1. (\A d : Stamped(d)' <=> Stamped(d)) /\ (Double' <=> Double)
  BY DEF Stamped, Double
<1>2. \A f : Wired(f)' <=> Wired(f)
  BY <1>1 DEF Wired
<1> QED BY <1>1, <1>2 DEF Made

LEMMA RoutedStutters == UNCHANGED <<cut, txbuf, rxbuf, sock, held, pc, stack, got, pend>> /\ Routed => Routed'
<1> SUFFICES ASSUME UNCHANGED <<cut, txbuf, rxbuf, sock, held, pc, stack, got, pend>>, Routed PROVE Routed'
  OBVIOUS
<1>1. \A s : Ways(s)' = Ways(s)
  BY DEF Ways, Front, Halves
<1>2. \A t, i : Taker(t, i)' <=> Taker(t, i)
  BY DEF Taker, At
<1>3. \A i : Copied(i)' <=> Copied(i)
  BY <1>2 DEF Copied
<1> QED BY <1>1, <1>2, <1>3 DEF Routed

LEMMA RingStutters ==
  UNCHANGED <<redstate, cut, stat, txbuf, rxbuf, sock, held, pc, stack, resent, got, pend, missed>> /\ Ring => Ring'
<1> SUFFICES ASSUME UNCHANGED <<redstate, cut, stat, txbuf, rxbuf, sock, held, pc, stack, resent, got, pend, missed>>, Ring
             PROVE  Ring'
  OBVIOUS
<1>1. \A t, k, s, f : Kind(t, k, s, f)' <=> Kind(t, k, s, f)
  BY DEF Kind, Good, Double, Whole, Again
<1>2. \A t, k : (Tracked(t, k)' <=> Tracked(t, k)) /\ (Sound(t, k)' <=> Sound(t, k))
  <2> TAKE t, k
  <2>1. /\ At(t, k)' = At(t, k) /\ (Begun(t, k)' <=> Begun(t, k)) /\ (Ready(t, k)' <=> Ready(t, k))
        /\ Sound(t, k)' <=> Sound(t, k)
    BY DEF At, Begun, Ready, Sound
  <2>2. \A s : (InSock(s, At(t, k))' <=> InSock(s, At(t, k))) /\ (InHand(t, s, At(t, k))' <=> InHand(t, s, At(t, k)))
    BY <2>1 DEF InSock, InHand
  <2>3. \A s : (Awaited(s)' <=> Awaited(s)) /\ (Flying(t, k, s)' <=> Flying(t, k, s))
    BY <1>1, <2>1 DEF Awaited, Flying
  <2>4. \A s : Fate(t, k, s)' <=> Fate(t, k, s)
    BY <1>1, <2>1, <2>2, <2>3 DEF Fate
  <2> QED BY <2>1, <2>3, <2>4 DEF Tracked
<1>3. \A t : (Leaving(t)' <=> Leaving(t)) /\ (Decided(t)' <=> Decided(t)) /\ Slots(t)' = Slots(t)
  BY DEF Leaving, Decided, Slots, At, InSock, Awaited, Whole
<1>4. \A t : Sound(t, Len(held[t]))' <=> Sound(t, Len(held[t]))
  BY DEF Sound, At
<1>5. \A t : Course(t)' <=> Course(t)
  BY <1>2, <1>3, <1>4 DEF Course
<1> QED BY <1>5 DEF Ring

LEMMA RingInvStep == RingInv /\ [Next]_vars => RingInv'
<1> SUFFICES ASSUME RingInv, [Next]_vars, clean' PROVE Made' /\ (Double' => Routed' /\ Ring')
  BY PortStep DEF RingInv
<1>1. Inv /\ Inv'
  BY PortStep DEF RingInv
<1>2. CASE UNCHANGED vars
  <2>1. /\ UNCHANGED <<redstate, cut, layout, stat, txbuf, rxbuf, sock>>
        /\ UNCHANGED <<held, pc, stack, resent, got, pend, clean, missed>>
    BY <1>2 DEF vars, line, port, thread
  <2>2. Made /\ (Double' => Routed /\ Ring)
    BY <2>1 DEF RingInv, Double
  <2> QED BY <2>1, <2>2, MadeStutters, RoutedStutters, RingStutters
<1>3. ASSUME NEW t \in Threads, Step(t) PROVE Made' /\ (Double' => Routed' /\ Ring')
  <2>1. clean /\ (Double' => Double)
    BY <1>3, LineIsKept DEF Double
  <2>2. Port /\ Port' /\ Made /\ (Double => Routed /\ Ring)
    BY <1>1, <2>1 DEF Inv, RingInv
  <2> QED BY <1>3, <2>1, <2>2, MadeStep, RoutedStep, RingStep
<1> QED BY <1>2, <1>3 DEF Next

LEMMA RingStarts == Init => RingInv
<1> SUFFICES ASSUME Init PROVE Made /\ Routed /\ Ring
  BY StartsWell DEF RingInv, Inv
<1>1. \A i \in Idx : txbuf[i] = Dummy
  BY DEF Init
<1>2. \A k \in Stacks, i \in Idx : rxbuf[k][i] = NoFrame
  BY DEF Init
<1>3. \A k \in Stacks : 1 .. Len(sock[k]) = {}
  <2>1. \A k \in Stacks : Len(sock[k]) = 0
    BY DEF Init
  <2> QED BY <2>1
<1>4. \A t \in Threads : pend[t] = NoFrame /\ pc[t] = "idle"
  BY DEF Init
<1>5. Made
  BY <1>1, <1>2, <1>3, <1>4, Plain DEF Made
<1>6. Routed
  <2>1. NoFrame.dg.path = << >> /\ Dummy.path = << >>
    BY DEF NoFrame, Dummy
  <2>2. << >> \in Ways(0) /\ << >> \in Ways(1)
    BY DEF Ways
  <2> QED BY <1>1, <1>2, <1>3, <1>4, <2>1, <2>2 DEF Routed, Stacks
<1>7. Ring
  BY <1>4 DEF Init, Ring
<1> QED BY <1>5, <1>6, <1>7

(* In every state that is reached the frames of a redundant port of which    *)
(* none was missed are where the cut of the line lets them be, and all have  *)
(* passed the slaves on their way.                                           *)
THEOREM RingInvariant == Spec => []RingInv
BY RingStarts, RingInvStep, PTL DEF Spec

(* What a call takes for its answer is the answer to its own datagram, of    *)
(* this use of the index; or the dummy of this use, on a redundant port that *)
(* has missed a frame of it.                                                 *)
THEOREM AnswersAreOwn == Spec => []AnswerOwn
<1>1. RingInv => AnswerOwn
  <2> SUFFICES ASSUME RingInv, clean, NEW t \in Threads, pc[t] = "result", 0 \in got[t]
               PROVE  LET f == rxbuf[0][Cur(t)] IN
                      Mine(t, f) \/ (Cur(t) \in missed /\ f.fresh /\ f.dg.own = "dummy")
    BY DEF AnswerOwn
  <2>1. Port
    BY DEF RingInv, Inv
  <2>2. 1 \in Slots(t) /\ Cur(t) = At(t, 1) /\ At(t, 1) \in Idx /\ Entry(t) = held[t][1]
    BY <2>1, Waits DEF Entry
  <2> DEFINE f == rxbuf[0][At(t, 1)]
  <2>3. Good(t, 1, f)
    BY <2>1, <2>2 DEF Port, GoodSlots, GoodSlot, GoodRx, Filled, Stacks
  <2>4. f.src \in {"pri", "sec"}
    BY <2>1, <2>2 DEF Port, Types, Stacks, Frames
  <2>5. f.src = "sec" => Double /\ f.dg.own = "dummy"
    BY <2>2, <2>3 DEF Good, RingInv, Made, Wired, Stacks
  <2>6. Double /\ At(t, 1) \notin missed => f.src = "pri"
    BY DEF RingInv, Ring, Course, Sound, Decided, Whole
  <2> QED BY <2>2, <2>3, <2>4, <2>5, <2>6 DEF Good, Mine
<1> QED BY <1>1, RingInvariant, PTL

(* Wherever a redundant line is cut and whatever is lost, what is taken for  *)
(* an answer has passed no slave twice and those in their order; and every   *)
(* slave of the line unless a frame of this datagram was missed.             *)
THEOREM CutIsCovered == Spec => []RedundantComplete
<1>1. RingInv => RedundantComplete
  <2> SUFFICES ASSUME RingInv, clean, Double, NEW t \in Threads, pc[t] = "result", 0 \in got[t]
               PROVE  /\ rxbuf[0][Cur(t)].dg.path \in {<< >>, Line} \cup Halves
                      /\ Cur(t) \in missed \/ rxbuf[0][Cur(t)].dg.path = Line
    BY DEF RedundantComplete
  <2>1. Port /\ Ring /\ Routed
    BY DEF RingInv, Inv
  <2>2. Cur(t) = At(t, 1) /\ At(t, 1) \in Idx
    BY <2>1, Waits
  <2>3. Ways(0) \subseteq Ways(1) /\ Ways(1) = {<< >>, Line} \cup Halves
    BY DEF Ways, Front, Halves
  <2>4. rxbuf[0][Cur(t)].dg.path \in Ways(1)
    BY <2>1, <2>2, <2>3 DEF Routed
  <2>5. Cur(t) \notin missed => rxbuf[0][Cur(t)].dg.path = Line
    BY <2>1, <2>2 DEF Ring, Course, Sound, Decided, Whole
  <2> QED BY <2>3, <2>4, <2>5
<1> QED BY <1>1, RingInvariant, PTL
-----------------------------------------------------------------------------
(* The working counter *)

(* The process data in one segment, as ecx_main_send_processdata has it:     *)
(* LRW, or LRD and LWR when a slave blocks LRW.                              *)
OneSegment == \A l \in Layouts : l.cmds \in {<<"LRW">>, <<"LRD", "LWR">>}

(* The segments are taken in their order, each of them once; as long as no   *)
(* answer was taken the counter is 0, and it is what those taken count for   *)
(* with the slaves they have passed.                                         *)
Base == IF pc[Cycle] \in {"claim", "out", "dummy"} THEN 0 ELSE Len(layout.cmds) - Len(held[Cycle])
Counts(c, n) == CASE c = "LRW" -> 3 * n [] c = "LRD" -> n [] c = "LWR" -> 2 * n
Worth(k, v)  == \/ v = 0 /\ ~Seen(k)
                \/ \E a \in came : a.seg = k /\ v = Counts(layout.cmds[k], Len(a.path))
ClocksIn == layout.dc /\ came # {} => Seen(1)
OnTheWay(p) == Len(p) \in 0 .. Slaves /\ (Len(p) = Slaves <=> p = Line)
Tally ==
  /\ \A k \in Slots(Cycle) : held[Cycle][k].seg = Base + k
  /\ \A a \in came : a = [seg |-> a.seg, path |-> a.path] /\ a.seg \in 1 .. Base /\ OnTheWay(a.path)
  /\ \A a, b \in came : a.seg = b.seg => a = b
  /\ came = {} => wkc = 0 /\ (pc[Cycle] # "idle" => first = layout.dc)
  /\ came # {} => ~first
  /\ ClocksIn => \E v, w \in Nat : Worth(1, v) /\ Worth(2, w) /\ wkc = v + w

CountInv == OneSegment => (clean => Tally)

LEMMA GroupStays ==
  ASSUME Types, Cycle \in Threads, NEW t \in Threads, t # Cycle, Step(t)
  PROVE  held'[Cycle] = held[Cycle] /\ pc'[Cycle] = pc[Cycle] /\ UNCHANGED <<layout, wkc, first, came>>
<1> USE DEF Types, line, group
<1>1. UNCHANGED layout
  BY DEF Step, Begin, Claim, OutFrame, OutDummy, Look, RecvNothing, RecvFrame, Store,
         WaitMore, Waited, Decide, Resend, Retry, Return, Take, Release
<1>2. UNCHANGED <<wkc, first, came>>
  BY DEF Step, Begin, Claim, OutFrame, OutDummy, Look, RecvNothing, RecvFrame, Store,
         WaitMore, Waited, Decide, Resend, Retry, Return, Take, Release
<1>3. held'[Cycle] = held[Cycle]
  BY DEF Step, Begin, Claim, OutFrame, OutDummy, Look, RecvNothing, RecvFrame, Store,
         WaitMore, Waited, Decide, Resend, Retry, Return, Take, Release
<1>4. pc'[Cycle] = pc[Cycle]
  BY DEF Step, Begin, Claim, OutFrame, OutDummy, Look, RecvNothing, RecvFrame, Store,
         WaitMore, Waited, Decide, Resend, Retry, Return, Take, Release, To, Proceed, Gets
<1> QED BY <1>1, <1>2, <1>3, <1>4

LEMMA WayLengths ==
  ASSUME Types, NEW p \in {<< >>, Line} \cup Halves
  PROVE  OnTheWay(p)
<1>1. Slaves \in Nat \ {0} /\ cut \in -1 .. Slaves
  BY Bounds DEF Types
<1>2. Len(Line) = Slaves /\ OnTheWay(Line)
  BY <1>1 DEF OnTheWay, Line
<1>3. CASE p = << >>
  BY <1>1, <1>2, <1>3 DEF OnTheWay
<1>4. CASE cut # -1 /\ p = SubSeq(Line, 1, cut)
  <2>1. cut \in 0 .. Slaves /\ Len(p) = cut
    BY <1>1, <1>4 DEF Line
  <2>2. cut = Slaves => p = Line
    BY <1>4, Joins
  <2> QED BY <1>1, <1>2, <2>1, <2>2 DEF OnTheWay
<1>5. CASE cut # -1 /\ p = SubSeq(Line, cut + 1, Slaves)
  <2>1. cut \in 0 .. Slaves /\ Len(p) = Slaves - cut
    BY <1>1, <1>5 DEF Line
  <2>2. cut = 0 => p = Line
    BY <1>5, Joins
  <2> QED BY <1>1, <1>2, <2>1, <2>2 DEF OnTheWay
<1>6. p = << >> \/ p = Line \/ (cut # -1 /\ (p = SubSeq(Line, 1, cut) \/ p = SubSeq(Line, cut + 1, Slaves)))
  BY DEF Halves
<1> QED BY <1>2, <1>3, <1>4, <1>5, <1>6

(* An answer with process data is that to the own datagram, the dummy has    *)
(* none; and it counts for the slaves it has passed.                         *)
LEMMA TakenCounts ==
  ASSUME RingInv, clean, OneSegment, pc[Cycle] = "result", 0 \in got[Cycle],
         rxbuf[0][Cur(Cycle)].dg.cmd \in Data
  PROVE  LET dg == rxbuf[0][Cur(Cycle)].dg IN
         /\ dg.seg = held[Cycle][1].seg
         /\ Counted(dg) = Counts(layout.cmds[dg.seg], Len(dg.path))
         /\ OnTheWay(dg.path)
<1> DEFINE f == rxbuf[0][Cur(Cycle)]
<1>1. Port /\ Made /\ Cycle \in Threads
  BY PortAssumption DEF RingInv, Inv, PortAssumption
<1>2. Cur(Cycle) = At(Cycle, 1) /\ 1 \in Slots(Cycle) /\ Cur(Cycle) \in Idx /\ Entry(Cycle) = held[Cycle][1]
  BY <1>1, Waits DEF Entry
<1>3. Good(Cycle, 1, f) /\ f \in Frames
  BY <1>1, <1>2 DEF Port, GoodSlots, GoodSlot, GoodRx, Filled, Stacks, Types
<1>4. Wired(f)
  BY <1>1, <1>2 DEF Made, Stacks
<1>5. f.src = "pri"
  BY <1>3, <1>4 DEF Wired, Data, Frames
<1>6. f.dg.own = Cycle /\ f.dg.seg = held[Cycle][1].seg
  BY <1>3, <1>5 DEF Good
<1>7. f.dg.cmd = layout.cmds[f.dg.seg]
  BY <1>4 DEF Wired, Stamped
<1>8. f.dg.path \in {<< >>, Line} \cup Halves
  <2>1. CASE Double
    <3>1. Ways(0) \subseteq Ways(1) /\ Ways(1) = {<< >>, Line} \cup Halves
      BY DEF Ways, Front, Halves
    <3> QED BY <1>2, <2>1, <3>1 DEF RingInv, Routed
  <2>2. CASE ~Double
    BY <1>3, <1>4, <2>2 DEF Good, Wired
  <2> QED BY <2>1, <2>2
<1>9. OnTheWay(f.dg.path)
  BY <1>1, <1>8, WayLengths DEF Port
<1> HIDE DEF f
<1>10. Counted(f.dg) = Counts(f.dg.cmd, Len(f.dg.path))
  BY DEF Counted, Counts, Data, f
<1> QED BY <1>6, <1>7, <1>9, <1>10 DEF f

LEMMA LayoutParts ==
  ASSUME Types, OneSegment
  PROVE  /\ layout.cmds = <<"LRW">> \/ layout.cmds = <<"LRD", "LWR">>
         /\ Len(layout.cmds) \in {1, 2} /\ layout.dc \in BOOLEAN /\ Cmds(Cycle) = layout.cmds
<1>1. layout \in Layouts /\ layout \in Layout
  BY PortAssumption DEF PortAssumption, Types
<1>2. layout.cmds = <<"LRW">> \/ layout.cmds = <<"LRD", "LWR">>
  BY <1>1 DEF OneSegment
<1> QED BY <1>1, <1>2 DEF Layout, Cmds

LEMMA SameWorth ==
  ASSUME UNCHANGED <<came, layout>>
  PROVE  /\ ClocksIn' <=> ClocksIn
         /\ \A k, v : Worth(k, v)' <=> Worth(k, v)
BY DEF ClocksIn, Worth, Counts, Seen

(* What is counted is what was taken.                                        *)
LEMMA TakeTally ==
  ASSUME RingInv, Tally, clean, OneSegment, Take(Cycle)
  PROVE  Tally'
<1> DEFINE N == Len(layout.cmds)
           h == held[Cycle]
           dg == rxbuf[0][Cur(Cycle)].dg
<1>1. Port /\ Types /\ Cycle \in Threads /\ pc[Cycle] = "result"
  BY PortAssumption DEF RingInv, Inv, PortAssumption, Port, Take
<1>2. N \in {1, 2} /\ h \in Seq(Entries) /\ h # << >> /\ Len(h) \in 1 .. N
  <2>1. N \in {1, 2} /\ Cmds(Cycle) = layout.cmds /\ h \in Seq(Entries)
    BY <1>1, LayoutParts DEF Port, Types
  <2>2. Len(h) > 0 /\ Len(h) <= N
    BY <1>1, <2>1 DEF Port, Shapes, Shape
  <2> HIDE DEF N, h
  <2>3. h # << >>
    BY <2>2
  <2> QED BY <2>1, <2>2, <2>3
<1>3. /\ Len(h) \in Nat /\ Len(h) > 0 /\ held'[Cycle] = Tail(h) /\ Len(Tail(h)) = Len(h) - 1
      /\ \A k \in 1 .. Len(h) - 1 : Tail(h)[k] = h[k + 1]
  BY <1>1, <1>2, TailAt DEF Take, Release, Types
<1>4. layout' = layout /\ pc'[Cycle] = IF Len(h) > 1 THEN "look" ELSE "idle"
  BY <1>1 DEF Take, Release, To, line, Types
<1>5. Base = N - Len(h) /\ Base' = N - Len(h) + 1
  <2>1. Base = N - Len(h)
    BY <1>1 DEF Base
  <2>2. pc'[Cycle] \notin {"claim", "out", "dummy"}
    BY <1>4
  <2>3. Base' = N - Len(Tail(h))
    BY <1>3, <1>4, <2>2 DEF Base
  <2> HIDE DEF N, h
  <2> QED BY <1>2, <1>3, <2>1, <2>3
<1>t. /\ \A k \in 1 .. Len(h) : h[k].seg = Base + k
      /\ \A a \in came : a = [seg |-> a.seg, path |-> a.path] /\ a.seg \in 1 .. Base /\ OnTheWay(a.path)
  BY DEF Tally, Slots
<1>6. h[1].seg = Base + 1 /\ Base \in 0 .. N - 1 /\ Base' = Base + 1
  <2> HIDE DEF N, h
  <2> QED BY <1>2, <1>3, <1>5, <1>t
<1>n. layout.cmds = <<"LRW">> \/ layout.cmds = <<"LRD", "LWR">>
  BY <1>1, LayoutParts
<1> HIDE DEF N
<1>7. \A k \in Slots(Cycle)' : held'[Cycle][k].seg = Base' + k
  <2> TAKE k \in Slots(Cycle)'
  <2>1. k \in 1 .. Len(h) - 1 /\ k + 1 \in 1 .. Len(h) /\ held'[Cycle][k] = h[k + 1]
    BY <1>3 DEF Slots
  <2>2. h[k + 1].seg = Base + (k + 1)
    BY <2>1, <1>t
  <2>3. Base' = Base + 1 /\ Base \in Nat /\ k \in Nat
    BY <2>1, <1>2, <1>6
  <2>4. h[k + 1].seg = Base' + k
    BY <2>2, <2>3
  <2> QED BY <2>1, <2>4
<1> PICK s \in {1, 2} : s = Base + 1
  BY <1>2, <1>6
<1>8. CASE 0 \in got[Cycle] /\ dg.cmd \in Data
  <2>0. dg.seg = s /\ Counted(dg) = Counts(layout.cmds[s], Len(dg.path)) /\ OnTheWay(dg.path)
    BY <1>1, <1>6, <1>8, TakenCounts
  <2>n. Counts(layout.cmds[s], Len(dg.path)) \in Nat
    <3>1. \A n \in Nat, x \in Data : Counts(x, n) \in Nat
      BY DEF Counts, Data
    <3>2. layout.cmds[s] \in Data /\ Len(dg.path) \in Nat
      BY <1>n, <1>2, <1>6, <2>0, Bounds DEF Data, N, OnTheWay
    <3> QED BY <3>1, <3>2
  <2> PICK c \in Nat : c = Counts(layout.cmds[s], Len(dg.path))
    BY <2>n
  <2> PICK b : b = [seg |-> s, path |-> dg.path]
    OBVIOUS
  <2>1. dg.seg = s /\ Counted(dg) = c /\ OnTheWay(dg.path)
    BY <2>0
  <2>2. /\ came' = came \cup {b} /\ first' = FALSE
        /\ IF first THEN wkc' \in IF s = 1 THEN {c} ELSE 0 .. Expected
           ELSE wkc' = wkc + c
    BY <1>8, <2>1 DEF Take, Data, Answered
  <2>b. b.seg = s /\ b.path = dg.path
    OBVIOUS
  <2>3. (\A a \in came : a.seg # s) /\ (s = 1 => came = {})
    BY <1>2, <1>6, <1>t
  <2>4. \A a \in came' : a = [seg |-> a.seg, path |-> a.path] /\ a.seg \in 1 .. Base' /\ OnTheWay(a.path)'
    <3>1. \A p : OnTheWay(p)' <=> OnTheWay(p)
      BY DEF OnTheWay
    <3>2. ASSUME NEW a \in came PROVE a = [seg |-> a.seg, path |-> a.path] /\ a.seg \in 1 .. Base' /\ OnTheWay(a.path)
      BY <1>2, <1>6, <1>t, <3>2
    <3>3. b = [seg |-> b.seg, path |-> b.path] /\ b.seg \in 1 .. Base' /\ OnTheWay(b.path)
      BY <1>6, <2>1, <2>b
    <3> QED BY <2>2, <3>1, <3>2, <3>3
  <2>u. \A x, y \in came' : x.seg = y.seg => x = y
    BY <2>2, <2>3, <2>b DEF Tally
  <2>5. ASSUME ClocksIn' PROVE \E v, w \in Nat : Worth(1, v)' /\ Worth(2, w)' /\ wkc' = v + w
    <3>3. layout.dc => Seen(1)'
      BY <2>2, <2>5, <1>4 DEF ClocksIn
    <3>0. \A k, v : Worth(k, v)' <=>
            \/ v = 0 /\ ~Seen(k)'
            \/ \E a \in came' : a.seg = k /\ v = Counts(layout.cmds[k], Len(a.path))
      BY <1>4 DEF Worth, Counts
    <3>w. Worth(s, c)'
      BY <2>2, <2>b, <3>0
    <3>4. CASE s = 1
      <4>1. came = {} /\ wkc = 0 /\ came' = {b}
        BY <2>2, <2>3, <3>4 DEF Tally
      <4>2. wkc' = c
        BY <2>2, <3>4, <4>1
      <4>3. Worth(2, 0)'
        BY <2>b, <3>0, <3>4, <4>1 DEF Seen
      <4>4. wkc' = c + 0
        BY <4>2
      <4> QED BY <3>w, <3>4, <4>3, <4>4
    <3>5. CASE s = 2
      <4>1. layout.dc => Seen(1)
        BY <2>2, <2>b, <3>3, <3>5 DEF Seen
      <4>2. PICK v \in Nat, w \in Nat : Worth(1, v) /\ Worth(2, w) /\ wkc = v + w
        BY <4>1 DEF ClocksIn, Tally
      <4>3. w = 0
        BY <2>3, <3>5, <4>2 DEF Worth
      <4>4. ~first
        <5>1. CASE came = {}
          BY <1>1, <4>1, <5>1 DEF Tally, Seen
        <5>2. CASE came # {}
          BY <5>2 DEF Tally
        <5> QED BY <5>1, <5>2
      <4>5. wkc' = v + c
        BY <2>2, <4>2, <4>3, <4>4
      <4>6. Worth(1, v)'
        <5>1. Seen(1)' => Seen(1)
          BY <2>2, <2>b, <3>5 DEF Seen
        <5>3. CASE v = 0 /\ ~Seen(1)
          BY <3>0, <5>1, <5>3
        <5>4. CASE \E a \in came : a.seg = 1 /\ v = Counts(layout.cmds[1], Len(a.path))
          BY <2>2, <3>0, <5>4
        <5> QED BY <4>2, <5>3, <5>4 DEF Worth
      <4> QED BY <3>w, <3>5, <4>5, <4>6
    <3> QED BY <3>4, <3>5
  <2> QED BY <1>7, <2>2, <2>4, <2>5, <2>u DEF Tally
<1>9. CASE ~(0 \in got[Cycle] /\ dg.cmd \in Data)
  <2>1. UNCHANGED <<wkc, first, came>>
    BY <1>9 DEF Take, Data, group
  <2>2. \A a \in came' : a = [seg |-> a.seg, path |-> a.path] /\ a.seg \in 1 .. Base' /\ OnTheWay(a.path)'
    <3>1. \A p : OnTheWay(p)' <=> OnTheWay(p)
      BY DEF OnTheWay
    <3>2. 1 .. Base \subseteq 1 .. Base'
      BY <1>2, <1>6
    <3> QED BY <1>t, <2>1, <3>1, <3>2
  <2>3. (ClocksIn' <=> ClocksIn) /\ \A k, v : Worth(k, v)' <=> Worth(k, v)
    BY <2>1, <1>4, SameWorth
  <2>4. came' = {} => wkc' = 0 /\ (pc'[Cycle] # "idle" => first' = layout'.dc)
    BY <1>1, <1>4, <2>1 DEF Tally
  <2> QED BY <1>7, <2>1, <2>2, <2>3, <2>4 DEF Tally
<1> QED BY <1>8, <1>9

(* A step of the cycle that takes no answer and claims no index: what it     *)
(* sent stays what it waits for.                                             *)
LEMMA SamePhase ==
  ASSUME Port, Tally, OneSegment, Cycle \in Threads, UNCHANGED <<layout, held, wkc, first, came>>,
         pc[Cycle] # "idle", pc'[Cycle] # "idle",
         \/ pc[Cycle] \in {"claim", "out", "dummy"} <=> pc'[Cycle] \in {"claim", "out", "dummy"}
         \/ Len(held[Cycle]) = Len(layout.cmds)
  PROVE  Tally'
<1>1. /\ Len(held[Cycle]) \in Nat /\ Len(layout.cmds) \in {1, 2}
  BY LayoutParts DEF Port, Types
<1>2. Base' = Base
  <2>1. CASE Len(held[Cycle]) = Len(layout.cmds)
    <3>1. Base = 0
      BY <1>1, <2>1 DEF Base
    <3>2. Base' = 0
      BY <1>1, <2>1 DEF Base
    <3> QED BY <3>1, <3>2
  <2>2. CASE pc[Cycle] \in {"claim", "out", "dummy"} <=> pc'[Cycle] \in {"claim", "out", "dummy"}
    BY <2>2 DEF Base
  <2> QED BY <2>1, <2>2
<1>3. (ClocksIn' <=> ClocksIn) /\ \A k, v : Worth(k, v)' <=> Worth(k, v)
  BY SameWorth
<1>4. Slots(Cycle)' = Slots(Cycle) /\ \A p : OnTheWay(p)' <=> OnTheWay(p)
  BY DEF Slots, OnTheWay
<1> QED BY <1>2, <1>3, <1>4 DEF Tally

LEMMA TallyStep ==
  ASSUME RingInv, Tally, clean, OneSegment, NEW t \in Threads, Step(t)
  PROVE  Tally'
<1>1. Port /\ Types /\ Cycle \in Threads
  BY PortAssumption DEF RingInv, Inv, PortAssumption, Port
<1>o. \A p : OnTheWay(p)' <=> OnTheWay(p)
  BY DEF OnTheWay
<1>2. CASE t # Cycle
  <2>1. held'[Cycle] = held[Cycle] /\ pc'[Cycle] = pc[Cycle] /\ UNCHANGED <<layout, wkc, first, came>>
    BY <1>1, <1>2, GroupStays
  <2>2. (ClocksIn' <=> ClocksIn) /\ \A k, v : Worth(k, v)' <=> Worth(k, v)
    BY <2>1, SameWorth
  <2>3. Slots(Cycle)' = Slots(Cycle) /\ Base' = Base
    BY <2>1 DEF Slots, Base
  <2> QED BY <1>o, <2>1, <2>2, <2>3 DEF Tally
<1>3. CASE t = Cycle
  <2>0. /\ Len(layout.cmds) \in {1, 2} /\ Cmds(Cycle) = layout.cmds
        /\ pc[Cycle] = "idle" => held[Cycle] = << >>
        /\ pc[Cycle] = "claim" => Len(held[Cycle]) < Len(layout.cmds)
        /\ pc[Cycle] \notin {"idle", "claim"} => Len(held[Cycle]) <= Len(layout.cmds)
        /\ held[Cycle] \in Seq(Entries) /\ Len(held[Cycle]) \in Nat
    BY <1>1, LayoutParts DEF Port, Shapes, Shape, Types
  <2>1. CASE Begin(t)
    <3>1. /\ pc'[Cycle] = "claim" /\ held'[Cycle] = << >> /\ layout' = layout
          /\ wkc' = 0 /\ first' = layout.dc /\ came' = {}
      BY <1>1, <1>3, <2>0, <2>1 DEF Begin, To, line, Types
    <3>2. Slots(Cycle)' = {} /\ Worth(1, 0)' /\ Worth(2, 0)'
      BY <3>1 DEF Slots, Worth, Seen
    <3>3. \E v, w \in Nat : Worth(1, v)' /\ Worth(2, w)' /\ wkc' = v + w
      <4>1. 0 \in Nat /\ wkc' = 0 + 0
        BY <3>1
      <4> QED BY <3>2, <4>1
    <3> QED BY <3>1, <3>2, <3>3 DEF Tally
  <2>2. CASE Claim(t)
    <3>1. /\ pc[Cycle] = "claim" /\ pc'[Cycle] = "out" /\ UNCHANGED <<layout, wkc, first, came>>
          /\ held'[Cycle] = Append(held[Cycle], [i |-> Found, seg |-> Len(held[Cycle]) + 1])
      BY <1>1, <1>3, <2>2 DEF Claim, To, line, group, Types
    <3>2. Base = 0 /\ Base' = 0
      BY <3>1 DEF Base
    <3>3. \A k \in Slots(Cycle)' : held'[Cycle][k].seg = k
      <4> TAKE k \in Slots(Cycle)'
      <4> DEFINE e == [i |-> Found, seg |-> Len(held[Cycle]) + 1]
      <4>0. e.seg = Len(held[Cycle]) + 1
        OBVIOUS
      <4> HIDE DEF e
      <4>1. Len(held'[Cycle]) = Len(held[Cycle]) + 1 /\ k \in 1 .. Len(held[Cycle]) + 1
        BY <3>1, <2>0 DEF Slots, e
      <4>2. held'[Cycle][k] = IF k \in 1 .. Len(held[Cycle]) THEN held[Cycle][k] ELSE e
        BY <3>1, <2>0, <4>1 DEF e
      <4>3. k \in 1 .. Len(held[Cycle]) => held[Cycle][k].seg = Base + k
        BY DEF Tally, Slots
      <4> QED BY <2>0, <3>2, <4>0, <4>1, <4>2, <4>3
    <3>4. (ClocksIn' <=> ClocksIn) /\ \A k, v : Worth(k, v)' <=> Worth(k, v)
      BY <3>1, SameWorth
    <3>5. \A k \in Slots(Cycle)' : held'[Cycle][k].seg = Base' + k
      BY <3>2, <3>3, <3>1, <2>0 DEF Slots
    <3> QED BY <1>o, <3>1, <3>2, <3>4, <3>5 DEF Tally
  <2>3. CASE OutFrame(t) \/ OutDummy(t)
    <3>1. /\ UNCHANGED <<layout, held, wkc, first, came>>
          /\ pc[Cycle] \in {"out", "dummy"} /\ pc'[Cycle] \in {"dummy", Sent(Cycle)}
      BY <1>1, <1>3, <2>3 DEF OutFrame, OutDummy, To, line, group, Types
    <3>2. Sent(Cycle) = "claim" \/ (Sent(Cycle) = "look" /\ Len(held[Cycle]) = Len(layout.cmds))
      BY <2>0, <3>1 DEF Sent
    <3> QED BY <1>1, <3>1, <3>2, SamePhase
  <2>4. CASE Look(t) \/ RecvNothing(t) \/ RecvFrame(t) \/ Store(t) \/ WaitMore(t) \/ Waited(t) \/ Decide(t) \/ Resend(t)
    <3>1. UNCHANGED <<layout, held, wkc, first, came>>
      BY <2>4 DEF Look, RecvNothing, RecvFrame, Store, WaitMore, Waited, Decide, Resend, line, group
    <3>2. pc[Cycle] \in {"look", "recv", "store", "test", "decide", "resend"}
      BY <1>3, <2>4 DEF Look, RecvNothing, RecvFrame, Store, WaitMore, Waited, Decide, Resend
    <3>3. pc'[Cycle] \in {"look", "recv", "store", "test", "decide", "resend", "result"}
      BY <1>1, <1>3, <2>4 DEF Look, RecvNothing, RecvFrame, Store, WaitMore, Waited, Decide, Resend,
                         Gets, Proceed, To, Types
    <3> QED BY <1>1, <3>1, <3>2, <3>3, SamePhase
  <2>5. CASE Take(t)
    BY <1>3, <2>5, TakeTally
  <2> QED BY <1>3, <2>1, <2>2, <2>3, <2>4, <2>5 DEF Step, Retry, Return
<1> QED BY <1>2, <1>3

LEMMA CountInvStep == OneSegment /\ RingInv /\ CountInv /\ [Next]_vars => CountInv'
<1> SUFFICES ASSUME OneSegment, RingInv, CountInv, [Next]_vars, clean' PROVE Tally'
  BY DEF CountInv
<1>1. CASE UNCHANGED vars
  <2>1. UNCHANGED <<layout, held, pc, wkc, first, came, clean>>
    BY <1>1 DEF vars, line, port, thread, group
  <2>2. Tally
    BY <2>1 DEF CountInv
  <2>3. (ClocksIn' <=> ClocksIn) /\ \A k, v : Worth(k, v)' <=> Worth(k, v)
    BY <2>1, SameWorth
  <2>4. Slots(Cycle)' = Slots(Cycle) /\ Base' = Base /\ \A p : OnTheWay(p)' <=> OnTheWay(p)
    BY <2>1 DEF Slots, Base, OnTheWay
  <2> QED BY <2>1, <2>2, <2>3, <2>4 DEF Tally
<1>2. ASSUME NEW t \in Threads, Step(t) PROVE Tally'
  <2>1. clean /\ Tally
    BY <1>2, LineIsKept DEF CountInv
  <2> QED BY <1>2, <2>1, TallyStep
<1> QED BY <1>1, <1>2 DEF Next

(* What the answers to one datagram count for: those of as many slaves as it *)
(* has passed, and of none when there is no answer.                          *)
LEMMA WorthOf ==
  ASSUME Tally, NEW k, NEW v, Worth(k, v), layout.cmds[k] \in Data
  PROVE  \E n \in 0 .. Slaves : v = Counts(layout.cmds[k], n) /\ (n = Slaves <=> InFull(k))
<1>1. Slaves \in Nat \ {0}
  BY Bounds
<1>2. ASSUME NEW a \in came, a.seg = k, v = Counts(layout.cmds[k], Len(a.path))
      PROVE  Len(a.path) \in 0 .. Slaves /\ (Len(a.path) = Slaves <=> InFull(k))
  <2>1. a = [seg |-> k, path |-> a.path] /\ OnTheWay(a.path)
    BY <1>2 DEF Tally
  <2>2. a.path = Line => InFull(k)
    BY <2>1 DEF InFull
  <2>3. InFull(k) => a.path = Line
    <3> DEFINE b == [seg |-> k, path |-> Line]
    <3>1. b.seg = k /\ b.path = Line
      OBVIOUS
    <3> HIDE DEF b
    <3>2. InFull(k) => b \in came
      BY DEF InFull, b
    <3> QED BY <1>2, <3>1, <3>2 DEF Tally
  <2> QED BY <2>1, <2>2, <2>3 DEF OnTheWay
<1>3. CASE v = 0 /\ ~Seen(k)
  <2>1. ~InFull(k)
    <3> DEFINE b == [seg |-> k, path |-> Line]
    <3>1. b.seg = k
      OBVIOUS
    <3> HIDE DEF b
    <3> QED BY <1>3, <3>1 DEF InFull, Seen, b
  <2>2. v = Counts(layout.cmds[k], 0)
    BY <1>3 DEF Counts, Data
  <2> QED BY <1>1, <2>1, <2>2
<1>4. CASE \E a \in came : a.seg = k /\ v = Counts(layout.cmds[k], Len(a.path))
  BY <1>2, <1>4
<1> QED BY <1>3, <1>4 DEF Worth

(* The working counter that cycleWorker compares with the expected one is    *)
(* short exactly when an answer is missing or has not passed all slaves, for *)
(* any number of slaves, threads and buffers, in both modes of the port and  *)
(* whatever is lost, with the process data in one segment.                   *)
THEOREM ShortWhenMissing == ASSUME OneSegment PROVE Spec => []ShortIffMissing
<1>1. Init => CountInv
  <2> SUFFICES ASSUME Init PROVE Tally
    BY DEF CountInv
  <2>1. /\ pc[Cycle] = "idle" /\ held[Cycle] = << >> /\ came = {} /\ wkc = 0
    BY PortAssumption DEF Init, PortAssumption
  <2>2. Slots(Cycle) = {} /\ Worth(1, 0) /\ Worth(2, 0)
    BY <2>1 DEF Slots, Worth, Seen
  <2>3. \E v, w \in Nat : Worth(1, v) /\ Worth(2, w) /\ wkc = v + w
    <3>1. 0 \in Nat /\ wkc = 0 + 0
      BY <2>1
    <3> QED BY <2>2, <3>1
  <2> QED BY <2>1, <2>2, <2>3 DEF Tally
<1>2. RingInv /\ CountInv => ShortIffMissing
  <2> SUFFICES ASSUME RingInv, CountInv, clean, pc[Cycle] = "idle", ClocksIn
               PROVE  wkc < Expected <=> \E k \in 1 .. Len(layout.cmds) : ~InFull(k)
    BY DEF ShortIffMissing, ClocksIn
  <2>1. Port /\ Types /\ Tally /\ Cycle \in Threads /\ Slaves \in Nat \ {0}
    BY PortAssumption, Bounds DEF RingInv, Inv, CountInv, Port, PortAssumption
  <2>2. held[Cycle] = << >>
    BY <2>1 DEF Port, Shapes, Shape
  <2>3. layout.cmds = <<"LRW">> \/ layout.cmds = <<"LRD", "LWR">>
    BY <2>1, LayoutParts
  <2>4. PICK v \in Nat, w \in Nat : Worth(1, v) /\ Worth(2, w) /\ wkc = v + w
    BY <2>1 DEF Tally
  <2>5. CASE layout.cmds = <<"LRW">>
    <3>0. 1 .. Len(layout.cmds) = {1}
      <4>1. Len(layout.cmds) = 1 /\ 1 .. 1 = {1}
        BY <2>5
      <4> QED BY <4>1
    <3>1. w = 0
      <4>1. Base = 1
        BY <2>1, <2>2, <2>5 DEF Base
      <4>2. \A a \in came : a.seg \in 1 .. 1
        BY <2>1, <4>1 DEF Tally
      <4>3. \A a \in came : a.seg # 2
        BY <4>2
      <4> QED BY <2>4, <4>3 DEF Worth
    <3>2. PICK n \in 0 .. Slaves : v = Counts("LRW", n) /\ (n = Slaves <=> InFull(1))
      <4>1. layout.cmds[1] = "LRW" /\ "LRW" \in Data
        BY <2>5 DEF Data
      <4> QED BY <2>1, <2>4, <4>1, WorthOf
    <3>3. v = 3 * n
      BY <3>2 DEF Counts
    <3>4. wkc < Expected <=> n # Slaves
      BY <2>1, <2>4, <3>1, <3>3 DEF Expected
    <3> QED BY <3>0, <3>2, <3>4
  <2>6. CASE layout.cmds = <<"LRD", "LWR">>
    <3>0. 1 .. Len(layout.cmds) = {1, 2}
      <4>1. Len(layout.cmds) = 2 /\ 1 .. 2 = {1, 2}
        BY <2>6
      <4> QED BY <4>1
    <3>1. PICK n \in 0 .. Slaves : v = Counts("LRD", n) /\ (n = Slaves <=> InFull(1))
      <4>1. layout.cmds[1] = "LRD" /\ "LRD" \in Data
        BY <2>6 DEF Data
      <4> QED BY <2>1, <2>4, <4>1, WorthOf
    <3>2. PICK m \in 0 .. Slaves : w = Counts("LWR", m) /\ (m = Slaves <=> InFull(2))
      <4>1. layout.cmds[2] = "LWR" /\ "LWR" \in Data
        BY <2>6 DEF Data
      <4> QED BY <2>1, <2>4, <4>1, WorthOf
    <3>3. v = n /\ w = 2 * m
      BY <3>1, <3>2 DEF Counts
    <3>4. wkc < Expected <=> (n # Slaves \/ m # Slaves)
      BY <2>1, <2>4, <3>3 DEF Expected
    <3> QED BY <3>0, <3>1, <3>2, <3>4
  <2> QED BY <2>3, <2>5, <2>6
<1> QED BY <1>1, <1>2, CountInvStep, RingInvariant, PTL DEF Spec
=============================================================================
