------------------------------ MODULE NicPort ------------------------------
(***************************************************************************)
(* SOEM's port: the ring of frame indexes, the receive buffers and the two *)
(* sockets that the cycle thread and the SDO callers share, with the       *)
(* datagram primitives on top and the process data exchange of the cycle   *)
(* thread.  A thread that reads the socket gets whatever frame comes next  *)
(* and stores it for its owner; the redundant mode routes every datagram   *)
(* over two sockets.                                                       *)
(***************************************************************************)
EXTENDS Integers, Sequences, FiniteSets

CONSTANTS
  MaxBuf,   (* EC_MAXBUF                                                     *)
  Threads,  (* everybody who calls SOEM                                      *)
  Cycle,    (* the one of them that exchanges process data                   *)
  Slaves,   (* number of slaves on the line                                  *)
  Layouts,  (* ways the process data is laid out, see Layout                 *)
  RedModes, (* which of "none" and "double" port->redstate can be            *)
  Depth,    (* bound: frames a socket holds before it drops them             *)
  SendFails (* TRUE: send() may fail                                         *)

Idx    == 0 .. MaxBuf - 1
Stacks == {0, 1}                                 \* port->stack, redport->stack
Line   == [k \in 1 .. Slaves |-> k]                \* all slaves in their order

(* cmds: the datagrams that carry the process data, one frame each; dc:    *)
(* the first of them has the FRMW datagram of the distributed clocks.      *)
Layout == [cmds : Seq({"LRW", "LRD", "LWR"}), dc : BOOLEAN]

ASSUME PortAssumption ==
  /\ MaxBuf \in Nat \ {0}
  /\ Cycle \in Threads /\ IsFiniteSet(Threads)
  /\ Slaves \in Nat \ {0}
  /\ Layouts \subseteq Layout
  /\ \A l \in Layouts : Len(l.cmds) \in 1 .. MaxBuf
  /\ RedModes \subseteq {"none", "double"}
  /\ Depth \in Nat \ {0}
  /\ SendFails \in BOOLEAN

VARIABLES
  redstate, (* port->redstate                                                *)
  cut,      (* the line is broken behind this slave; -1: it is whole         *)
  layout,   (* group 0 of the slaves                                         *)
  lastidx,  (* port->lastidx                                                 *)
  stat,     (* rxbufstat of both stacks                                      *)
  txbuf,    (* the datagram in each transmit buffer                          *)
  rxbuf,    (* the frame in each receive buffer of both stacks               *)
  sock,     (* frames waiting in the two sockets                             *)
  held,     (* per thread: <<index, datagram>> it has to take an answer for  *)
  pc,       (* per thread: where it is                                       *)
  stack,    (* per thread: the stack it is reading                           *)
  resent,   (* per thread: ecx_waitinframe_red has sent the frame again      *)
  got,      (* per thread: stacks with wkc > EC_NOFRAME                      *)
  pend,     (* per thread: the frame of somebody else it is about to store   *)
  wkc,      (* what ecx_receive_processdata_group has added up               *)
  first,    (* its variable first: the DC datagram is still to come          *)
  came,     (* the answers taken in this exchange: of which datagram, and    *)
            (* which slaves had processed it                                 *)
  clean,    (* history: no index was handed out while it was in use, and     *)
            (* no send has failed                                            *)
  missed    (* history: the indexes in use of which a redundant port lost a  *)
            (* frame that the cut let through, or did not wait for it        *)

port   == <<lastidx, stat, txbuf, rxbuf, sock>>
thread == <<held, pc, stack, resent, got, pend>>
group  == <<wkc, first, came>>
line   == <<redstate, cut, layout>>
vars   == <<line, port, thread, group, clean, missed>>

(* A datagram is [own, seg, cmd, path]: own and seg say whose it is, path, *)
(* which slaves processed it; a frame is [idx, dg, src, fresh]: src is the *)
(* socket it was sent from, "pri" or "sec", and fresh, that its index has  *)
(* not been given back since.                                              *)
Dummy    == [own |-> "dummy", seg |-> 1, cmd |-> "BRD", path |-> << >>]
NoFrame  == [idx |-> 0, dg |-> Dummy, src |-> "pri", fresh |-> FALSE]
Foreign  == [NoFrame EXCEPT !.idx = MaxBuf]      \* of an index nobody has

(* ecx_setupnic, and ecx_init_redundant for the second socket.             *)
Init ==
  /\ redstate \in RedModes
  /\ cut \in IF redstate = "none" THEN {-1} ELSE -1 .. Slaves
  /\ layout \in Layouts
  /\ lastidx = 0
  /\ stat  = [s \in Stacks |-> [i \in Idx |-> "empty"]]
  /\ txbuf = [i \in Idx |-> Dummy]
  /\ rxbuf = [s \in Stacks |-> [i \in Idx |-> NoFrame]]
  /\ sock  = [s \in Stacks |-> << >>]
  /\ held  = [t \in Threads |-> << >>]
  /\ pc    = [t \in Threads |-> "idle"]
  /\ stack = [t \in Threads |-> 0]
  /\ resent = [t \in Threads |-> FALSE]
  /\ got   = [t \in Threads |-> {}]
  /\ pend  = [t \in Threads |-> NoFrame]
  /\ wkc = 0 /\ first = FALSE /\ came = {} /\ clean = TRUE /\ missed = {}
-----------------------------------------------------------------------------
Double == redstate = "double"

(* The datagrams a call sends: one for the primitives, a layout for the    *)
(* process data.                                                           *)
Cmds(t) == IF t = Cycle THEN layout.cmds ELSE <<"FP">>


(* Frames are sent for the newest entry and taken for the oldest.          *)
Entry(t) == IF pc[t] \in {"out", "dummy"} THEN held[t][Len(held[t])] ELSE held[t][1]
Cur(t)   == Entry(t).i
Mine(t, f) == f.fresh /\ f.dg.own = t /\ f.dg.seg = Entry(t).seg

To(t, p) == pc' = [pc EXCEPT ![t] = p]

(* Assumption: on a redundant port the threads take turns.  With two of    *)
(* them a frame that comes back over the secondary socket before the dummy *)
(* is sent is thrown away by the other one, and the dummy, which comes back*)
(* over the primary socket, is taken for the answer.                       *)
Begin(t) ==
  /\ pc[t] = "idle"
  /\ Double => \A u \in Threads : pc[u] = "idle"
  /\ To(t, "claim")
  /\ IF t = Cycle THEN wkc' = 0 /\ first' = layout.dc /\ came' = {} ELSE UNCHANGED group
  /\ UNCHANGED <<line, port, held, stack, resent, got, pend, clean, missed>>

(* ecx_getindex: the next empty index behind lastidx; when there is none,  *)
(* the search comes round to where it began and takes that one.            *)
Free    == {i \in Idx : stat[0][i] = "empty"}
Dist(i) == (i + MaxBuf - lastidx - 1) % MaxBuf
Found   == IF Free = {} THEN (lastidx + 1) % MaxBuf
           ELSE CHOOSE i \in Free : \A j \in Free : Dist(i) <= Dist(j)

(* Assumption: when the ring has come round to an index, nobody is still   *)
(* about to store a frame of its earlier uses, and nobody takes what is    *)
(* left of them in the sockets for a frame of the new one.                 *)
Outdated(i, f) == IF f.idx = i THEN Foreign ELSE f
ComeRound(i)   ==
  /\ \A u \in Threads : pc[u] = "store" => pend[u].idx # i
  /\ sock' = [s \in Stacks |-> [k \in 1 .. Len(sock[s]) |-> Outdated(i, sock[s][k])]]

(* Mutant: the index is not marked EC_BUF_ALLOC.                           *)
Claim_unmarked(t) ==
  LET i   == Found
      seg == Len(held[t]) + 1
  IN
  /\ pc[t] = "claim"
  /\ ComeRound(i)
  /\ clean' = (clean /\ i \in Free)
  /\ lastidx' = i
  /\ txbuf' = [txbuf EXCEPT ![i] = [own |-> t, seg |-> seg, cmd |-> Cmds(t)[seg], path |-> << >>]]
  /\ held' = [held EXCEPT ![t] = Append(@, [i |-> i, seg |-> seg])]
  /\ To(t, "out")
  /\ UNCHANGED <<line, stat, rxbuf, stack, resent, got, pend, group, missed>>

(* ecx_getindex and ecx_setupdatagram, which fills the transmit buffer.    *)
Claim(t) ==
  LET i   == Found
      seg == Len(held[t]) + 1
  IN
  /\ pc[t] = "claim"
  /\ ComeRound(i)
  /\ clean' = (clean /\ i \in Free)
  /\ lastidx' = i
  /\ stat' = [s \in Stacks |-> IF s = 0 \/ redstate = "double"
                               THEN [stat[s] EXCEPT ![i] = "alloc"] ELSE stat[s]]
  /\ txbuf' = [txbuf EXCEPT ![i] = [own |-> t, seg |-> seg, cmd |-> Cmds(t)[seg], path |-> << >>]]
  /\ held' = [held EXCEPT ![t] = Append(@, [i |-> i, seg |-> seg])]
  /\ To(t, "out")
  /\ UNCHANGED <<line, rxbuf, stack, resent, got, pend, group, missed>>
-----------------------------------------------------------------------------
(* The line is external.  A frame sent from side 0 or 1 passes the slaves  *)
(* up to the cut and comes back to the socket it was sent from, or passes  *)
(* all of them and arrives at the other socket; slaves process it in the   *)
(* direction away from the primary socket only.                            *)
Route(side) ==
  IF ~Double THEN {[to |-> 0, by |-> Line]}
  ELSE IF cut = -1
    THEN {IF side = 0 THEN [to |-> 1, by |-> Line] ELSE [to |-> 0, by |-> << >>]}
  ELSE IF side = 0
    THEN {[to |-> 0, by |-> SubSeq(Line, 1, cut)] : c \in {c \in {cut} : c > 0}}
    ELSE {[to |-> 1, by |-> SubSeq(Line, cut + 1, Slaves)] : c \in {c \in {cut} : c < Slaves}}

(* Any frame may get lost, on the line or in a full socket.                *)
Transmit(i, dg, side, src) ==
  \/ /\ UNCHANGED sock
     /\ missed' = IF Double /\ Route(side) # {} THEN missed \cup {i} ELSE missed
  \/ \E r \in Route(side) :
       /\ Len(sock[r.to]) < Depth
       /\ sock' = [sock EXCEPT ![r.to] = Append(@,
            [idx |-> i, dg |-> [dg EXCEPT !.path = @ \o r.by], src |-> src, fresh |-> TRUE])]
       /\ UNCHANGED missed

(* After its last frame a call turns to the answers.                       *)
Sent(t) == IF Len(held[t]) < Len(Cmds(t)) THEN "claim" ELSE "look"

(* ecx_outframe on the primary stack.                                      *)
OutFrame(t) ==
  LET i == Cur(t) IN
  /\ pc[t] = "out"
  /\ \/ /\ stat' = [stat EXCEPT ![0][i] = "tx"]
        /\ Transmit(i, txbuf[i], 0, "pri")
        /\ UNCHANGED clean
     \/ /\ SendFails
        /\ stat' = [stat EXCEPT ![0][i] = "empty"]
        /\ clean' = FALSE
        /\ UNCHANGED <<sock, missed>>
  /\ To(t, IF Double THEN "dummy" ELSE Sent(t))
  /\ UNCHANGED <<line, lastidx, txbuf, rxbuf, held, stack, resent, got, pend, group>>

(* The second half of ecx_outframe_red: a dummy on the secondary socket.   *)
OutDummy(t) ==
  LET i == Cur(t) IN
  /\ pc[t] = "dummy"
  /\ \/ stat' = [stat EXCEPT ![1][i] = "tx"] /\ Transmit(i, Dummy, 1, "sec") /\ UNCHANGED clean
     \/ SendFails /\ stat' = [stat EXCEPT ![1][i] = "empty"] /\ clean' = FALSE /\ UNCHANGED <<sock, missed>>
  /\ To(t, Sent(t))
  /\ UNCHANGED <<line, lastidx, txbuf, rxbuf, held, stack, resent, got, pend, group>>
-----------------------------------------------------------------------------
(* What follows one call of ecx_inframe in the loop that waits.            *)
Proceed(t, g) ==
  IF ~resent[t] /\ stack[t] = 0 /\ Double /\ 1 \notin g
  THEN To(t, "look") /\ stack' = [stack EXCEPT ![t] = 1]
  ELSE To(t, "test") /\ UNCHANGED stack

Gets(t, s) ==
  /\ got' = [got EXCEPT ![t] = @ \cup {s}]
  /\ Proceed(t, got[t] \cup {s})

(* Mutant: the buffer is taken while its frame is still on its way.        *)
Look_sent(t) ==
  LET s == stack[t]
      i == Cur(t)
  IN
  /\ pc[t] = "look"
  /\ IF stat[s][i] \in {"tx", "rcvd"}
     THEN stat' = [stat EXCEPT ![s][i] = "complete"] /\ Gets(t, s)
     ELSE To(t, "recv") /\ UNCHANGED <<stat, got, stack>>
  /\ UNCHANGED <<line, lastidx, txbuf, rxbuf, sock, held, resent, pend, group, clean, missed>>

(* ecx_inframe: the frame is in the buffer already, or the socket is read. *)
Look(t) ==
  LET s == stack[t]
      i == Cur(t)
  IN
  /\ pc[t] = "look"
  /\ IF stat[s][i] = "rcvd"
     THEN stat' = [stat EXCEPT ![s][i] = "complete"] /\ Gets(t, s)
     ELSE To(t, "recv") /\ UNCHANGED <<stat, got, stack>>
  /\ UNCHANGED <<line, lastidx, txbuf, rxbuf, sock, held, resent, pend, group, clean, missed>>

(* The frame may still be on its way.                                      *)
RecvNothing(t) ==
  /\ pc[t] = "recv"
  /\ \A u \in Threads : pc[u] # "store"                      \* rx_mutex
  /\ Proceed(t, got[t])
  /\ UNCHANGED <<line, port, held, resent, got, pend, group, clean, missed>>

RecvFrame(t) ==
  LET s == stack[t]
      i == Cur(t)
      f == Head(sock[s])
  IN
  /\ pc[t] = "recv"
  /\ \A u \in Threads : pc[u] # "store"                      \* rx_mutex
  /\ sock[s] # << >>
  /\ sock' = [sock EXCEPT ![s] = Tail(@)]
  /\ \/ /\ f.idx = i
        /\ rxbuf' = [rxbuf EXCEPT ![s][i] = f]
        /\ stat' = [stat EXCEPT ![s][i] = "complete"]
        /\ Gets(t, s)
        /\ UNCHANGED pend
     \/ /\ f.idx # i /\ f.idx \in Idx /\ stat[s][f.idx] = "tx"
        /\ pend' = [pend EXCEPT ![t] = f]
        /\ To(t, "store")
        /\ UNCHANGED <<rxbuf, stat, got, stack>>
     \/ /\ f.idx # i /\ (f.idx \in Idx => stat[s][f.idx] # "tx")
        /\ Proceed(t, got[t])
        /\ UNCHANGED <<rxbuf, stat, got, pend>>
  /\ UNCHANGED <<line, lastidx, txbuf, held, resent, group, clean, missed>>

(* The buffer is filled and marked although its owner, who does not hold   *)
(* rx_mutex to give an index back, may have given up in the meantime.      *)
Store(t) ==
  LET s == stack[t]
      f == pend[t]
  IN
  /\ pc[t] = "store"
  /\ rxbuf' = [rxbuf EXCEPT ![s][f.idx] = f]
  /\ stat' = [stat EXCEPT ![s][f.idx] = "rcvd"]
  /\ pend' = [pend EXCEPT ![t] = NoFrame]
  /\ Proceed(t, got[t])
  /\ UNCHANGED <<line, lastidx, txbuf, sock, held, resent, got, group, clean, missed>>

(* A frame of the index is in a socket, in a hand or in a buffer.          *)
UnderWay(t) ==
  \/ \E s \in Stacks : stat[s][Cur(t)] = "rcvd" \/ \E k \in 1 .. Len(sock[s]) : sock[s][k].idx = Cur(t)
  \/ \E u \in Threads : pc[u] = "store" /\ pend[u].idx = Cur(t)

Complete(t) == IF resent[t] THEN 1 \in got[t] ELSE 0 \in got[t] /\ (Double => 1 \in got[t])

(* The end of the loop in ecx_waitinframe_red: the frames are there, or    *)
(* 2 ms are over, however late a frame may still come.                     *)
WaitMore(t) ==
  /\ pc[t] = "test"
  /\ ~Complete(t)
  /\ To(t, "look")
  /\ stack' = [stack EXCEPT ![t] = IF resent[t] \/ 0 \in got[t] THEN 1 ELSE 0]
  /\ UNCHANGED <<line, port, held, resent, got, pend, group, clean, missed>>

Waited(t) ==
  /\ pc[t] = "test"
  /\ missed' = IF Double /\ ~Complete(t) /\ UnderWay(t) THEN missed \cup {Cur(t)} ELSE missed
  /\ IF resent[t] /\ 1 \in got[t]
     THEN /\ rxbuf' = [rxbuf EXCEPT ![0][Cur(t)] = rxbuf[1][Cur(t)]]
          /\ got' = [got EXCEPT ![t] = @ \cup {0}]
     ELSE UNCHANGED <<rxbuf, got>>
  /\ To(t, IF Double /\ ~resent[t] THEN "decide" ELSE "result")
  /\ UNCHANGED <<line, lastidx, stat, txbuf, sock, held, stack, resent, pend, group, clean>>

(* The decision tree of the redundant mode.                                *)
Source(t, s) == IF s \in got[t] THEN rxbuf[s][Cur(t)].src ELSE "none"

(* Mutant: what came back over the primary socket is not sent on.          *)
Decide_afresh(t) ==
  /\ pc[t] = "decide"
  /\ \/ /\ Source(t, 0) = "sec" /\ Source(t, 1) = "pri"
        /\ rxbuf' = [rxbuf EXCEPT ![0][Cur(t)] = rxbuf[1][Cur(t)]]
        /\ To(t, "result")
     \/ /\ Source(t, 0) \in {"none", "pri"} /\ Source(t, 1) = "sec"
        /\ To(t, "resend")
        /\ UNCHANGED rxbuf
  /\ UNCHANGED <<line, lastidx, stat, txbuf, sock, held, stack, resent, got, pend, group, clean, missed>>

Decide(t) ==
  LET i == Cur(t) IN
  /\ pc[t] = "decide"
  /\ \/ /\ Source(t, 0) = "sec" /\ Source(t, 1) = "pri"      \* the normal case
        /\ rxbuf' = [rxbuf EXCEPT ![0][i] = rxbuf[1][i]]
        /\ To(t, "result")
        /\ UNCHANGED txbuf
     \/ /\ Source(t, 0) \in {"none", "pri"} /\ Source(t, 1) = "sec"
        /\ txbuf' = IF Source(t, 0) = "pri" THEN [txbuf EXCEPT ![i] = rxbuf[0][i].dg] ELSE txbuf
        /\ To(t, "resend")
        /\ UNCHANGED rxbuf
     \/ /\ Source(t, 1) # "sec" \/ Source(t, 0) = "sec"
        /\ ~(Source(t, 0) = "sec" /\ Source(t, 1) = "pri")
        /\ To(t, "result")
        /\ UNCHANGED <<txbuf, rxbuf>>
  /\ UNCHANGED <<line, lastidx, stat, sock, held, stack, resent, got, pend, group, clean, missed>>

(* ecx_outframe on the secondary stack, with the primary source address.   *)
Resend(t) ==
  LET i == Cur(t) IN
  /\ pc[t] = "resend"
  /\ stat' = [stat EXCEPT ![1][i] = "tx"]
  /\ Transmit(i, txbuf[i], 1, "pri")
  /\ resent' = [resent EXCEPT ![t] = TRUE]
  /\ got' = [got EXCEPT ![t] = @ \ {1}]
  /\ stack' = [stack EXCEPT ![t] = 1]
  /\ To(t, "look")
  /\ UNCHANGED <<line, lastidx, txbuf, rxbuf, held, pend, group, clean>>
-----------------------------------------------------------------------------
(* ecx_srconfirm: time is left and no frame has come.                      *)
Retry(t) ==
  /\ pc[t] = "result"
  /\ t # Cycle /\ 0 \notin got[t]
  /\ To(t, "out")
  /\ resent' = [resent EXCEPT ![t] = FALSE]
  /\ got' = [got EXCEPT ![t] = {}]
  /\ stack' = [stack EXCEPT ![t] = 0]
  /\ UNCHANGED <<line, port, held, pend, group, clean, missed>>

(* ecx_setbufstat(idx, EC_BUF_EMPTY).  What is still on its way is late,   *)
(* what it says and what the buffers hold is of no use to anybody.         *)
Late(i, f) == IF f.idx = i THEN [NoFrame EXCEPT !.idx = i] ELSE f

Release(t) ==
  LET i == Cur(t) IN
  /\ stat' = [s \in Stacks |-> IF s = 0 \/ redstate = "double"
                               THEN [stat[s] EXCEPT ![i] = "empty"] ELSE stat[s]]
  /\ sock' = [s \in Stacks |-> [k \in 1 .. Len(sock[s]) |-> Late(i, sock[s][k])]]
  /\ rxbuf' = [s \in Stacks |-> [rxbuf[s] EXCEPT ![i] = NoFrame]]
  /\ pend' = [u \in Threads |-> Late(i, pend[u])]
  /\ held' = [held EXCEPT ![t] = Tail(@)]
  /\ resent' = [resent EXCEPT ![t] = FALSE]
  /\ got' = [got EXCEPT ![t] = {}]
  /\ stack' = [stack EXCEPT ![t] = 0]
  /\ To(t, IF Len(held[t]) > 1 THEN "look" ELSE "idle")
  /\ txbuf' = [txbuf EXCEPT ![i] = Dummy]
  /\ missed' = missed \ {i}
  /\ UNCHANGED <<line, lastidx, clean>>

(* The primitives end here, with the data copied when wkc > 0.             *)
Return(t) ==
  /\ pc[t] = "result"
  /\ t # Cycle
  /\ Release(t)
  /\ UNCHANGED group

(* Every slave has outputs and inputs: LRW counts it three times.          *)
Expected == 3 * Slaves
Counted(dg) == CASE dg.cmd = "LRW" -> 3 * Len(dg.path)
                 [] dg.cmd = "LRD" -> Len(dg.path)
                 [] dg.cmd = "LWR" -> 2 * Len(dg.path)
                 [] OTHER -> 0

Answered(dg) == [seg |-> dg.seg, path |-> dg.path]

(* Mutant: an answer counts although no frame was received.                *)
Take_blind(t) ==
  /\ pc[t] = "result"
  /\ t = Cycle
  /\ came' = came \cup {[seg |-> Entry(t).seg, path |-> Line]} /\ wkc' = wkc + Counted(rxbuf[0][Cur(t)].dg) /\ first' = FALSE
  /\ Release(t)

(* One round of ecx_receive_processdata_group.  While first is set, the    *)
(* counter is read behind the first DCl bytes, which is where the datagram *)
(* ends that was sent with the clocks; in any other it is some data.       *)
Take(t) ==
  LET dg == rxbuf[0][Cur(t)].dg IN
  /\ pc[t] = "result"
  /\ t = Cycle
  /\ IF 0 \in got[t] /\ dg.cmd \in {"LRD", "LRW", "LWR"}
     THEN /\ came' = came \cup {Answered(dg)}
          /\ IF first
             THEN wkc' \in IF dg.seg = 1 THEN {Counted(dg)} ELSE 0 .. Expected
             ELSE wkc' = wkc + Counted(dg)
          /\ first' = FALSE
     ELSE UNCHANGED group
  /\ Release(t)

Step(t) ==
  \/ Begin(t) \/ Claim(t) \/ OutFrame(t) \/ OutDummy(t)
  \/ Look(t) \/ RecvNothing(t) \/ RecvFrame(t) \/ Store(t)
  \/ WaitMore(t) \/ Waited(t) \/ Decide(t) \/ Resend(t)
  \/ Retry(t) \/ Return(t) \/ Take(t)

Next == \E t \in Threads : Step(t)

Spec == Init /\ [][Next]_vars
-----------------------------------------------------------------------------
Used(t) == {held[t][k].i : k \in 1 .. Len(held[t])}

(* ecx_getindex gives out an "unused index": no two calls, of the cycle    *)
(* thread and of SDO callers, ever work on the same buffers.  An index that*)
(* no call holds is empty, or has leaked: it was marked received after it  *)
(* was given back.  A call that needs an index finds an empty one as long  *)
(* as all that can be needed at a time fit beside those that have leaked.  *)
(* Until an index in use was given out, or a send has failed.              *)
Exclusive  == \A t, u \in Threads : t # u => Used(t) \cap Used(u) = {}
Unheld     == Idx \ UNION {Used(t) : t \in Threads}
Leaked     == {i \in Unheld : stat[0][i] = "rcvd"}
Demand     == Len(layout.cmds) + Cardinality(Threads) - 1
IndexesKept ==
  clean => /\ Exclusive
           /\ \A i \in Unheld \ Leaked : stat[0][i] = "empty"
           /\ Cardinality(Leaked) + Demand <= MaxBuf =>
                \A t \in Threads : pc[t] = "claim" => Free # {}

(* Frames come in any order and are read by anybody; what a call takes for *)
(* its answer (wkc > EC_NOFRAME) is the answer to its own datagram, of this*)
(* use of the index; or, on a redundant port that has missed a frame of    *)
(* this use, the dummy of this use.                                        *)
AnswerOwn ==
  clean => \A t \in Threads : pc[t] = "result" /\ 0 \in got[t] =>
    LET f == rxbuf[0][Cur(t)] IN
    Mine(t, f) \/ (Cur(t) \in missed /\ f.fresh /\ f.dg.own = "dummy")

(* In the redundant mode, wherever the line is cut, what is taken for an   *)
(* answer has passed no slave twice and those it has passed in the order   *)
(* of the line; and all of them, unless a frame of this datagram was lost  *)
(* or late, for then the decision tree makes do with half an answer or the *)
(* dummy.                                                                  *)
Halves == IF cut = -1 THEN {Line} ELSE {SubSeq(Line, 1, cut), SubSeq(Line, cut + 1, Slaves)}
RedundantComplete ==
  clean /\ Double => \A t \in Threads : pc[t] = "result" /\ 0 \in got[t] =>
    LET path == rxbuf[0][Cur(t)].dg.path IN
    /\ path \in {<< >>, Line} \cup Halves
    /\ Cur(t) \in missed \/ path = Line

(* cycleWorker compares the working counter with the expected one: it is   *)
(* short exactly when an answer is missing or has not passed all slaves,   *)
(* with LRW as with LRD and LWR, whichever frames are lost on a single or  *)
(* a redundant line; except that the datagram with the clocks is the one   *)
(* missing.                                                                *)
Seen(k)   == \E a \in came : a.seg = k
InFull(k) == [seg |-> k, path |-> Line] \in came
ShortIffMissing ==
  clean /\ pc[Cycle] = "idle" /\ (layout.dc /\ came # {} => Seen(1))
    => (wkc < Expected <=> \E k \in 1 .. Len(layout.cmds) : ~InFull(k))

-----------------------------------------------------------------------------
(* Not so: what the decision tree is for, and TLC refutes (README,         *)
(* Disagreements); no run checks it.                                       *)

(* The decision tree is there "to reroute the original packet to get the   *)
(* data in an other try" (nicdrv.c:458) when one of the frames does not    *)
(* arrive: what is returned is never the counter of the dummy.             *)
NeverTheDummy ==
  clean => \A t \in Threads : pc[t] = "result" /\ 0 \in got[t] => rxbuf[0][Cur(t)].dg.own # "dummy"
=============================================================================
