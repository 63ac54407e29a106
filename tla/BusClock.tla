------------------------------- MODULE BusClock -------------------------------
(***************************************************************************)
(* ecx_configdc: the distributed clocks.  Every slave latches the time at  *)
(* which a frame passes each of its ports, on a clock of its own; from the *)
(* differences the master computes how much later than the first slave     *)
(* with a clock each other one sees the frame.  ecx_dcsync0, ecx_dcsync01: *)
(* the pulses of a slave are started at a common phase.                    *)
(***************************************************************************)
EXTENDS BusScan

CONSTANTS
  Half,       (* bound: a clock has the values -Half .. Half - 1 (2^31)     *)
  SyncDelay,  (* SyncDelay                                                  *)
  SyncTimes   (* the times at which they are made                           *)

(* A call is <<cycle, shift>> or <<cycle 0, cycle 1, shift>>.              *)
ASSUME ClockAssumption ==
  /\ {Half, SyncDelay} \subseteq Nat \ {0} /\ SyncTimes \subseteq Nat
  /\ \A b \in Buses : b.calls \subseteq (Nat \X Int) \union (Nat \X Nat \X Int)

VARIABLES
  dc,       (* of every slave: [rt, entry, consumed, port, pdelay]          *)
  hold,     (* parenthold                                                   *)
  chain,    (* the slaves with a clock, in the order of DCnext              *)
  ht,       (* what the last read of a time stamp left                      *)
  sync      (* the pulses started: [start, cycle, shift, now, read]         *)

clockVars == <<dc, hold, chain, ht, sync>>
-----------------------------------------------------------------------------
Signed(t) == ((t + Half) % (2 * Half)) - Half
Halved(x) == IF x < 0 THEN -((-x) \div 2) ELSE x \div 2

(* How long a frame is away below a slave, and when it is where: the       *)
(* cables have bus.cable, a slave itself costs nothing.                    *)
Rank(b, s, p) ==
  LET Place(q) == CHOOSE i \in 1 .. 4 : PortOrder[i] = q
  IN (Place(p) - Place(b.entry[s])) % 4
Before(b, c)  == {d \in Children(b, b.up[c]) : Rank(b, b.up[c], b.out[d]) < Rank(b, b.up[c], b.out[c])}
Away(b) ==
  LET away[s \in 1 .. b.n] == MapThenSumSet(LAMBDA c : 2 * b.cable[c] + away[c], Children(b, s))
  IN away
Passed(b, cs) == MapThenSumSet(LAMBDA c : 2 * b.cable[c] + Away(b)[c], cs)
Arrival(b) ==
  LET when[s \in 1 .. b.n] == IF s = 1 THEN 0 ELSE when[b.up[s]] + Passed(b, Before(b, s)) + b.cable[s]
  IN when
Latched(b, s, p) ==
  LET below == {c \in Children(b, s) : Rank(b, s, b.out[c]) <= Rank(b, s, p)}
  IN Arrival(b)[s] + Passed(b, below)

ClockInit ==
  /\ dc = <<>> /\ hold = 0 /\ chain = <<>> /\ ht = 0 /\ sync = <<>>
-----------------------------------------------------------------------------
FirstOf(ps, set) ==
  LET hits == {i \in DOMAIN ps : ps[i] \in set} IN IF hits = {} THEN <<>> ELSE <<ps[Min(hits)]>>

(* ecx_prevport: the open port a frame came back to before it left by p.   *)
Around(p)       == CASE p = 0 -> <<2, 1, 3, 0>> [] p = 1 -> <<3, 0, 2, 1>> [] p = 2 -> <<1, 3, 0, 2>> [] p = 3 -> <<0, 2, 1, 3>>
PrevPort(s, p)  == FirstOf(Around(p), slave[s].ports \union {p})[1]

(* Mutant: the ports in another order than that of the frame.              *)
ParentPort_order(d, p) == LET f == FirstOf(<<1, 3, 2, 0>>, d[p].consumed) IN IF f = <<>> THEN 0 ELSE f[1]

(* ecx_parentport: the first port of a parent that no child has taken yet. *)
ParentPort(d, p)   == LET f == FirstOf(<<3, 1, 2, 0>>, d[p].consumed) IN IF f = <<>> THEN 0 ELSE f[1]
ConsumePort(d, p)  == [d EXCEPT ![p].consumed = @ \ {ParentPort(d, p)}]

NoClock == [rt |-> [p \in 0 .. 3 |-> 0], entry |-> 0, consumed |-> {}, port |-> 0, pdelay |-> 0]

(* The open port with the lowest time stamp.                               *)
EntryPort(s, rt) ==
  IF slave[s].ports = {} THEN 0
  ELSE FirstOf(PortOrder, {p \in slave[s].ports : \A q \in slave[s].ports : rt[p] <= rt[q]})[1]

(* The slave of a branch that hangs directly on a slave with a clock, or   *)
(* on the master.                                                          *)
BranchRoot(s) ==
  LET root[i \in 1 .. s] == IF slave[i].parent = 0 THEN i
                            ELSE IF slave[slave[i].parent].hasdc THEN i ELSE root[slave[i].parent]
  IN root[s]

(* The delay of slave s (its entry in d is complete but for it): half of   *)
(* the time the frame spent on the cable alone, behind the branches that   *)
(* the parent served before.                                               *)
Delay(d, s, child, parent, port) ==
  LET Time(i, p) == d[i].rt[p]
      prev == PrevPort(parent, port)
      dt3  == Signed(Time(parent, port) - Time(parent, prev))
      own  == IF Topology(s) > 1 THEN Signed(Time(s, PrevPort(s, d[s].entry)) - Time(s, d[s].entry)) ELSE 0
      dt1  == IF own > dt3 THEN -own ELSE own
      gap  == IF child - parent > 1 THEN Signed(Time(parent, prev) - Time(parent, d[parent].entry)) ELSE 0
      dt2  == IF gap < 0 THEN -gap ELSE gap
  IN Halved(dt3 - dt1) + dt2 + d[parent].pdelay

(* The loop body for a slave with a clock: it reads the four stamps (one   *)
(* that is lost leaves the value read before) and finds its entry port,    *)
(* its parent's port and its delay.                                        *)
MeasureDelay ==
  /\ pc = "clock" /\ slave[at].hasdc
  /\ \E miss \in (IF slave[at].adr THEN SUBSET (0 .. 3) ELSE {0 .. 3}) :
       LET rt[p \in -1 .. 3] == IF p = -1 THEN ht ELSE IF p \in miss THEN rt[p - 1] ELSE Signed(bus.epoch[at] + Latched(bus, at, p))
           times  == [p \in 0 .. 3 |-> rt[p]]
           entry  == EntryPort(at, times)
           fresh  == Append(dc, [NoClock EXCEPT !.rt = times, !.entry = entry, !.consumed = slave[at].ports \ {entry}])
           child  == BranchRoot(at)
           parent == slave[child].parent
           port   == IF Topology(parent) = 1 THEN fresh[parent].entry ELSE ParentPort(fresh, parent)
           delay  == Delay(fresh, at, child, parent, port)
       IN /\ Budget(IF slave[at].adr THEN Cardinality(miss) ELSE 0)
          /\ IF parent = 0 THEN dc' = fresh /\ ht' = times[3]
             ELSE /\ dc' = [ConsumePort(fresh, parent) EXCEPT ![at].port = port, ![at].pdelay = delay]
                  /\ ht' = delay
  /\ hold' = 0
  /\ chain' = Append(chain, at)
  /\ NextSlave("sync", "clock")
  /\ UNCHANGED <<bus, slave, sync>>

(* A slave without a clock: at the end of a branch of such slaves, a port  *)
(* is taken from the split the branch hangs on.                            *)
Skip ==
  /\ pc = "clock" /\ ~slave[at].hasdc
  /\ LET up    == slave[at].parent
         root  == IF up > 0 /\ Topology(up) > 2 THEN up ELSE hold
         fresh == Append(dc, [NoClock EXCEPT !.consumed = slave[at].ports])
     IN IF root > 0 /\ Topology(at) = 1
        THEN dc' = ConsumePort(fresh, root) /\ hold' = 0
        ELSE dc' = fresh /\ hold' = root
  /\ NextSlave("sync", "clock")
  /\ UNCHANGED <<bus, slave, lost, chain, ht, sync>>

(* The first pulse is a cycle after the next multiple of the (true) cycle; *)
(* when the time of the slave is not read it counts as zero.               *)
FirstPulse(t, true, shift) == ((t + SyncDelay) \div true) * true + true + shift
Started(call, t, now, read) ==
  LET shift == Last(call)
      true  == IF Len(call) = 2 THEN call[1] ELSE (call[2] \div call[1] + 1) * call[1]
  IN [start |-> IF call[1] > 0 THEN FirstPulse(t, true, shift) ELSE t + SyncDelay + shift,
      cycle |-> call[1], shift |-> shift, now |-> now, read |-> read]

(* ecx_dcsync0, called <<cycle, shift>>, and ecx_dcsync01, <<cycle 0, cycle*)
(* 1, shift>>, for the slaves with a clock in their order.                 *)
Sync ==
  /\ pc = "sync"
  /\ IF bus.calls = {} \/ Len(sync) = Len(chain)
     THEN pc' = "done" /\ UNCHANGED <<lost, sync>>
     ELSE /\ UNCHANGED pc
          /\ \E call \in bus.calls, now \in SyncTimes, read \in BOOLEAN :
               /\ Budget(IF read THEN 0 ELSE 1)
               /\ sync' = Append(sync, Started(call, IF read THEN now ELSE 0, now, read))
  /\ UNCHANGED <<bus, at, slave, dc, hold, chain, ht>>

Clock == MeasureDelay \/ Skip \/ Sync
-----------------------------------------------------------------------------
(* Every slave with a clock knows exactly how much later than the first of *)
(* them it sees a frame, wherever the clocks are, if no read was lost, no  *)
(* clock passed 2^31 while the frame was behind its slave (the entry port  *)
(* is found by comparing the stamps as signed numbers), and every slave at *)
(* which the line splits has a clock and is entered by port 0:             *)
(* ecx_parentport counts the ports from there.                             *)
Straight == \A s \in DOMAIN slave : Topology(s) <= 2 \/ (slave[s].hasdc /\ bus.entry[s] = 0)
NoWrap ==
  LET Turn(s, p) == (bus.epoch[s] + Latched(bus, s, p) + Half) \div (2 * Half)
  IN \A s \in DOMAIN slave : \A p, q \in OpenPorts(bus, s) : Turn(s, p) = Turn(s, q)
DelayRight ==
  (pc = "sync" /\ lost = 0 /\ Straight /\ NoWrap) =>
    \A k \in DOMAIN chain : dc[chain[k]].pdelay = Arrival(bus)[chain[k]] - Arrival(bus)[chain[1]]

(* Slaves whose pulses were started with the same cycle and shift, one at  *)
(* any time and with dcsync0 or dcsync01, fire together, and none starts   *)
(* at a time that has passed.  A lost read of the slave's time breaks the  *)
(* second: the start is counted from zero.                                 *)
SyncTogether ==
  \A i, j \in DOMAIN sync :
    LET x == sync[i]
        y == sync[j]
    IN /\ (x.cycle > 0 /\ x.cycle = y.cycle /\ x.shift = y.shift) => (x.start - y.start) % x.cycle = 0
       /\ (x.read /\ x.shift >= 0) => x.start > x.now

(* The slaves' clocks can be made to agree, and their pulses do.           *)
ClocksAgree == DelayRight /\ SyncTogether
=============================================================================
