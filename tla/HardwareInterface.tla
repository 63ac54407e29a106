-------------------------- MODULE HardwareInterface --------------------------
(***************************************************************************)
(* The plugin through which ros2_control reads and commands the joints:    *)
(* ElfinHWInterface, over the clients of the EtherCAT modules, and its     *)
(* simulated variant ElfinHWInterface_PositoinOnly.  The resource manager  *)
(* takes it through its lifecycle, calls read and write in every cycle     *)
(* while it is inactive or active, and switches the command interfaces.    *)
(*                                                                         *)
(* Positions are in counts: a joint at the position p commands the count   *)
(* zero - p.  The rounding of write, of one count at most, is left out.    *)
(***************************************************************************)
EXTENDS Integers, Sequences, FiniteSets, FiniteSetsExt, SequencesExt

CONSTANTS
  Setups,      (* [joints, yaml, raw, zero, sim]: the joints of the URDF in *)
               (* order, the pairs of names of the clients in yaml order,   *)
               (* the counts of the axes and their count_zeros, or the      *)
               (* simulated variant; and the bounds of what happens: cycles,*)
               (* calls (transitions and mode switches) and moves of drives *)
  Unset,       (* a double or a count never set: NaN, or no target          *)
  Turn,        (* the counts of a whole turn                                *)
  Reach        (* bound: counts and commands lie in -Reach .. Reach         *)

ASSUME InterfaceAssumption ==
  /\ Turn \in Nat /\ Reach \in Nat /\ Unset \notin Int
  /\ \A u \in Setups :
       /\ u.joints \in Seq(STRING) /\ u.yaml \in Seq(STRING \X STRING)
       /\ \A c \in DOMAIN u.yaml : u.raw[c] \in Int \X Int /\ u.zero[c] \in Int \X Int

NoClient == 0

VARIABLES
  setup,
  life,        (* the lifecycle state; "failed": on_init failed, "thrown":  *)
               (* an exception left the plugin                              *)
  slot,        (* module_infos_, by joint: [client, ec, zero, pos, cmd]     *)
  initialized, first_pass,
  claimed, running,        (* pos_interface_claimed, pos_interface_running  *)
  phase,       (* where the cycle is: "idle", "read", "updated"             *)
  raw,         (* the count of every axis of every client                   *)
  target,      (* the last count written to it                              *)
  inPos,       (* the clients whose modules are in position mode            *)
  seen,        (* history: the count of every axis in the last read         *)
  home,        (* history: its count when its joint was last to be aligned: *)
               (* at the first read since the plugin was configured, an     *)
               (* activation, a cycle outside position mode                 *)
  began,       (* history: its count when the plugin was configured         *)
  fresh,       (* history: the joints commanded since they were aligned     *)
  cycles, calls, moves

plugin == <<slot, initialized, first_pass>>
switch == <<claimed, running>>
drives == <<raw, target, inPos>>
past   == <<seen, home, began, fresh>>
vars   == <<setup, life, plugin, switch, phase, drives, past, cycles, calls, moves>>
-----------------------------------------------------------------------------
Clients == DOMAIN setup.yaml
Axes    == Clients \X {1, 2}
Joints  == DOMAIN setup.joints
ModuleOf(j) == (j + 1) \div 2
On(j)   == <<slot[j].client, slot[j].ec>>
BlankSlot == [client |-> NoClient, ec |-> 0, zero |-> 0, pos |-> 0, cmd |-> 0]

(* on_init: the slots are made for the URDF's joints, two of a module; an  *)
(* odd number is refused.  The simulated variant starts with NaN.          *)
Init ==
  /\ setup \in Setups
  /\ life = IF ~setup.sim /\ Len(setup.joints) % 2 # 0 THEN "failed" ELSE "unconfigured"
  /\ slot = [j \in Joints |-> IF setup.sim THEN [BlankSlot EXCEPT !.pos = Unset, !.cmd = Unset] ELSE BlankSlot]
  /\ initialized = FALSE /\ first_pass = TRUE
  /\ claimed = FALSE /\ running = FALSE /\ phase = "idle"
  /\ raw = [a \in Axes |-> setup.raw[a[1]][a[2]]]
  /\ target = [a \in Axes |-> Unset] /\ inPos = {}
  /\ seen = raw /\ began = raw /\ fresh = {} /\ home = target
  /\ cycles = 0 /\ calls = 0 /\ moves = 0

Call == phase = "idle" /\ calls < setup.calls /\ calls' = calls + 1

(* count_zero shifted by a whole turn, towards a position within half of   *)
(* one.                                                                    *)
Folded(zero, count) ==
  IF 2 * (count - zero) >= Turn THEN zero + Turn ELSE IF 2 * (count - zero) < -Turn THEN zero - Turn ELSE zero

(* The slots after the loop over the clients in yaml order: a later client *)
(* replaces an earlier one of the same module.                             *)
Named(c)      == {j \in Joints : setup.joints[j] \in {setup.yaml[c][1], setup.yaml[c][2]}}
Complete(c)   == \A ec \in {1, 2} : \E j \in Joints : setup.joints[j] = setup.yaml[c][ec]
OneModule(c)  == \A i, j \in Named(c) : ModuleOf(i) = ModuleOf(j)
ClientOf(j)   == Max({NoClient} \union {c \in Clients : \E i \in Named(c) : ModuleOf(i) = ModuleOf(j)})
Namers(j)     == {c \in Clients : j \in Named(c)}
(* Mutant: the axes of a client in the order of the slots.                 *)
AxisOf_place(c, j) == IF j % 2 = 0 THEN 2 ELSE 1

AxisOf(c, j)  == IF setup.yaml[c][2] = setup.joints[j] THEN 2 ELSE 1
Bound(j) ==
  LET c == Max({NoClient} \union Namers(j))
  IN [slot[j] EXCEPT !.client = ClientOf(j),
                     !.ec = IF c = NoClient THEN @ ELSE AxisOf(c, j),
                     !.zero = IF c = NoClient THEN @ ELSE setup.zero[c][AxisOf(c, j)]]
Physical(s) == <<s.client, IF s.ec = 1 THEN 1 ELSE 2>>    \* everything but axis 1 is axis 2

(* on_configure: the master and the clients are made anew (it throws when  *)
(* that fails), the axes are bound by name, every slot must have a client, *)
(* and the zero is folded once.                                            *)
Configure ==
  /\ Call /\ life = "unconfigured" /\ ~setup.sim
  /\ LET bound == [j \in Joints |-> Bound(j)]
         fits  == /\ \A c \in Clients : Complete(c) /\ OneModule(c)
                  /\ \A j \in Joints : bound[j].client # NoClient
         count(j) == raw[Physical(bound[j])]
         zero(j)  == Folded(bound[j].zero, count(j))
     IN \/ /\ fits /\ life' = "inactive"
           /\ slot' = [j \in Joints |-> [bound[j] EXCEPT !.zero = zero(j), !.pos = zero(j) - count(j)]]
           /\ seen' = raw /\ began' = raw
           /\ target' = [a \in Axes |-> Unset]
        \/ /\ life' = "finalized"    \* EtherCatManager throws, or the names do not fit: no on_error
           /\ UNCHANGED <<slot, target, seen, began>>
  /\ UNCHANGED <<setup, initialized, first_pass, switch, phase, raw, inPos, home, fresh, cycles, moves>>

SimConfigure ==
  /\ Call /\ life = "unconfigured" /\ setup.sim
  /\ slot' = [j \in Joints |-> [slot[j] EXCEPT !.pos = 0, !.cmd = 0]]
  /\ life' = "inactive"
  /\ UNCHANGED <<setup, initialized, first_pass, switch, phase, drives, past, cycles, moves>>

Aligned(slots) == [j \in Joints |-> [slots[j] EXCEPT !.cmd = slots[j].pos]]
Reading == [j \in Joints |-> [slot[j] EXCEPT !.pos = slot[j].zero - raw[Physical(slot[j])]]]

(* on_activate: the commands are aligned with a fresh reading.             *)
Activate ==
  /\ Call /\ life = "inactive" /\ life' = "active"
  /\ IF setup.sim
     THEN /\ slot' = Aligned([j \in Joints |-> IF slot[j].pos = Unset THEN [slot[j] EXCEPT !.pos = 0] ELSE slot[j]])
          /\ UNCHANGED <<initialized, first_pass, seen, home>>
     ELSE /\ slot' = Aligned(Reading) /\ seen' = raw /\ home' = raw
          /\ initialized' = TRUE /\ first_pass' = FALSE
  /\ fresh' = {}
  /\ UNCHANGED <<setup, switch, phase, drives, began, cycles, moves>>

Deactivate ==
  /\ Call /\ life = "active" /\ life' = "inactive"
  /\ UNCHANGED <<setup, plugin, switch, phase, drives, past, cycles, moves>>

(* release_resources: the slots stay, without their clients.               *)
Released == [j \in Joints |-> [slot[j] EXCEPT !.client = NoClient]]
(* Mutant: initialized_ and first_pass_ are left as they are.              *)
Release_pass(then) ==
  /\ life' = then
  /\ IF setup.sim THEN UNCHANGED slot ELSE slot' = Released
  /\ fresh' = {} /\ inPos' = {} /\ home' = [a \in Axes |-> Unset]
  /\ UNCHANGED <<setup, initialized, first_pass, switch, phase, raw, target, seen, began, cycles, moves>>

Release(then) ==
  /\ life' = then
  /\ IF setup.sim THEN UNCHANGED plugin
     ELSE slot' = Released /\ initialized' = FALSE /\ first_pass' = TRUE
  /\ fresh' = {} /\ inPos' = {} /\ home' = [a \in Axes |-> Unset]
  /\ UNCHANGED <<setup, switch, phase, raw, target, seen, began, cycles, moves>>
Cleanup  == Call /\ life = "inactive" /\ Release("unconfigured")
Shutdown == Call /\ life \in {"unconfigured", "inactive", "active"} /\ Release("finalized")
-----------------------------------------------------------------------------
(* read: the counts of the axes; the first one aligns the commands.        *)
Read ==
  /\ phase = "idle" /\ life \in {"inactive", "active"} /\ ~setup.sim /\ cycles < setup.cycles
  /\ LET first == first_pass /\ ~initialized
     IN /\ slot' = IF first THEN Aligned(Reading) ELSE Reading
        /\ fresh' = IF first THEN {} ELSE fresh
        /\ initialized' = (initialized \/ first)
  /\ seen' = raw /\ phase' = "read"
  /\ home' = [a \in Axes |-> IF home[a] = Unset THEN raw[a] ELSE home[a]]
  /\ UNCHANGED <<setup, life, first_pass, switch, drives, began, cycles, calls, moves>>

(* The simulated joints are where they were commanded.                     *)
SimRead ==
  /\ phase = "idle" /\ life \in {"inactive", "active"} /\ setup.sim /\ cycles < setup.cycles
  /\ slot' = [j \in Joints |-> [slot[j] EXCEPT !.pos = slot[j].cmd]]
  /\ initialized' = TRUE
  /\ first_pass' = (first_pass /\ initialized)
  /\ phase' = "read"
  /\ UNCHANGED <<setup, life, switch, drives, past, cycles, calls, moves>>

(* A controller commands a joint to a place near it, or none does.         *)
Update ==
  /\ phase = "read" /\ phase' = "updated"
  /\ \/ UNCHANGED <<slot, fresh>>
     \/ /\ life = "active" /\ running
        /\ \E j \in Joints, d \in {-1, 1} :
             /\ slot[j].cmd + d \in -Reach .. Reach
             /\ slot' = [slot EXCEPT ![j].cmd = @ + d]
             /\ fresh' = fresh \union {j}
  /\ UNCHANGED <<setup, life, initialized, first_pass, switch, drives, seen, home, began, cycles, calls, moves>>

(* write: a module that is not in position mode takes its own positions as *)
(* commands; the commands go to the axes.                                  *)
Write ==
  /\ phase = "updated" /\ ~setup.sim
  /\ LET loose(j) == slot[j].client \notin inPos
         cmds == [j \in Joints |-> IF loose(j) THEN [slot[j] EXCEPT !.cmd = slot[j].pos] ELSE slot[j]]
         to(a) == {j \in Joints : Physical(slot[j]) = a}
     IN /\ slot' = cmds
        /\ target' = [a \in Axes |-> IF to(a) = {} THEN target[a] ELSE LET j == Max(to(a)) IN cmds[j].zero - cmds[j].cmd]
        /\ fresh' = {j \in fresh : ~loose(j)}
        /\ home' = [a \in Axes |-> IF a[1] \in inPos THEN home[a] ELSE seen[a]]
  /\ phase' = "idle" /\ cycles' = cycles + 1
  /\ UNCHANGED <<setup, life, initialized, first_pass, switch, raw, inPos, seen, began, calls, moves>>

SimWrite ==
  /\ phase = "updated" /\ setup.sim
  /\ phase' = "idle" /\ cycles' = cycles + 1
  /\ UNCHANGED <<setup, life, plugin, switch, drives, past, calls, moves>>
-----------------------------------------------------------------------------
(* prepare_command_mode_switch and perform_command_mode_switch: all the    *)
(* position interfaces are stopped or started, or none; anything else is   *)
(* thrown as an exception.                                                 *)
Switch ==
  /\ Call /\ life \in {"inactive", "active"} /\ ~setup.sim
  /\ \E stops, starts \in {"none", "some", "all"} :
       LET after == IF starts = "all" THEN TRUE ELSE IF stops = "all" THEN FALSE ELSE claimed
       IN /\ claimed' = IF stops = "some" THEN claimed ELSE IF starts = "some" /\ stops = "all" THEN FALSE ELSE after
          /\ IF "some" \in {stops, starts} THEN life' = "thrown" /\ UNCHANGED running
             ELSE UNCHANGED life /\ running' = claimed'
  /\ UNCHANGED <<setup, plugin, phase, drives, past, cycles, moves>>

(* The drives: a module in position mode goes to its targets; one that is  *)
(* not can be moved by hand; the mode changes behind the plugin's back.    *)
Drive ==
  /\ ~setup.sim /\ phase \in {"idle", "read"} /\ life \notin {"failed", "thrown", "finalized"}
  /\ moves < setup.moves /\ moves' = moves + 1
  /\ \/ \E c \in Clients :
          /\ life \in {"inactive", "active"}
          /\ inPos' = IF c \in inPos THEN inPos \ {c} ELSE inPos \union {c}
          /\ UNCHANGED raw
     \/ /\ raw' = [a \in Axes |-> IF a[1] \in inPos /\ target[a] # Unset THEN target[a] ELSE raw[a]]
        /\ UNCHANGED inPos
     \/ \E a \in Axes, d \in {-1, 1} :
          /\ a[1] \notin inPos /\ raw[a] + d \in -Reach .. Reach
          /\ raw' = [raw EXCEPT ![a] = @ + d] /\ UNCHANGED inPos
  /\ UNCHANGED <<setup, life, plugin, switch, phase, target, past, cycles, calls>>

Next == Configure \/ SimConfigure \/ Activate \/ Deactivate \/ Cleanup \/ Shutdown
        \/ Read \/ SimRead \/ Update \/ Write \/ SimWrite \/ Switch \/ Drive
Spec == Init /\ [][Next]_vars
-----------------------------------------------------------------------------
(* When every joint is named once in the yaml, whatever the order of its   *)
(* clients and of the two names, each joint is bound to the axis that      *)
(* carries its name and, within a turn and a half of its zero, was         *)
(* configured to a position of at most half a turn.  (A joint that is not  *)
(* named goes with axis 2 of its module unnoticed.)                        *)
NamedOnce == \A j \in Joints : Cardinality({a \in Axes : setup.yaml[a[1]][a[2]] = setup.joints[j]}) = 1
Within(off, halves) == -halves * Turn <= 2 * off /\ 2 * off < halves * Turn
AxesBound ==
  (life \in {"inactive", "active"} /\ ~setup.sim /\ NamedOnce) =>
    \A j \in Joints :
      /\ setup.yaml[slot[j].client][slot[j].ec] = setup.joints[j]
      /\ Within(began[On(j)] - setup.zero[slot[j].client][slot[j].ec], 3)
           => Within(began[On(j)] - slot[j].zero, 1)

(* No joint is sent anywhere no controller sent it: as long as it has no   *)
(* command newer than the last time it was to be aligned, write gives its  *)
(* axis the count it had then, through every sequence of lifecycle         *)
(* transitions, mode changes, folded zeros and moves by hand.  (A module   *)
(* that write has not found out of position mode is not aligned, also when *)
(* it was moved while a service in read had it out of it.)                 *)
NoLurch ==
  [][(phase = "updated" /\ phase' = "idle" /\ ~setup.sim /\ NamedOnce) =>
       \A j \in Joints : j \notin fresh' => target'[On(j)] = home'[On(j)]]_vars
=============================================================================
