------------------------------ MODULE EcCycle ------------------------------
(***************************************************************************)
(* The EtherCAT manager and the AL states of the slaves: initSoem brings   *)
(* the drives to OPERATIONAL, the cycle thread exchanges process data and, *)
(* when the working counter is short, runs handleErrors over the slave     *)
(* table, and the destructor requests INIT, closes the socket and only     *)
(* then joins the cycle thread.  SOEM's functions on AL states             *)
(* (ec_readstate, ec_writestate, ec_statecheck, ec_reconfig_slave,         *)
(* ec_recover_slave) are modelled from their source, one step for each     *)
(* datagram that changes a slave or the slave table.                       *)
(***************************************************************************)
EXTENDS Naturals

CONSTANTS
  N,           (* ec_slavecount                                              *)
  Io,          (* the IO slave (4), which is left in SAFE_OP                 *)
  IoOutputs,   (* TRUE: the IO slave maps outputs, which count in            *)
               (* expected_wkc although a slave in SAFE_OP takes none        *)
  Unreliable,  (* TRUE: datagrams get lost, and slaves may handle a request  *)
               (* later than SOEM waits for it or makes the next one         *)
  Volatile,    (* the slaves that can lose their power                       *)
  MaxUpsets    (* bound: how often a slave drops out                         *)

Slaves == 1 .. N
Drives == Slaves \ {Io}

ASSUME CycleAssumption ==
  /\ N \in Nat \ {0}
  /\ Io \in Nat
  /\ IoOutputs \in BOOLEAN
  /\ Unreliable \in BOOLEAN
  /\ Volatile \subseteq Slaves
  /\ MaxUpsets \in Nat

(* AL states with their number; "boot" (3) is what INIT (1) and PRE_OP (2) *)
(* look like when a broadcast read ORs them.                               *)
AL   == {"init", "preop", "safeop", "op"}
Code == [none |-> 0, init |-> 1, preop |-> 2, boot |-> 3, safeop |-> 4, op |-> 8]

(* ec_slave[s].state: the AL state read and its error bit.                 *)
None == <<"none", FALSE>>
Seen == (AL \cup {"none", "boot"}) \X BOOLEAN

VARIABLES
  on,       (* the slave answers                                             *)
  addr,     (* its station address: its own, EC_TEMPNODE or none             *)
  al,       (* its AL state                                                  *)
  err,      (* the error bit of its AL status                                *)
  ctrl,     (* the AL control request it has not yet handled                 *)
  sm,       (* its sync managers are programmed                              *)
  fmmu,     (* its FMMUs are programmed                                      *)
  state,    (* ec_slave[s].state                                             *)
  state0,   (* ec_slave[0].state                                             *)
  islost,   (* ec_slave[s].islost                                            *)
  pc,       (* where the cycle thread is                                     *)
  cur,      (* the slave handleErrors, or initSoem, is at                    *)
  main,     (* where the thread that owns the manager is                     *)
  stop,     (* stop_flag_                                                    *)
  open,     (* the socket is open                                            *)
  upsets,   (* number of times a slave dropped out so far                    *)
  missed    (* history: the slaves without FMMUs to which the last write of  *)
            (* them since the slave had power did not arrive                 *)

slaves == <<on, addr, al, err, sm, fmmu, missed>>
table  == <<state, state0, islost>>
owner  == <<main, stop, open>>
vars   == <<slaves, ctrl, table, pc, cur, owner, upsets>>

Requests == AL \cup {"none", "ack"}
Address  == {"own", "temp", "zero"}

CycleLabel == {"none", "top", "readB", "readM", "check", "rInit", "rPre", "rSafe", "rFmmu",
               "recheck", "lost", "readdress", "end"}
MainLabel  == {"request", "await", "failed", "refresh", "run", "mark", "broadcast", "close",
               "join", "dead"}

TypeOK ==
  /\ on     \in [Slaves -> BOOLEAN]
  /\ addr   \in [Slaves -> Address]
  /\ al     \in [Slaves -> AL]
  /\ err    \in [Slaves -> BOOLEAN]
  /\ ctrl   \in [Slaves -> Requests]
  /\ sm     \in [Slaves -> BOOLEAN]
  /\ fmmu   \in [Slaves -> BOOLEAN]
  /\ state  \in [Slaves -> Seen]
  /\ state0 \in AL \cup {"none", "boot"}
  /\ islost \in [Slaves -> BOOLEAN]
  /\ pc     \in CycleLabel
  /\ cur    \in Slaves
  /\ main   \in MainLabel
  /\ stop   \in BOOLEAN
  /\ open   \in BOOLEAN
  /\ upsets \in 0 .. MaxUpsets
  /\ missed \subseteq Slaves

(* ec_config_map and the check for SAFE_OP have succeeded: every slave is  *)
(* programmed and in SAFE_OP.                                              *)
Init ==
  /\ on     = [s \in Slaves |-> TRUE]
  /\ addr   = [s \in Slaves |-> "own"]
  /\ al     = [s \in Slaves |-> "safeop"]
  /\ err    = [s \in Slaves |-> FALSE]
  /\ ctrl   = [s \in Slaves |-> "none"]
  /\ sm     = [s \in Slaves |-> TRUE]
  /\ fmmu   = [s \in Slaves |-> TRUE]
  /\ state  = [s \in Slaves |-> <<"safeop", FALSE>>]
  /\ state0 = "safeop"
  /\ islost = [s \in Slaves |-> FALSE]
  /\ pc     = "none"
  /\ cur    = 1
  /\ main   = "request"
  /\ stop   = FALSE
  /\ open   = TRUE
  /\ upsets = 0
  /\ missed = {}

-----------------------------------------------------------------------------
(* The slaves.                                                             *)

(* SAFE_OP + ACK, the number of SAFE_OP + ERROR, asks for SAFE_OP and      *)
(* takes the error bit away.                                               *)
Asked(v) == IF v = "ack" THEN "safeop" ELSE v

(* A request is granted downwards, and upwards one state at a time, out of *)
(* PRE_OP only with sync managers; INIT always, all others not while the   *)
(* error bit is set.                                                       *)
Legal(s, v) ==
  \/ v = "init"
  \/ /\ v = "ack" \/ ~err[s]
     /\ \/ Code[Asked(v)] <= Code[al[s]]
        \/ <<al[s], Asked(v)>> \in {<<"init", "preop">>, <<"safeop", "op">>}
        \/ <<al[s], Asked(v)>> = <<"preop", "safeop">> /\ sm[s]

Accept(s) ==
  /\ on[s]
  /\ ctrl[s] # "none"
  /\ Legal(s, ctrl[s])
  /\ al' = [al EXCEPT ![s] = Asked(ctrl[s])]
  /\ err' = [err EXCEPT ![s] = FALSE]
  /\ ctrl' = [ctrl EXCEPT ![s] = "none"]
  /\ UNCHANGED <<on, addr, sm, fmmu, missed, table, pc, cur, owner, upsets>>

(* What is not legal is refused, and a step upwards may be.                *)
Refuse(s) ==
  /\ on[s]
  /\ ctrl[s] # "none"
  /\ ~Legal(s, ctrl[s]) \/ Code[Asked(ctrl[s])] > Code[al[s]]
  /\ err' = [err EXCEPT ![s] = TRUE]
  /\ ctrl' = [ctrl EXCEPT ![s] = "none"]
  /\ UNCHANGED <<on, addr, al, sm, fmmu, missed, table, pc, cur, owner, upsets>>

(* The process data watchdog of a slave, or another fault of it.           *)
Drop(s) ==
  /\ upsets < MaxUpsets
  /\ upsets' = upsets + 1
  /\ on[s]
  /\ al[s] = "op"
  /\ al' = [al EXCEPT ![s] = "safeop"]
  /\ err' = [err EXCEPT ![s] = TRUE]
  /\ UNCHANGED <<on, addr, ctrl, sm, fmmu, missed, table, pc, cur, owner>>

Unplug(s) ==
  /\ upsets < MaxUpsets
  /\ upsets' = upsets + 1
  /\ on[s]
  /\ on' = [on EXCEPT ![s] = FALSE]
  /\ UNCHANGED <<addr, al, err, ctrl, sm, fmmu, missed, table, pc, cur, owner>>

(* A slave is back, as it was or after a loss of power.                    *)
Replug(s) ==
  /\ ~on[s]
  /\ on' = [on EXCEPT ![s] = TRUE]
  /\ \/ UNCHANGED <<addr, al, err, ctrl, sm, fmmu, missed>>
     \/ /\ s \in Volatile
        /\ addr' = [addr EXCEPT ![s] = "zero"]
        /\ al' = [al EXCEPT ![s] = "init"]
        /\ err' = [err EXCEPT ![s] = FALSE]
        /\ ctrl' = [ctrl EXCEPT ![s] = "none"]
        /\ sm' = [sm EXCEPT ![s] = FALSE]
        /\ fmmu' = [fmmu EXCEPT ![s] = FALSE]
        /\ missed' = missed \ {s}
  /\ UNCHANGED <<table, pc, cur, owner, upsets>>

-----------------------------------------------------------------------------
(* Datagrams.                                                              *)

Reachable(s) == open /\ on[s] /\ addr[s] = "own"

CanFail(s) == Unreliable \/ ~Reachable(s)

(* What reading the AL status of s can give.                               *)
Reads(s) ==
  {r \in Seen : \/ Reachable(s) /\ r = <<al[s], err[s]>>
                \/ CanFail(s) /\ r = None}

Programs(f, s) ==
  \/ Reachable(s) /\ f' = [f EXCEPT ![s] = TRUE]
  \/ CanFail(s) /\ UNCHANGED f

(* An AL control request to s, ec_writestate(s) for one.                   *)
Asks(s, v) ==
  \/ /\ Reachable(s)
     /\ ctrl[s] = "none" \/ Unreliable
     /\ ctrl' = [ctrl EXCEPT ![s] = v]
  \/ CanFail(s) /\ UNCHANGED ctrl

(* ec_statecheck: it reads until the slave is in v or the time is over,    *)
(* which leaves any status of a slave that has had time to obey.           *)
statecheck(s, v) ==
  {r \in Reads(s) : r[1] = v \/ Unreliable \/ ~Reachable(s) \/ ctrl[s] = "none"}

(* The OR of all states as SOEM takes it: one state, or none in particular.*)
Ored ==
  LET A == {al[s] : s \in {x \in Slaves : on[x]}}
  IN IF A = {"init", "preop"} THEN "boot"
     ELSE IF \E v \in AL : A = {v} THEN CHOOSE v \in AL : A = {v} ELSE "none"

Lowest(f) == CHOOSE v \in {f[s][1] : s \in Slaves} : \A s \in Slaves : Code[v] <= Code[f[s][1]]

-----------------------------------------------------------------------------
(* The cycle thread.                                                       *)

(* wkc = expected_wkc: every slave does its part of the process data.      *)
Complete ==
  \A s \in Slaves :
    /\ on[s] /\ sm[s] /\ fmmu[s]
    /\ IF s = Io THEN al[s] \in {"safeop", "op"} /\ (IoOutputs => al[s] = "op") ELSE al[s] = "op"

(* Mutant: stop_flag is not looked at.                                     *)
cycleWorker_endless ==
  /\ pc = "top"
  /\ \/ Complete /\ open /\ pc' = "top"
     \/ (~Complete \/ ~open \/ Unreliable) /\ pc' = "readB"
  /\ UNCHANGED <<slaves, ctrl, table, cur, owner, upsets>>

cycleWorker ==
  /\ pc = "top"
  /\ \/ stop /\ pc' = "end"
     \/ ~stop /\ Complete /\ open /\ pc' = "top"
     \/ ~stop /\ (~Complete \/ ~open \/ Unreliable) /\ pc' = "readB"
  /\ UNCHANGED <<slaves, ctrl, table, cur, owner, upsets>>

(* After ec_readstate handleErrors goes through the slaves, initSoem ends. *)
ReadDone ==
  IF main = "refresh" THEN pc' = "top" /\ main' = "run" ELSE pc' = "check" /\ main' = main

(* ec_readstate, the broadcast: when all slaves answer, none with an error *)
(* and all with one state, that is every slave's.                          *)
readstateAll ==
  /\ pc = "readB"
  /\ \/ /\ open
        /\ state0' = IF Ored = "none" THEN state0 ELSE Ored
        /\ IF Ored # "none" /\ \A s \in Slaves : on[s] /\ ~err[s]
           THEN /\ state' = [s \in Slaves |-> <<Ored, FALSE>>]
                /\ ReadDone
           ELSE UNCHANGED <<state, main>> /\ pc' = "readM"
     \/ /\ ~open \/ Unreliable
        /\ UNCHANGED <<state, state0, main>>
        /\ pc' = "readM"
  /\ cur' = 1
  /\ UNCHANGED <<slaves, ctrl, islost, stop, open, upsets>>

(* ec_readstate, the read of each slave, all in one frame.                 *)
readstateEach ==
  /\ pc = "readM"
  /\ \/ state' = [s \in Slaves |-> IF Reachable(s) THEN <<al[s], err[s]>> ELSE None]
     \/ Unreliable /\ state' = [s \in Slaves |-> None]
  /\ state0' = Lowest(state')
  /\ ReadDone
  /\ UNCHANGED <<slaves, ctrl, islost, cur, stop, open, upsets>>

(* Mutant: a slave in OPERATIONAL is treated like the others.              *)
Faulty_any(s) == s # Io

(* Mutant: the IO slave is treated like a drive.                           *)
Faulty_io(s) == state[s] # <<"op", FALSE>>

Faulty(s) == s # Io /\ state[s] # <<"op", FALSE>>

(* handleErrors, the first if for slave cur.  SAFE_OP + ACK and SAFE_OP +  *)
(* ERROR are the same number.  (The branch for slave 4 cannot be reached.) *)
handleErrors ==
  /\ pc = "check"
  /\ \/ /\ ~Faulty(cur) \/ (state[cur] = None /\ islost[cur])
        /\ pc' = "lost"
        /\ UNCHANGED <<ctrl, state>>
     \/ /\ Faulty(cur) /\ state[cur] = <<"safeop", TRUE>>
        /\ Asks(cur, "ack")
        /\ pc' = "lost"
        /\ UNCHANGED state
     \/ /\ Faulty(cur) /\ state[cur] = <<"safeop", FALSE>>
        /\ state' = [state EXCEPT ![cur] = <<"op", FALSE>>]
        /\ Asks(cur, "op")
        /\ pc' = "lost"
     \/ /\ Faulty(cur) /\ state[cur] # None /\ state[cur][1] # "safeop"
        /\ Asks(cur, "init")
        /\ \/ Reachable(cur) /\ pc' = "rInit"
           \/ CanFail(cur) /\ pc' = "lost"
        /\ UNCHANGED state
     \/ /\ Faulty(cur) /\ state[cur] = None /\ ~islost[cur]
        /\ pc' = "recheck"
        /\ UNCHANGED <<ctrl, state>>
  /\ UNCHANGED <<slaves, state0, islost, cur, owner, upsets>>

(* ec_reconfig_slave returns r: the slave is not lost when it is a state.  *)
Reconfigured(r) ==
  /\ islost' = IF r[1] = "none" THEN islost ELSE [islost EXCEPT ![cur] = FALSE]
  /\ pc' = "lost"

(* ec_reconfig_slave: INIT, sync managers, PRE_OP, SAFE_OP, FMMUs.         *)
reconfigInit ==
  /\ pc = "rInit"
  /\ \E r \in statecheck(cur, "init") :
       /\ state' = [state EXCEPT ![cur] = r]
       /\ IF r[1] = "init"
          THEN Programs(sm, cur) /\ Asks(cur, "preop") /\ pc' = "rPre" /\ UNCHANGED islost
          ELSE Reconfigured(r) /\ UNCHANGED <<sm, ctrl>>
  /\ UNCHANGED <<on, addr, al, err, fmmu, missed, state0, cur, owner, upsets>>

reconfigPre ==
  /\ pc = "rPre"
  /\ \E r \in statecheck(cur, "preop") :
       /\ state' = [state EXCEPT ![cur] = r]
       /\ IF r[1] = "preop"
          THEN Asks(cur, "safeop") /\ pc' = "rSafe" /\ UNCHANGED islost
          ELSE Reconfigured(r) /\ UNCHANGED ctrl
  /\ UNCHANGED <<slaves, state0, cur, owner, upsets>>

reconfigSafe ==
  /\ pc = "rSafe"
  /\ \E r \in statecheck(cur, "safeop") : state' = [state EXCEPT ![cur] = r]
  /\ pc' = "rFmmu"
  /\ UNCHANGED <<slaves, ctrl, state0, islost, cur, owner, upsets>>

(* Mutant: the FMMUs are not programmed.                                   *)
reconfigFmmu_none ==
  /\ pc = "rFmmu"
  /\ Reconfigured(state[cur])
  /\ UNCHANGED <<slaves, ctrl, state, state0, cur, owner, upsets>>

reconfigFmmu ==
  /\ pc = "rFmmu"
  /\ Programs(fmmu, cur)
  /\ missed' = IF fmmu'[cur] THEN missed \ {cur} ELSE missed \cup {cur}
  /\ Reconfigured(state[cur])
  /\ UNCHANGED <<on, addr, al, err, sm, ctrl, state, state0, cur, owner, upsets>>

(* A slave that did not answer is read once more before it counts as lost. *)
recheck ==
  /\ pc = "recheck"
  /\ \E r \in statecheck(cur, "op") :
       /\ state' = [state EXCEPT ![cur] = r]
       /\ islost' = IF r = None THEN [islost EXCEPT ![cur] = TRUE] ELSE islost
  /\ pc' = "lost"
  /\ UNCHANGED <<slaves, ctrl, state0, cur, owner, upsets>>

(* Mutant: one slave too many.                                             *)
NextSlave_past == IF cur > N THEN pc' = "top" /\ cur' = 1 ELSE pc' = "check" /\ cur' = cur + 1

NextSlave == IF cur = N THEN pc' = "top" /\ cur' = 1 ELSE pc' = "check" /\ cur' = cur + 1

(* What ec_recover_slave reads by position: nothing, or an address.        *)
Found(a) == open /\ on[cur] /\ addr[cur] = a
NotFound == ~open \/ ~on[cur] \/ Unreliable

(* Whoever has the temporary address loses it, then cur gets it.           *)
MakeTemp ==
  [s \in Slaves |-> IF s = cur THEN "temp"
                   ELSE IF addr[s] = "temp" /\ on[s] THEN "zero" ELSE addr[s]]

(* handleErrors, the second if for slave cur: ec_recover_slave for a slave *)
(* that does not answer, which it can do no more about than to read its    *)
(* address if that is neither its own nor zero.                            *)
handleLost ==
  /\ pc = "lost"
  /\ \/ ~islost[cur] /\ NextSlave /\ UNCHANGED <<addr, islost>>
     \/ /\ islost[cur]
        /\ state[cur] # None \/ Found("own")
        /\ islost' = [islost EXCEPT ![cur] = FALSE]
        /\ NextSlave
        /\ UNCHANGED addr
     \/ /\ islost[cur] /\ state[cur] = None
        /\ Found("temp") \/ NotFound
        /\ NextSlave
        /\ UNCHANGED <<addr, islost>>
     \/ /\ islost[cur] /\ state[cur] = None /\ Found("zero")
        /\ addr' = MakeTemp
        /\ \/ pc' = "readdress" /\ cur' = cur
           \/ Unreliable /\ NextSlave
        /\ UNCHANGED islost
  /\ UNCHANGED <<on, al, err, ctrl, sm, fmmu, missed, state, state0, owner, upsets>>

(* Mutant: the slave is left with the temporary address.                   *)
readdress_temp ==
  /\ pc = "readdress"
  /\ \/ Found("temp") /\ islost' = [islost EXCEPT ![cur] = FALSE]
     \/ NotFound /\ UNCHANGED islost
  /\ NextSlave
  /\ UNCHANGED <<slaves, ctrl, state, state0, owner, upsets>>

(* ec_recover_slave compares the slave's identity and gives it its address *)
(* back, or none if the identity cannot be read.                           *)
readdress ==
  /\ pc = "readdress"
  /\ \/ /\ Found("temp")
        /\ addr' = [addr EXCEPT ![cur] = "own"]
        /\ \/ islost' = [islost EXCEPT ![cur] = FALSE]
           \/ Unreliable /\ UNCHANGED islost
     \/ Found("temp") /\ Unreliable /\ addr' = [addr EXCEPT ![cur] = "zero"] /\ UNCHANGED islost
     \/ /\ NotFound \/ ~Found("temp")
        /\ UNCHANGED <<addr, islost>>
  /\ NextSlave
  /\ UNCHANGED <<on, al, err, ctrl, sm, fmmu, missed, state, state0, owner, upsets>>

-----------------------------------------------------------------------------
(* The owner of the manager: initSoem and the destructor.                  *)

(* initSoem asks each drive in turn to become operational, once.           *)
initSoem ==
  /\ main = "request"
  /\ IF cur \in Drives
     THEN /\ state' = [state EXCEPT ![cur] = <<"op", FALSE>>]
          /\ Asks(cur, "op")
          /\ main' = "await"
          /\ UNCHANGED <<pc, cur>>
     ELSE /\ IF cur = N THEN main' = "refresh" /\ cur' = 1 /\ pc' = "readB"
                        ELSE main' = main /\ cur' = cur + 1 /\ pc' = pc
          /\ UNCHANGED <<state, ctrl>>
  /\ UNCHANGED <<slaves, state0, islost, stop, open, upsets>>

(* 41 checks of 50 ms and one of 2 s.  When the last drive is operational  *)
(* ec_readstate runs and the cycle thread starts; otherwise the            *)
(* constructor throws.                                                     *)
initAwait ==
  /\ main = "await"
  /\ \E r \in statecheck(cur, "op") :
       /\ state' = [state EXCEPT ![cur] = r]
       /\ IF r[1] # "op" THEN main' = "failed" /\ UNCHANGED <<pc, cur>>
          ELSE IF cur = N THEN main' = "refresh" /\ cur' = 1 /\ pc' = "readB"
          ELSE main' = "request" /\ cur' = cur + 1 /\ pc' = pc
  /\ UNCHANGED <<slaves, ctrl, state0, islost, stop, open, upsets>>

(* ~EtherCatManager: the flag, the state of slave 0, its broadcast, the    *)
(* socket, the join.                                                       *)
destroy ==
  /\ main = "run"
  /\ stop' = TRUE
  /\ main' = "mark"
  /\ UNCHANGED <<slaves, ctrl, table, pc, cur, open, upsets>>

markInit ==
  /\ main = "mark"
  /\ state0' = "init"
  /\ main' = "broadcast"
  /\ UNCHANGED <<slaves, ctrl, state, islost, pc, cur, stop, open, upsets>>

broadcastState ==
  /\ main = "broadcast"
  /\ \/ ctrl' = [s \in Slaves |-> IF on[s] /\ state0 \in AL THEN state0 ELSE ctrl[s]]
     \/ Unreliable /\ UNCHANGED ctrl
  /\ main' = "close"
  /\ UNCHANGED <<slaves, table, pc, cur, stop, open, upsets>>

ec_close ==
  /\ main = "close"
  /\ open' = FALSE
  /\ main' = "join"
  /\ UNCHANGED <<slaves, ctrl, table, pc, cur, stop, upsets>>

join ==
  /\ main = "join"
  /\ pc = "end"
  /\ main' = "dead"
  /\ UNCHANGED <<slaves, ctrl, table, pc, cur, stop, open, upsets>>

-----------------------------------------------------------------------------
CycleStep ==
  \/ cycleWorker \/ readstateAll \/ readstateEach \/ handleErrors
  \/ reconfigInit \/ reconfigPre \/ reconfigSafe \/ reconfigFmmu
  \/ recheck \/ handleLost \/ readdress

OwnerStep == initSoem \/ initAwait \/ markInit \/ broadcastState \/ ec_close \/ join

Upset(s) == Drop(s) \/ Unplug(s) \/ Replug(s)

Next ==
  \/ CycleStep
  \/ OwnerStep
  \/ destroy
  \/ \E s \in Slaves : Accept(s) \/ Refuse(s) \/ Upset(s)

Spec == Init /\ [][Next]_vars

(* Both threads run; a slave that answers handles its requests and grants  *)
(* one that it could grant over and over.  Nobody has to destroy the manager or   *)
(* plug a slave in.                                                        *)
Fairness ==
  /\ WF_vars(CycleStep)
  /\ WF_vars(OwnerStep)
  /\ \A s \in Slaves :
       /\ WF_vars(Accept(s) \/ Refuse(s))
       /\ \A v \in AL : SF_vars(Accept(s) /\ ctrl[s] = v)

FairSpec == Spec /\ Fairness

-----------------------------------------------------------------------------
(* Supervision never takes a slave out of OPERATIONAL: whatever            *)
(* handleErrors remembers of it from earlier reads, and however late       *)
(* answers to earlier requests are.                                        *)
Undisturbed ==
  [][\A s \in Slaves :
       al[s] = "op" /\ ctrl[s] = "none" /\ main = "run" => ctrl'[s] \in {"none", "op"}]_vars

(* The IO slave is kept out of OPERATIONAL as long as the manager lives    *)
(* (initSoem starts the drives only, handleErrors excludes slave 4).       *)
IoNotOperational ==
  main \in {"request", "await", "refresh", "run"} /\ Io \in Slaves => al[Io] # "op"

(* A slave is operational with its process data mapped, whatever datagrams *)
(* are lost, slaves drop out or obey late, with one exception: the write   *)
(* of its FMMUs did not arrive, which ec_reconfig_slave does not look at.  *)
(* (That of the sync managers it does not look at either, but the slave    *)
(* refuses SAFE_OP.)  From the destructor's broadcast on it is not so: the *)
(* request may find a slave in PRE_OP and give it SAFE_OP without FMMUs.   *)
OperationalMapped ==
  main \notin {"close", "join", "dead"} =>
    \A s \in Slaves : al[s] = "op" => sm[s] /\ (fmmu[s] \/ s \in missed)

(* Supervision works: while the manager lives, a drive that answers comes  *)
(* back to OPERATIONAL.                                                    *)
DrivesReturn ==
  \A s \in Drives : main = "run" ~> (al[s] = "op" \/ ~on[s] \/ main # "run")

(* The destructor returns although it takes the socket away from a cycle   *)
(* thread in the middle of handleErrors.                                   *)
DestructorReturns == main = "mark" ~> main = "dead"

-----------------------------------------------------------------------------
(* Not so: what the code's own messages and comments say and TLC refutes   *)
(* (README, Disagreements); no run checks these.                           *)

(* "request init state for all slaves" (elfin_ethercat_manager.cpp:209):   *)
(* what the destructor broadcasts is INIT.                                 *)
DestructorRequestsInit == [][main = "broadcast" /\ main' = "close" => state0 = "init"]_vars

(* "slave %d is no in SAFE_OP, change to SAFE_OP"                          *)
(* (elfin_ethercat_manager.cpp:91): an IO slave that answers is brought    *)
(* back to SAFE_OP.                                                        *)
IoReturns == main = "run" ~> (al[Io] = "safeop" \/ ~on[Io] \/ main # "run")
=============================================================================
