----------------------------- MODULE ElfinServo -----------------------------
(***************************************************************************)
(* The servo sequences of the EtherCAT driver: what ElfinEtherCATClient    *)
(* does to the two axes of one module (setEnable, setDisable,              *)
(* clearPoseFault, recognizePose) and how the services of                  *)
(* ElfinEtherCATDriver start one thread per module, join them and poll the *)
(* status words before they answer.                                        *)
(*                                                                         *)
(* The process image is exchanged every millisecond by the cycle thread;   *)
(* here a drive sees a new controlword, and the client a new status word,  *)
(* whenever the drive takes its next step, so every delay between the two  *)
(* is a behaviour.  The client reads and writes one axis at a time.        *)
(***************************************************************************)
EXTENDS Naturals, FiniteSets

CONSTANTS
  Modules,     (* the slaves that are joint modules (two axes each)           *)
  Pos,         (* positions an axis can be at, and be sent to                 *)
  Home,        (* the position a zeroed process image commands                *)
  Ops,         (* the services that are called                                 *)
  HwLoop,      (* TRUE: ros2_control writes the targets between two services;  *)
               (* FALSE: the standalone driver node, nobody does               *)
  Unposed,     (* axes that may power up with error code 0x2000               *)
  MaxFaults,   (* bound: faults that may occur in one behaviour               *)
  SdoMayFail,  (* TRUE: SDO transfers may fail; a failed read returns the     *)
               (* indeterminate value of an uninitialised variable            *)
  MayShutdown  (* TRUE: rclcpp::ok() may turn false (ctrl-C)                   *)

Axis == Modules \X {1, 2}

Services == {"enable", "disable", "clear", "recognize", "enable1", "reset1"}

ASSUME ServoAssumption ==
  /\ Modules # {}
  /\ Home \in Pos
  /\ Ops \subseteq Services
  /\ HwLoop \in BOOLEAN
  /\ SdoMayFail \in BOOLEAN
  /\ MayShutdown \in BOOLEAN
  /\ Unposed \subseteq Axis
  /\ MaxFaults \in Nat

VARIABLES
  ctl,      (* AXISn_CONTROLWORD in the output image                         *)
  mode,     (* AXISn_MODES_OF_OPERATION in the output image                  *)
  target,   (* AXISn_TARGET_POSITION in the output image                     *)
  actual,   (* AXISn_ACTPOSITION in the input image                          *)
  drv,      (* AXISn_STATUSWORD in the input image, as a CiA 402 state       *)
  unposed,  (* AXISn_ERRORCODE = 0x2000                                      *)
  poseCmd,  (* the recognition command object 0x3024 / 0x3034                *)
  poseSt,   (* the recognition state objects 0x2023,0x2024 / 0x2033,0x2034   *)
  pc,       (* per module: where its setEnable/... thread is                 *)
  ax,       (* per module: the axis that thread reads or writes next         *)
  back,     (* per module: where clearPoseFault returns to                   *)
  svc,      (* the service callback that is running                          *)
  seen,     (* axes the current pass over isEnabled/isWarning has read       *)
  off,      (* modules the current pass found not enabled                    *)
  reply,    (* the last answer given                                         *)
  ok,       (* rclcpp::ok()                                                  *)
  faults,   (* number of faults so far                                       *)
  copied,   (* per module: the position setEnable has read and not written   *)
  caught    (* history: axes that moved between that read and its write      *)

image    == <<ctl, mode, target>>
drives   == <<actual, drv, unposed, poseCmd, poseSt>>
threads  == <<pc, ax, back>>
services == <<svc, seen, off, reply>>
copies   == <<copied, caught>>
vars     == <<image, drives, threads, services, ok, faults, copies>>

(* Status words the client compares with: 0x21, 0x23, 0x27; bit 3 = fault. *)
DriveState  == {"disabled", "ready", "on", "op", "fault"}
Controlword == {"0x00", "0x06", "0x07", "0x0f", "0x1f", "0x86"}
Mode        == {"position", "pose"}                   \* 0x8, 0xc
PoseCmd     == {"none", "start", "finish"}            \* 0, 0x11.., 0x33..
PoseSt      == {"idle", "running"}                    \* 0, 0x200000

Clear    == {"clr86", "clr06"}
Pose     == {"pGuard", "pMode", "pStart", "pWait1", "pWait2", "pEnd"}
Checks   == {"err", "ewarn", "warn", "chkw", "chke"}
Ladder   == {"cw06", "mode8", "wait21", "cw07", "wait23", "cw0f", "wait27", "cw1f"}
Label    == {"done", "dis", "dcw", "rwarn", "read", "copy"} \cup Clear \cup Pose \cup Checks \cup Ladder

Op  == {"none"} \cup Services
Job == {"none", "enable", "disable", "reset", "recognize"}
At  == {"idle", "faultcheck", "reset", "join", "poll"}

Idle == [op |-> "none", at |-> "idle", job |-> "none", who |-> {}, cleared |-> TRUE]

Svc   == [op : Op, at : At, job : Job, who : SUBSET Modules, cleared : BOOLEAN]
Reply == [op : Op, ok : BOOLEAN]

TypeOK ==
  /\ ctl     \in [Axis -> Controlword]
  /\ mode    \in [Axis -> Mode]
  /\ target  \in [Axis -> Pos]
  /\ actual  \in [Axis -> Pos]
  /\ drv     \in [Axis -> DriveState]
  /\ unposed \in [Axis -> BOOLEAN]
  /\ poseCmd \in [Axis -> PoseCmd]
  /\ poseSt  \in [Axis -> PoseSt]
  /\ pc      \in [Modules -> Label]
  /\ ax      \in [Modules -> {1, 2}]
  /\ back    \in [Modules -> {"done", "pGuard", "chkw"}]
  /\ svc     \in Svc
  /\ seen    \subseteq Axis
  /\ off     \subseteq Modules
  /\ reply   \in Reply
  /\ ok      \in BOOLEAN
  /\ faults  \in 0 .. MaxFaults
  /\ copied  \in [Modules -> Pos]
  /\ caught  \subseteq Axis

(* The manager's constructor zeroes the image, the client's selects the    *)
(* position mode; the arm can be anywhere, each drive disabled or in fault.*)
Init ==
  /\ ctl     = [x \in Axis |-> "0x00"]
  /\ mode    = [x \in Axis |-> "position"]
  /\ target  = [x \in Axis |-> Home]
  /\ actual  \in [Axis -> Pos]
  /\ unposed \in {f \in [Axis -> BOOLEAN] : \A x \in Axis : f[x] => x \in Unposed}
  /\ drv     \in {f \in [Axis -> {"disabled", "fault"}] : \A x \in Axis : f[x] = "fault" => unposed[x]}
  /\ poseCmd = [x \in Axis |-> "none"]
  /\ poseSt  = [x \in Axis |-> "idle"]
  /\ pc      = [m \in Modules |-> "done"]
  /\ ax      = [m \in Modules |-> 1]
  /\ back    = [m \in Modules |-> "done"]
  /\ svc     = Idle
  /\ seen    = {}
  /\ off     = {}
  /\ reply   = [op |-> "none", ok |-> FALSE]
  /\ ok      = TRUE
  /\ faults  = 0
  /\ copied  = [m \in Modules |-> Home]
  /\ caught  = {}

-----------------------------------------------------------------------------
(* The drive: CiA 402 state machine, as the client's sequences expect it.  *)

DriveGoes(x, from, words, to) ==
  /\ drv[x] \in from
  /\ ctl[x] \in words
  /\ drv' = [drv EXCEPT ![x] = to]
  /\ UNCHANGED <<actual, unposed, poseCmd, poseSt>>

DriveStep(x) ==
  /\ \/ DriveGoes(x, {"disabled"}, {"0x06"}, "ready")
     \/ DriveGoes(x, {"ready"}, {"0x07", "0x0f", "0x1f"}, "on")
     \/ DriveGoes(x, {"on"}, {"0x0f", "0x1f"}, "op")
     \/ DriveGoes(x, {"on", "op"}, {"0x06", "0x86"}, "ready")
     \/ DriveGoes(x, {"op"}, {"0x07"}, "on")
     \/ DriveGoes(x, {"fault"}, {"0x86"}, "disabled")
  /\ UNCHANGED <<image, threads, services, ok, faults, copies>>

Fault(x) ==
  /\ drv[x] # "fault"
  /\ faults < MaxFaults
  /\ faults' = faults + 1
  /\ drv' = [drv EXCEPT ![x] = "fault"]
  /\ UNCHANGED <<image, actual, unposed, poseCmd, poseSt, threads, services, ok, copies>>

(* setEnable is between reading and writing the position of this axis.     *)
Copying(x) == pc[x[1]] = "copy" /\ ax[x[1]] = x[2]

(* In position mode an operational axis follows its target.                *)
Move(x) ==
  /\ drv[x] = "op"
  /\ mode[x] = "position"
  /\ actual[x] # target[x]
  /\ actual' = [actual EXCEPT ![x] = target[x]]
  /\ caught' = caught \cup {y \in {x} : Copying(y)}
  /\ UNCHANGED <<image, drv, unposed, poseCmd, poseSt, threads, services, ok, faults, copied>>

(* Recognition: it runs once commanded in mode 0xc, and when told to       *)
(* finish it may or may not have cleared the error, and has moved the axis.*)
PoseBegin(x) ==
  /\ mode[x] = "pose"
  /\ poseCmd[x] = "start"
  /\ poseSt[x] = "idle"
  /\ poseSt' = [poseSt EXCEPT ![x] = "running"]
  /\ UNCHANGED <<image, actual, drv, unposed, poseCmd, threads, services, ok, faults, copies>>

PoseFinish(x) ==
  /\ poseSt[x] = "running"
  /\ poseCmd[x] = "finish" \/ mode[x] # "pose"
  /\ poseSt' = [poseSt EXCEPT ![x] = "idle"]
  /\ IF mode[x] = "pose"
     THEN /\ \E p \in Pos : actual' = [actual EXCEPT ![x] = p]
          /\ \E b \in BOOLEAN : unposed' = [unposed EXCEPT ![x] = b /\ unposed[x]]
     ELSE UNCHANGED <<actual, unposed>>
  /\ UNCHANGED <<image, drv, poseCmd, threads, services, ok, faults, copies>>

-----------------------------------------------------------------------------
(* A module's thread.  A step reads or writes one axis, axis 1 first.      *)

cur(m) == <<m, ax[m]>>

GoTo(m, l) ==
  /\ pc' = [pc EXCEPT ![m] = l]
  /\ ax' = [ax EXCEPT ![m] = 1]

(* Mutant: the second axis is not the last one.                            *)
Advance_third(m, l) ==
  IF ax[m] <= 2 THEN pc' = pc /\ ax' = [ax EXCEPT ![m] = @ + 1] ELSE GoTo(m, l)

(* Axis ax[m] is dealt with: on to axis 2, after that to label l.          *)
Advance(m, l) ==
  IF ax[m] = 1 THEN pc' = pc /\ ax' = [ax EXCEPT ![m] = 2] ELSE GoTo(m, l)

Call(m, ret) == GoTo(m, "clr86") /\ back' = [back EXCEPT ![m] = ret]

isWarning(m, at, Yes, no) ==
  /\ pc[m] = at
  /\ IF drv[cur(m)] = "fault" THEN Yes ELSE Advance(m, no) /\ UNCHANGED back
  /\ UNCHANGED <<image, drives>>

(* Both axes must read as operation enabled; the first that does not ends  *)
(* the test.                                                               *)
isEnabled(m, at, yes, no) ==
  /\ pc[m] = at
  /\ IF drv[cur(m)] = "op" THEN Advance(m, yes) ELSE GoTo(m, no)
  /\ UNCHANGED <<image, drives, back>>

WriteControlword(m, at, w, l) ==
  /\ pc[m] = at
  /\ ctl' = [ctl EXCEPT ![cur(m)] = w]
  /\ Advance(m, l)
  /\ UNCHANGED <<mode, target, drives, back>>

(* Mutant: the status of axis 1 alone ends the wait.                       *)
Await_axis1(m, at, s, l) ==
  /\ pc[m] = at
  /\ ~ok \/ drv[cur(m)] = s
  /\ GoTo(m, l)
  /\ UNCHANGED <<image, drives, back>>

(* while(rclcpp::ok()): both axes in state s, tested in order; a mismatch  *)
(* starts over or, two seconds being over, returns.  When rclcpp has shut  *)
(* down the loop is left as if the state had been reached.                 *)
Testing(m) == ok \/ ax[m] = 2

Await(m, at, s, l) ==
  /\ pc[m] = at
  /\ \/ ~Testing(m) /\ GoTo(m, l)
     \/ Testing(m) /\ drv[cur(m)] = s /\ Advance(m, l)
     \/ Testing(m) /\ drv[cur(m)] # s /\ GoTo(m, at)
  /\ UNCHANGED <<image, drives, back>>

AwaitTimeout(m, at, s) ==
  /\ pc[m] = at
  /\ Testing(m)
  /\ drv[cur(m)] # s
  /\ GoTo(m, "done")
  /\ UNCHANGED <<image, drives, back>>

(* Mutant: the second axis is left in fault reset.                         *)
clearPoseFault_held(m) ==
  /\ pc[m] \in Clear
  /\ ctl' = [ctl EXCEPT ![cur(m)] = IF pc[m] = "clr86" THEN "0x86" ELSE "0x06"]
  /\ IF pc[m] = "clr86" /\ ax[m] = 1
     THEN pc' = [pc EXCEPT ![m] = "clr06"] /\ ax' = ax
     ELSE IF ax[m] = 1
          THEN pc' = [pc EXCEPT ![m] = "clr86"] /\ ax' = [ax EXCEPT ![m] = 2]
          ELSE GoTo(m, back[m])
  /\ UNCHANGED <<back, mode, target, drives>>

(* For each axis 0x86, then 0x6.                                           *)
clearPoseFault(m) ==
  \/ /\ pc[m] = "clr86"
     /\ ctl' = [ctl EXCEPT ![cur(m)] = "0x86"]
     /\ pc' = [pc EXCEPT ![m] = "clr06"]
     /\ UNCHANGED <<ax, back, mode, target, drives>>
  \/ /\ pc[m] = "clr06"
     /\ ctl' = [ctl EXCEPT ![cur(m)] = "0x06"]
     /\ IF ax[m] = 1
        THEN pc' = [pc EXCEPT ![m] = "clr86"] /\ ax' = [ax EXCEPT ![m] = 2]
        ELSE GoTo(m, back[m])
     /\ UNCHANGED <<back, mode, target, drives>>

SetMode(m, v) == mode' = [mode EXCEPT ![cur(m)] = v]

(* Where a successful recognizePose returns to.                            *)
AfterPose == IF svc.job = "enable" THEN "warn" ELSE "done"

(* An SDO write, and a loop reading state objects until they show s: a     *)
(* failed write changes nothing, a failed read may show anything.          *)
WriteSDO(m, c) == poseCmd' = [poseCmd EXCEPT ![cur(m)] = c] \/ (SdoMayFail /\ UNCHANGED poseCmd)

Shows(m, s) == poseSt[cur(m)] = s \/ SdoMayFail

Hides(m, s) == poseSt[cur(m)] # s \/ SdoMayFail

(* recognizePose: channel ax[m]; a channel that fails ends the thread.     *)
recognizePose(m) ==
  \/ /\ pc[m] = "pGuard"
     /\ IF drv[cur(m)] \in {"op", "fault"}
        THEN GoTo(m, "done")
        ELSE pc' = [pc EXCEPT ![m] = "pMode"] /\ UNCHANGED ax
     /\ UNCHANGED <<image, drives, back>>
  \/ /\ pc[m] = "pMode"
     /\ SetMode(m, "pose")
     /\ pc' = [pc EXCEPT ![m] = "pStart"]
     /\ UNCHANGED <<ax, back, ctl, target, drives>>
  \/ /\ pc[m] = "pStart"
     /\ WriteSDO(m, "start")
     /\ pc' = [pc EXCEPT ![m] = "pWait1"]
     /\ UNCHANGED <<ax, back, image, actual, drv, unposed, poseSt>>
  \/ /\ pc[m] = "pWait1"
     /\ IF ok THEN Shows(m, "running") /\ WriteSDO(m, "finish") ELSE UNCHANGED poseCmd
     /\ pc' = [pc EXCEPT ![m] = "pWait2"]
     /\ UNCHANGED <<ax, back, image, actual, drv, unposed, poseSt>>
  \/ /\ pc[m] = "pWait2"
     /\ IF ok THEN Shows(m, "idle") /\ WriteSDO(m, "none") ELSE UNCHANGED poseCmd
     /\ pc' = [pc EXCEPT ![m] = "pEnd"]
     /\ UNCHANGED <<ax, back, image, actual, drv, unposed, poseSt>>
  \/ /\ pc[m] = "pEnd"
     /\ SetMode(m, "position")
     /\ IF ax[m] = 1
        THEN pc' = [pc EXCEPT ![m] = "pGuard"] /\ ax' = [ax EXCEPT ![m] = 2]
        ELSE GoTo(m, AfterPose)
     /\ UNCHANGED <<back, ctl, target, drives>>

(* Mutant: the mode of operation is not restored.                          *)
PoseTimeout_mode(m) ==
  /\ ok
  /\ \/ pc[m] = "pWait1" /\ Hides(m, "running")
     \/ pc[m] = "pWait2" /\ Hides(m, "idle")
  /\ GoTo(m, "done")
  /\ UNCHANGED <<back, image, drives>>

(* 20 s for the recognition to begin, 5 s for it to end.                   *)
PoseTimeout(m) ==
  /\ ok
  /\ \/ pc[m] = "pWait1" /\ Hides(m, "running")
     \/ pc[m] = "pWait2" /\ Hides(m, "idle")
  /\ SetMode(m, "position")
  /\ GoTo(m, "done")
  /\ UNCHANGED <<back, ctl, target, drives>>

(* setEnable up to the point where it decides to enable.                   *)
ReadErrorCode(m) ==
  /\ pc[m] = "err"
  /\ IF unposed[cur(m)] THEN GoTo(m, "ewarn") ELSE Advance(m, "warn")
  /\ UNCHANGED <<image, drives, back>>

EnableChecks(m) ==
  \/ ReadErrorCode(m)
  \/ isWarning(m, "ewarn", Call(m, "pGuard"), "pGuard")
  \/ isWarning(m, "warn", Call(m, "chkw"), "chkw")
  \/ isWarning(m, "chkw", GoTo(m, "done") /\ UNCHANGED back, "chke")
  \/ isEnabled(m, "chke", "done", "read")

(* Mutant: axis 2 is given the position of axis 1.                         *)
ReadActual_axis1(m) ==
  /\ pc[m] = "read"
  /\ copied' = [copied EXCEPT ![m] = actual[<<m, 1>>]]
  /\ caught' = caught \ {cur(m)}
  /\ pc' = [pc EXCEPT ![m] = "copy"]
  /\ UNCHANGED <<ax, back, image, drives>>

(* Target position := actual position, so that the axis does not move when *)
(* it becomes operational.  An axis that is still operational (isEnabled   *)
(* asks for both) may move between the read and the write.                 *)
ReadActual(m) ==
  /\ pc[m] = "read"
  /\ copied' = [copied EXCEPT ![m] = actual[cur(m)]]
  /\ caught' = caught \ {cur(m)}
  /\ pc' = [pc EXCEPT ![m] = "copy"]
  /\ UNCHANGED <<ax, back, image, drives>>

WriteTarget(m) ==
  /\ pc[m] = "copy"
  /\ target' = [target EXCEPT ![cur(m)] = copied[m]]
  /\ IF ax[m] = 1
     THEN pc' = [pc EXCEPT ![m] = "read"] /\ ax' = [ax EXCEPT ![m] = 2]
     ELSE GoTo(m, "cw06")
  /\ copied' = [copied EXCEPT ![m] = Home]                    \* not used again
  /\ UNCHANGED <<ctl, mode, drives, back, caught>>

ModePosition(m) ==
  /\ pc[m] = "mode8"
  /\ SetMode(m, "position")
  /\ Advance(m, "wait21")
  /\ UNCHANGED <<ctl, target, drives, back>>

EnableLadder(m) ==
  \/ WriteControlword(m, "cw06", "0x06", "mode8")
  \/ ModePosition(m)
  \/ Await(m, "wait21", "ready", "cw07")
  \/ WriteControlword(m, "cw07", "0x07", "wait23")
  \/ Await(m, "wait23", "on", "cw0f")
  \/ WriteControlword(m, "cw0f", "0x0f", "wait27")
  \/ Await(m, "wait27", "op", "cw1f")
  \/ WriteControlword(m, "cw1f", "0x1f", "done")

(* Mutant: the last wait has no time limit.                                *)
LadderTimeout_phase3(m) ==
  \/ AwaitTimeout(m, "wait21", "ready")
  \/ AwaitTimeout(m, "wait23", "on")

LadderTimeout(m) ==
  \/ AwaitTimeout(m, "wait21", "ready")
  \/ AwaitTimeout(m, "wait23", "on")
  \/ AwaitTimeout(m, "wait27", "op")

setEnable(m) ==
  \/ ReadActual(m) \/ WriteTarget(m)
  \/ (EnableChecks(m) \/ EnableLadder(m)) /\ UNCHANGED copies

setDisable(m) ==
  \/ isEnabled(m, "dis", "dcw", "done")
  \/ WriteControlword(m, "dcw", "0x06", "done")

recognizePoseCmd(m) == isWarning(m, "rwarn", Call(m, "pGuard"), "pGuard")

ThreadStep(m) ==
  /\ \/ setEnable(m)
     \/ (setDisable(m) \/ recognizePoseCmd(m) \/ clearPoseFault(m) \/ recognizePose(m)) /\ UNCHANGED copies
  /\ UNCHANGED <<services, ok, faults>>

ThreadTimeout(m) ==
  /\ LadderTimeout(m) \/ PoseTimeout(m)
  /\ UNCHANGED <<services, ok, faults, copies>>

-----------------------------------------------------------------------------
(* The services.  One executor thread runs their callbacks, one at a time. *)

First == [enable |-> "err", disable |-> "dis", reset |-> "clr86", recognize |-> "rwarn"]

(* One thread per module in who; creating them one after the other is      *)
(* creating them at once and scheduling some of them late.                 *)
Spawn(job, who) ==
  /\ pc' = [m \in Modules |-> IF m \in who THEN First[job] ELSE pc[m]]
  /\ ax' = [m \in Modules |-> IF m \in who THEN 1 ELSE ax[m]]
  /\ back' = [m \in Modules |-> IF m \in who THEN "done" ELSE back[m]]

Answer(b) ==
  /\ reply' = [op |-> svc.op, ok |-> b]
  /\ svc' = Idle

NewPass == seen' = {} /\ off' = {}

Request(op, who) ==
  /\ op \in Ops
  /\ ok
  /\ svc.at = "idle"
  /\ NewPass
  /\ caught' = {}
  /\ reply' = [op |-> op, ok |-> FALSE]
  /\ \/ /\ op \in {"enable", "recognize"}
        /\ svc' = [Idle EXCEPT !.op = op, !.at = "faultcheck", !.who = who]
        /\ UNCHANGED threads
     \/ /\ op \in {"disable", "enable1"}
        /\ LET job == IF op = "disable" THEN "disable" ELSE "enable" IN
           /\ svc' = [Idle EXCEPT !.op = op, !.at = "join", !.job = job, !.who = who]
           /\ Spawn(job, who)
     \/ /\ op \in {"clear", "reset1"}
        /\ svc' = [Idle EXCEPT !.op = op, !.at = "reset", !.job = "reset", !.who = who]
        /\ UNCHANGED threads
  /\ UNCHANGED <<image, drives, ok, faults, copied>>

enableRobot_cb       == Request("enable", Modules)
disableRobot_cb      == Request("disable", Modules)
(* Mutant: the first client only.                                          *)
clearFault_cb_first  == \E m \in Modules : Request("clear", {m})
clearFault_cb        == Request("clear", Modules)
recognizePosition_cb == Request("recognize", Modules)
enable_cb(m)         == Request("enable1", {m})
reset_fault_cb(m)    == Request("reset1", {m})

StartJob(job) ==
  /\ svc' = [svc EXCEPT !.at = "join", !.job = job]
  /\ Spawn(job, svc.who)
  /\ NewPass

StartReset ==
  /\ svc' = [svc EXCEPT !.at = "reset", !.job = "reset"]
  /\ NewPass
  /\ UNCHANGED threads

(* getFaultState, one axis after the other, and what the caller does next. *)
getFaultState ==
  /\ svc.at = "faultcheck"
  /\ \E x \in Axis \ seen :
       IF drv[x] = "fault"
       THEN IF svc.op = "enable"
            THEN Answer(FALSE) /\ NewPass /\ UNCHANGED threads
            ELSE StartReset /\ UNCHANGED reply
       ELSE IF seen \cup {x} = Axis
            THEN StartJob(IF svc.op = "enable" THEN "enable" ELSE "disable") /\ UNCHANGED reply
            ELSE seen' = seen \cup {x} /\ UNCHANGED <<svc, off, reply, threads>>
  /\ UNCHANGED <<image, drives, ok, faults, copies>>

(* clearFault_cb resets the modules one after the other, itself.  seen     *)
(* keeps the axes of the modules whose reset has begun.                    *)
ResetNext ==
  /\ svc.at = "reset"
  /\ \A m \in Modules : pc[m] = "done"
  /\ \/ \E m \in svc.who :
          /\ <<m, 1>> \notin seen
          /\ Spawn("reset", {m})
          /\ seen' = seen \cup {<<m, 1>>}
          /\ UNCHANGED <<svc, off, reply>>
     \/ /\ \A m \in svc.who : <<m, 1>> \in seen
        /\ IF svc.op = "reset1"
           THEN Answer(TRUE) /\ NewPass
           ELSE svc' = [svc EXCEPT !.at = "poll"] /\ NewPass /\ UNCHANGED reply
        /\ UNCHANGED threads
  /\ UNCHANGED <<image, drives, ok, faults, copies>>

(* pthread_join of every thread.  What the recognition threads returned is *)
(* not looked at.                                                          *)
Join ==
  /\ svc.at = "join"
  /\ \A m \in svc.who : pc[m] = "done"
  /\ NewPass
  /\ IF svc.job = "recognize"
     THEN Answer(TRUE)
     ELSE svc' = [svc EXCEPT !.at = "poll"] /\ UNCHANGED reply
  /\ UNCHANGED <<image, drives, threads, ok, faults, copies>>

(* The end of a polling loop: its condition held (b) or its time was over. *)
PollEnds(b) ==
  \/ /\ svc.op # "recognize"
     /\ Answer(b) /\ NewPass /\ UNCHANGED threads
  \/ /\ svc.op = "recognize" /\ svc.job = "reset"
     /\ svc' = [svc EXCEPT !.at = "join", !.job = "disable", !.cleared = b]
     /\ Spawn("disable", svc.who)
     /\ NewPass /\ UNCHANGED reply
  \/ /\ svc.op = "recognize" /\ svc.job = "disable"
     /\ IF b /\ svc.cleared
        THEN StartJob("recognize") /\ UNCHANGED reply
        ELSE Answer(FALSE) /\ NewPass /\ UNCHANGED threads

(* One read of a pass: of axis x, by isEnabled or isWarning.               *)
Wanted(x) ==
  /\ x[1] \in svc.who \ off
  /\ x \notin seen
  /\ x[2] = 2 => <<x[1], 1>> \in seen

PassGood(x) ==
  CASE svc.job = "enable"  -> drv[x] = "op"
    [] svc.job = "reset"   -> drv[x] # "fault"
    [] svc.job = "disable" -> ~(drv[x] = "op" /\ x[2] = 2)

(* Mutant: one client enabled is enough.                                   *)
PassDone_any(s, o) ==
  IF svc.job = "disable" THEN o = svc.who ELSE \E m \in svc.who : {m} \X {1, 2} \subseteq s

(* The pass has read all it had to: isEnabled of every client held, or of  *)
(* none, or isWarning of none.                                             *)
PassDone(s, o) ==
  IF svc.job = "disable" THEN o = svc.who ELSE s = svc.who \X {1, 2}

(* rclcpp::ok() is looked at before each pass.                             *)
Polling == ok \/ seen # {}

Poll ==
  /\ svc.at = "poll"
  /\ Polling
  /\ \E x \in Axis :
       /\ Wanted(x)
       /\ IF PassGood(x)
          THEN LET o == IF svc.job = "disable" /\ drv[x] # "op" THEN off \cup {x[1]} ELSE off
                   s == seen \cup {x}
               IN IF PassDone(s, o)
                  THEN PollEnds(TRUE)
                  ELSE seen' = s /\ off' = o /\ UNCHANGED <<svc, reply, threads>>
          ELSE NewPass /\ UNCHANGED <<svc, reply, threads>>
  /\ UNCHANGED <<image, drives, ok, faults, copies>>

(* A pass that failed after 20 s (10 s for the faults) is the last one.    *)
PollTimeout ==
  /\ svc.at = "poll"
  /\ Polling
  /\ \E x \in Axis : Wanted(x) /\ ~PassGood(x)
  /\ PollEnds(FALSE)
  /\ UNCHANGED <<image, drives, ok, faults, copies>>

(* rclcpp is shut down while polling: the loop ends and the callback       *)
(* returns without having set success.                                     *)
PollAborted ==
  /\ svc.at = "poll"
  /\ ~Polling
  /\ PollEnds(FALSE)
  /\ UNCHANGED <<image, drives, ok, faults, copies>>

Shutdown ==
  /\ MayShutdown
  /\ ok
  /\ ok' = FALSE
  /\ UNCHANGED <<image, drives, threads, services, faults, copies>>

(* ElfinHWInterface::write for one module, from the same thread as the     *)
(* services, so never while one runs.  Enabled and in position mode it     *)
(* sends what the controller commands, else the position read() has found  *)
(* a moment before: an axis that is operational, or was so then, may have  *)
(* moved since.  (The mode an axis displays lags the commanded one; p or q *)
(* being the actual position covers that.)                                 *)
inPosBasedMode(m) == \A a \in {1, 2} : drv[<<m, a>>] = "op"

Sent(x, p) == inPosBasedMode(x[1]) \/ drv[x] # "disabled" \/ p = actual[x]

HwWrite(m) ==
  /\ HwLoop
  /\ ok
  /\ svc.at = "idle"
  /\ \E p, q \in Pos :
       /\ Sent(<<m, 1>>, p) /\ Sent(<<m, 2>>, q)
       /\ target' = [target EXCEPT ![<<m, 1>>] = p, ![<<m, 2>>] = q]
  /\ UNCHANGED <<ctl, mode, drives, threads, services, ok, faults, copies>>

-----------------------------------------------------------------------------
ServiceRequest ==
  \/ enableRobot_cb \/ disableRobot_cb \/ clearFault_cb \/ recognizePosition_cb
  \/ \E m \in Modules : enable_cb(m) \/ reset_fault_cb(m)

ServiceStep == getFaultState \/ ResetNext \/ Join \/ Poll \/ PollAborted

DriveNext == \E x \in Axis : DriveStep(x) \/ Fault(x) \/ Move(x) \/ PoseBegin(x) \/ PoseFinish(x)

Next ==
  \/ ServiceRequest
  \/ ServiceStep
  \/ PollTimeout
  \/ \E m \in Modules : ThreadStep(m) \/ ThreadTimeout(m) \/ HwWrite(m)
  \/ DriveNext
  \/ Shutdown

Spec == Init /\ [][Next]_vars

(* Fairness: threads are scheduled; a wait whose condition keeps failing   *)
(* runs out of time (CLOCK_REALTIME passes its bound) however often the    *)
(* status flickers in between.  Nothing is assumed of the drives.          *)
Fairness ==
  /\ WF_vars(ServiceStep)
  /\ SF_vars(PollTimeout)
  /\ \A m \in Modules : WF_vars(ThreadStep(m)) /\ SF_vars(ThreadTimeout(m))

FairSpec == Spec /\ Fairness

-----------------------------------------------------------------------------
Partner(x) == <<x[1], 3 - x[2]>>

Rises(x) == drv[x] # "op" /\ drv'[x] = "op"

Answers(op, b) == svc.at # "idle" /\ svc'.at = "idle" /\ reply' = [op |-> op, ok |-> b]

(* An axis that becomes operational while its module is being enabled is   *)
(* commanded to where it is: setEnable's copy of the actual position is    *)
(* still exact three rungs and several seconds later, whatever was         *)
(* recognised, reset or abandoned before; except for an axis that was      *)
(* still operational and moved while its position was being copied.        *)
NoJump ==
  [][\A x \in Axis : Rises(x) /\ pc[x[1]] \in Ladder => target[x] = actual[x] \/ x \in caught]_vars

LastRungs == {"cw0f", "wait27", "cw1f"}

(* setEnable brings the two axes of a module up together: when one becomes *)
(* operational on its last rungs the other has switched on, or has failed  *)
(* since.  (Not after a shutdown of rclcpp, which ends the waits.)         *)
PairedRise ==
  [][\A x \in Axis : Rises(x) /\ ok /\ pc[x[1]] \in LastRungs
       => drv[Partner(x)] \in {"on", "op", "fault"}]_vars

(* "robot is enabled" / "elfin module is enabled": every axis asked for is *)
(* operational, unless it failed while the others were being read or was   *)
(* still to obey a controlword that switches it off.                       *)
EnabledReplyTruthful ==
  [][\A op \in {"enable", "enable1"} : Answers(op, TRUE) =>
       \A x \in svc.who \X {1, 2} : drv[x] \in {"op", "fault"} \/ ctl[x] = "0x06"]_vars

(* "Faults are cleared": no axis of the robot is left armed or held in     *)
(* fault reset, the healthy ones included.                                 *)
ClearLeavesDisarmed ==
  [][Answers("clear", TRUE) => \A x \in Axis : ctl[x] = "0x06"]_vars

(* No thread outlives its service, and whatever way its threads ended      *)
(* (success, refusal, any timeout, shutdown) a service leaves both axes of *)
(* a module with the same controlword and none in recognition mode.        *)
QuietWhenIdle ==
  svc.at = "idle" =>
    /\ \A m \in Modules : pc[m] = "done" /\ ctl[<<m, 1>>] = ctl[<<m, 2>>]
    /\ \A x \in Axis : mode[x] # "pose" /\ ctl[x] # "0x86"

(* The inductive invariant behind NoJump, PairedRise and QuietWhenIdle.     *)
(* A thread runs for the service in progress only; the controlwords of a   *)
(* module differ only between the two writes of one label; the targets are *)
(* the actual positions from the copy to the end of the ladder, of axes    *)
(* that were not caught moving; an axis    *)
(* that switched on stays on up to the last rung; recognition mode is      *)
(* confined to the channel being recognised.                               *)
ThreadsOwned ==
  /\ svc.at \in {"idle", "faultcheck", "poll"} => \A m \in Modules : pc[m] = "done"
  /\ \A m \in Modules : pc[m] # "done" => m \in svc.who

Written == [cw06 |-> "0x06", cw07 |-> "0x07", cw0f |-> "0x0f", cw1f |-> "0x1f", dcw |-> "0x06"]

WordsPaired(m) ==
  LET c1 == ctl[<<m, 1>>]
      c2 == ctl[<<m, 2>>]
  IN /\ c1 = "0x86" => pc[m] = "clr06" /\ ax[m] = 1
     /\ c2 = "0x86" => pc[m] = "clr06" /\ ax[m] = 2
     /\ pc[m] \in Clear /\ ax[m] = 2 => c1 = "0x06"
     /\ pc[m] \in DOMAIN Written /\ ax[m] = 2 => c1 = Written[pc[m]]
     /\ c1 # c2 => pc[m] \in Clear \/ (pc[m] \in DOMAIN Written /\ ax[m] = 2)

Synced(x) == target[x] = actual[x] \/ x \in caught

TargetsSynced(m) ==
  /\ pc[m] \in Ladder => Synced(<<m, 1>>) /\ Synced(<<m, 2>>)
  /\ pc[m] \in {"read", "copy"} /\ ax[m] = 2 => Synced(<<m, 1>>)
  /\ pc[m] = "copy" => copied[m] = actual[cur(m)] \/ cur(m) \in caught

RungHeld(m) ==
  /\ pc[m] \in LastRungs \cup {"wait23"} => \A a \in {1, 2} : ctl[<<m, a>>] \in {"0x07", "0x0f", "0x1f"}
  /\ ok /\ pc[m] \in LastRungs => \A a \in {1, 2} : drv[<<m, a>>] \in {"on", "op", "fault"}
  /\ ok /\ pc[m] = "wait23" /\ ax[m] = 2 => drv[<<m, 1>>] \in {"on", "op", "fault"}

PoseConfined(x) ==
  mode[x] = "pose" => pc[x[1]] \in {"pStart", "pWait1", "pWait2", "pEnd"} /\ ax[x[1]] = x[2]

ServoInv ==
  /\ ThreadsOwned
  /\ \A m \in Modules : WordsPaired(m) /\ TargetsSynced(m) /\ RungHeld(m)
  /\ \A x \in Axis : PoseConfined(x)

(* The inductive invariant behind EnabledReplyTruthful and                 *)
(* ClearLeavesDisarmed.  A service takes the course of its callback; an    *)
(* operational axis is not told to switch off by 0x07, which only a ladder *)
(* run through after a shutdown does, and then no pass is begun any more;  *)
(* what a pass has found operational stays so, fails or obeys 0x06; a      *)
(* module whose reset is over has 0x06 on both axes.                       *)
Course == [none      |-> {<<"idle", "none">>},
           enable    |-> {<<"faultcheck", "none">>, <<"join", "enable">>, <<"poll", "enable">>},
           enable1   |-> {<<"join", "enable">>, <<"poll", "enable">>},
           disable   |-> {<<"join", "disable">>, <<"poll", "disable">>},
           clear     |-> {<<"reset", "reset">>, <<"poll", "reset">>},
           reset1    |-> {<<"reset", "reset">>},
           recognize |-> {<<"faultcheck", "none">>, <<"reset", "reset">>, <<"poll", "reset">>,
                          <<"join", "disable">>, <<"poll", "disable">>, <<"join", "recognize">>}]

OnCourse ==
  /\ <<svc.at, svc.job>> \in Course[svc.op]
  /\ svc.op = "clear" => svc.who = Modules

Passing == ok \/ (svc.at = "poll" /\ seen # {})

SwitchedOn(m) ==
  /\ pc[m] \in {"mode8", "wait21", "cw07"} => ctl[<<m, 2>>] = "0x06"
  /\ pc[m] \in {"mode8", "wait21"} \/ (pc[m] = "cw07" /\ ax[m] = 1) => ctl[<<m, 1>>] = "0x06"
  /\ ok /\ pc[m] = "cw07" => drv[<<m, 1>>] # "op" /\ drv[<<m, 2>>] # "op"
  /\ ok /\ pc[m] = "wait21" /\ ax[m] = 2 => drv[<<m, 1>>] # "op"
  /\ Passing => \A a \in {1, 2} : ctl[<<m, a>>] = "0x07" => drv[<<m, a>>] # "op"

Reads(x) == drv[x] \in {"op", "fault"} \/ ctl[x] = "0x06"

SeenReads == svc.at = "poll" /\ svc.job = "enable" => \A x \in seen : Reads(x)

Disarmed(m) == ctl[<<m, 1>>] = "0x06" /\ ctl[<<m, 2>>] = "0x06"

ResetHeld(m) ==
  /\ svc.at = "reset" => pc[m] = "done" \/ (pc[m] \in Clear /\ back[m] = "done")
  /\ svc.at = "reset" /\ <<m, 1>> \in seen /\ pc[m] = "done" => Disarmed(m)
  /\ svc.at = "poll" /\ svc.op = "clear" => Disarmed(m)

AnswersInv ==
  /\ OnCourse
  /\ SeenReads
  /\ \A m \in Modules : SwitchedOn(m) /\ ResetHeld(m)

(* A callback always returns: the joins and the polling loops end.         *)
ServiceAnswers == svc.at # "idle" ~> svc.at = "idle"

-----------------------------------------------------------------------------
(* Not so: what the copy is for and what two answers say, and TLC refutes  *)
(* (README, Disagreements); no run checks these.                           *)

(* An axis that becomes operational while its module is being enabled is   *)
(* commanded to where it is (elfin_ethercat_client.cpp:640), any axis.     *)
NoJumpAtAll ==
  [][\A x \in Axis : Rises(x) /\ pc[x[1]] \in Ladder => target[x] = actual[x]]_vars

(* "robot is disabled" (elfin_ethercat_driver.cpp:719): no axis stays      *)
(* operational, except for the time it takes to obey.                      *)
DisabledReplyTruthful ==
  [][Answers("disable", TRUE) => \A x \in Axis : drv[x] = "op" => ctl[x] = "0x06"]_vars

(* "positions are recognized" (elfin_ethercat_driver.cpp:801): no axis     *)
(* still reports error 0x2000.                                             *)
RecognizedReplyTruthful ==
  [][Answers("recognize", TRUE) => \A x \in Axis : ~unposed[x]]_vars
=============================================================================
