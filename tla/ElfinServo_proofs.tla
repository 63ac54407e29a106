-------------------------- MODULE ElfinServo_proofs --------------------------
EXTENDS ElfinServo, TLAPS

LEMMA InitType == Init => TypeOK
BY ServoAssumption DEF Init, TypeOK, Axis, Controlword, Mode, DriveState, PoseCmd, PoseSt,
   Label, Idle, Svc, Reply, Op, At, Job

LEMMA DriveType == TypeOK /\ DriveNext => TypeOK'
<1> SUFFICES ASSUME TypeOK, DriveNext PROVE TypeOK'
  OBVIOUS
<1> USE DEF TypeOK, image, threads, services, copies
<1>1. PICK x \in Axis : DriveStep(x) \/ Fault(x) \/ Move(x) \/ PoseBegin(x) \/ PoseFinish(x)
  BY DEF DriveNext
<1>2. CASE DriveStep(x)
  BY <1>2 DEF DriveStep, DriveGoes, DriveState
<1>3. CASE Fault(x)
  BY <1>3, ServoAssumption DEF Fault, DriveState
<1>4. CASE Move(x)
  BY <1>4 DEF Move
<1>5. CASE PoseBegin(x)
  BY <1>5 DEF PoseBegin, PoseSt
<1>6. CASE PoseFinish(x)
  BY <1>6 DEF PoseFinish, PoseSt
<1>7. QED
  BY <1>1, <1>2, <1>3, <1>4, <1>5, <1>6

(* A thread that moves on stays within its labels.                         *)
LEMMA GoToType ==
  ASSUME TypeOK, NEW m \in Modules, NEW l \in Label, GoTo(m, l) \/ Advance(m, l)
  PROVE  /\ pc' \in [Modules -> Label]
         /\ ax' \in [Modules -> {1, 2}]
BY DEF TypeOK, GoTo, Advance

LEMMA ThreadType ==
  ASSUME TypeOK, NEW m \in Modules, ThreadStep(m) \/ ThreadTimeout(m)
  PROVE  TypeOK'
<1> USE DEF TypeOK, drives, services, copies
<1>x. cur(m) \in Axis
  BY DEF cur, Axis
<1>l. \A l \in Label : GoTo(m, l) \/ Advance(m, l) =>
         pc' \in [Modules -> Label] /\ ax' \in [Modules -> {1, 2}]
  BY GoToType
<1>1. CASE setEnable(m) /\ UNCHANGED <<services, ok, faults>>
  <2>1. CASE EnableChecks(m) /\ UNCHANGED copies
    BY <1>1, <2>1, <1>x, <1>l DEF EnableChecks, ReadErrorCode, isWarning, isEnabled, Call, image, Label, Clear, Pose, Checks
  <2>2. CASE ReadActual(m) \/ WriteTarget(m)
    BY <1>1, <2>2, <1>x, <1>l, ServoAssumption DEF ReadActual, WriteTarget, image, Label, Ladder
  <2>3. CASE EnableLadder(m) /\ UNCHANGED copies
    BY <1>1, <2>3, <1>x, <1>l DEF EnableLadder, WriteControlword, ModePosition, SetMode, Await, image, Controlword, Mode, Label, Ladder
  <2>4. QED
    BY <1>1, <2>1, <2>2, <2>3 DEF setEnable
<1>2. CASE setDisable(m) /\ UNCHANGED <<services, ok, faults, copies>>
  BY <1>2, <1>x, <1>l DEF setDisable, isEnabled, WriteControlword, image, Controlword, Label
<1>3. CASE recognizePoseCmd(m) /\ UNCHANGED <<services, ok, faults, copies>>
  BY <1>3, <1>x, <1>l DEF recognizePoseCmd, isWarning, Call, image, Label, Pose, Clear
<1>4. CASE clearPoseFault(m) /\ UNCHANGED <<services, ok, faults, copies>>
  BY <1>4, <1>x, <1>l DEF clearPoseFault, Controlword, Label, Pose, Clear, Checks
<1>5. CASE recognizePose(m) /\ UNCHANGED <<services, ok, faults, copies>>
  BY <1>5, <1>x, <1>l DEF recognizePose, SetMode, WriteSDO, AfterPose, image, Mode, PoseCmd, Label, Pose, Checks
<1>6. CASE ThreadTimeout(m)
  BY <1>6, <1>x, <1>l DEF ThreadTimeout, LadderTimeout, AwaitTimeout, PoseTimeout, SetMode, image, Mode, Label
<1>7. QED
  BY <1>1, <1>2, <1>3, <1>4, <1>5, <1>6 DEF ThreadStep

(* What a service may change: the threads it starts and its own record.    *)
ThreadsTyped ==
  /\ pc \in [Modules -> Label]
  /\ ax \in [Modules -> {1, 2}]
  /\ back \in [Modules -> {"done", "pGuard", "chkw"}]

ServiceTyped == svc \in Svc /\ reply \in Reply /\ seen \subseteq Axis /\ off \subseteq Modules

LEMMA ServiceFrame ==
  ASSUME TypeOK, UNCHANGED <<image, drives, ok, faults, copied>>, caught' \in {caught, {}}, ThreadsTyped', ServiceTyped'
  PROVE  TypeOK'
BY DEF TypeOK, ThreadsTyped, ServiceTyped, image, drives

LEMMA ThreadsFrame ==
  ASSUME TypeOK
  PROVE  /\ UNCHANGED threads => ThreadsTyped'
         /\ \A job \in DOMAIN First, who \in SUBSET Modules : Spawn(job, who) => ThreadsTyped'
BY DEF TypeOK, ThreadsTyped, threads, Spawn, First, Label, Clear, Checks

(* The records the services are built from are of their type.              *)
LEMMA SvcType ==
  ASSUME TypeOK
  PROVE  /\ Idle \in Svc
         /\ \A op \in Op, at \in At, job \in Job, who \in SUBSET Modules :
              [Idle EXCEPT !.op = op, !.at = at, !.job = job, !.who = who] \in Svc
         /\ \A op \in Op, at \in At, who \in SUBSET Modules :
              [Idle EXCEPT !.op = op, !.at = at, !.who = who] \in Svc
         /\ \A at \in At, job \in Job : [svc EXCEPT !.at = at, !.job = job] \in Svc
         /\ \A at \in At, job \in Job, b \in BOOLEAN :
              [svc EXCEPT !.at = at, !.job = job, !.cleared = b] \in Svc
         /\ \A at \in At : [svc EXCEPT !.at = at] \in Svc
         /\ \A op \in Op, b \in BOOLEAN : [op |-> op, ok |-> b] \in Reply
         /\ svc \in Svc /\ reply \in Reply
         /\ svc.op \in Op /\ svc.job \in Job /\ svc.who \in SUBSET Modules
BY DEF TypeOK, Idle, Svc, Reply, Op, At, Job

LEMMA AnswerType ==
  ASSUME TypeOK, NEW b \in BOOLEAN, Answer(b), NewPass
  PROVE  ServiceTyped'
BY SvcType DEF Answer, NewPass, ServiceTyped

LEMMA StartJobType ==
  ASSUME TypeOK, NEW job \in {"enable", "disable", "recognize"}, StartJob(job), UNCHANGED reply
  PROVE  ThreadsTyped' /\ ServiceTyped'
<1>1. job \in DOMAIN First /\ job \in Job /\ "join" \in At
  BY DEF First, Job, At
<1>2. ThreadsTyped'
  BY <1>1, SvcType, ThreadsFrame DEF StartJob
<1>3. ServiceTyped'
  BY <1>1, SvcType DEF StartJob, NewPass, ServiceTyped
<1>4. QED
  BY <1>2, <1>3

LEMMA PollEndsType ==
  ASSUME TypeOK, NEW b \in BOOLEAN, PollEnds(b)
  PROVE  ThreadsTyped' /\ ServiceTyped'
<1>1. CASE Answer(b) /\ NewPass /\ UNCHANGED threads
  BY <1>1, AnswerType, ThreadsFrame
<1>2. CASE /\ svc' = [svc EXCEPT !.at = "join", !.job = "disable", !.cleared = b]
           /\ Spawn("disable", svc.who)
           /\ NewPass /\ UNCHANGED reply
  <2>1. "disable" \in DOMAIN First /\ "disable" \in Job /\ "join" \in At
    BY DEF First, Job, At
  <2>2. ThreadsTyped'
    BY <1>2, <2>1, SvcType, ThreadsFrame
  <2>3. ServiceTyped'
    BY <1>2, <2>1, SvcType DEF NewPass, ServiceTyped
  <2>4. QED
    BY <2>2, <2>3
<1>3. CASE StartJob("recognize") /\ UNCHANGED reply
  BY <1>3, StartJobType
<1>4. CASE Answer(FALSE) /\ NewPass /\ UNCHANGED threads
  BY <1>4, AnswerType, ThreadsFrame
<1>5. QED
  BY <1>1, <1>2, <1>3, <1>4 DEF PollEnds

LEMMA RequestType ==
  ASSUME TypeOK, NEW op \in Services, NEW who \in SUBSET Modules, Request(op, who)
  PROVE  TypeOK'
<1>1. op \in Op /\ {"faultcheck", "join", "reset"} \subseteq At /\ {"disable", "enable", "reset"} \subseteq Job
  BY DEF Op, At, Job
<1>2. reply' \in Reply /\ seen' = {} /\ off' = {}
  BY <1>1, SvcType DEF Request, NewPass
<1>3. svc' \in Svc /\ ThreadsTyped'
  <2>1. CASE svc' = [Idle EXCEPT !.op = op, !.at = "faultcheck", !.who = who] /\ UNCHANGED threads
    BY <1>1, <2>1, SvcType, ThreadsFrame
  <2>2. ASSUME NEW job \in {"disable", "enable"},
               svc' = [Idle EXCEPT !.op = op, !.at = "join", !.job = job, !.who = who],
               Spawn(job, who)
        PROVE  svc' \in Svc /\ ThreadsTyped'
    <3>1. job \in DOMAIN First /\ job \in Job
      BY DEF First, Job
    <3>2. QED
      BY <1>1, <2>2, <3>1, SvcType, ThreadsFrame
  <2>3. CASE svc' = [Idle EXCEPT !.op = op, !.at = "reset", !.job = "reset", !.who = who] /\ UNCHANGED threads
    BY <1>1, <2>3, SvcType, ThreadsFrame
  <2>4. QED
    BY <2>1, <2>2, <2>3 DEF Request
<1>4. QED
  BY <1>2, <1>3, ServiceFrame DEF Request, ServiceTyped, copies

LEMMA ServiceType ==
  ASSUME TypeOK, ServiceRequest \/ ServiceStep \/ PollTimeout
  PROVE  TypeOK'
<1>1. CASE ServiceRequest
  <2>1. PICK op \in Services, who \in SUBSET Modules : Request(op, who)
    BY <1>1 DEF ServiceRequest, enableRobot_cb, disableRobot_cb, clearFault_cb, recognizePosition_cb,
                enable_cb, reset_fault_cb, Services
  <2>2. QED
    BY <2>1, RequestType
<1>2. CASE getFaultState
  <2>1. CASE Answer(FALSE) /\ NewPass /\ UNCHANGED threads
    BY <1>2, <2>1, AnswerType, ThreadsFrame, ServiceFrame DEF getFaultState, copies
  <2>2. CASE StartReset /\ UNCHANGED reply
    <3>1. "reset" \in At /\ "reset" \in Job
      BY DEF At, Job
    <3>2. ServiceTyped'
      BY <2>2, <3>1, SvcType DEF StartReset, NewPass, ServiceTyped
    <3>3. QED
      BY <1>2, <2>2, <3>2, ThreadsFrame, ServiceFrame DEF getFaultState, StartReset, copies
  <2>3. ASSUME NEW job \in {"enable", "disable"}, StartJob(job), UNCHANGED reply PROVE TypeOK'
    BY <1>2, <2>3, StartJobType, ServiceFrame DEF getFaultState, copies
  <2>4. ASSUME NEW x \in Axis, seen' = seen \cup {x}, UNCHANGED <<svc, off, reply, threads>> PROVE TypeOK'
    <3>1. ServiceTyped'
      BY <2>4 DEF TypeOK, ServiceTyped
    <3>2. QED
      BY <1>2, <2>4, <3>1, ThreadsFrame, ServiceFrame DEF getFaultState, copies
  <2>5. QED
    BY <1>2, <2>1, <2>2, <2>3, <2>4 DEF getFaultState
<1>3. CASE ResetNext
  <2>1. ASSUME NEW m \in svc.who, Spawn("reset", {m}), seen' = seen \cup {<<m, 1>>},
               UNCHANGED <<svc, off, reply>>
        PROVE  TypeOK'
    <3>1. "reset" \in DOMAIN First /\ m \in Modules
      BY SvcType DEF First
    <3>2. ServiceTyped'
      BY <2>1, <3>1 DEF TypeOK, ServiceTyped, Axis
    <3>3. QED
      BY <1>3, <2>1, <3>1, <3>2, ThreadsFrame, ServiceFrame DEF ResetNext, copies
  <2>2. CASE Answer(TRUE) /\ NewPass /\ UNCHANGED threads
    BY <1>3, <2>2, AnswerType, ThreadsFrame, ServiceFrame DEF ResetNext, copies
  <2>3. CASE svc' = [svc EXCEPT !.at = "poll"] /\ NewPass /\ UNCHANGED <<reply, threads>>
    <3>1. ServiceTyped'
      BY <2>3, SvcType DEF NewPass, ServiceTyped, At
    <3>2. QED
      BY <1>3, <2>3, <3>1, ThreadsFrame, ServiceFrame DEF ResetNext, copies
  <2>4. QED
    BY <1>3, <2>1, <2>2, <2>3 DEF ResetNext
<1>4. CASE Join
  <2>1. CASE Answer(TRUE) /\ NewPass
    BY <1>4, <2>1, AnswerType, ThreadsFrame, ServiceFrame DEF Join, copies
  <2>2. CASE svc' = [svc EXCEPT !.at = "poll"] /\ NewPass /\ UNCHANGED reply
    <3>1. ServiceTyped'
      BY <2>2, SvcType DEF NewPass, ServiceTyped, At
    <3>2. QED
      BY <1>4, <2>2, <3>1, ThreadsFrame, ServiceFrame DEF Join, copies
  <2>3. QED
    BY <1>4, <2>1, <2>2 DEF Join
<1>5. CASE Poll
  <2>1. PICK x \in Axis, o \in {off} \cup {off \cup {y[1]} : y \in Axis} :
          \/ PollEnds(TRUE)
          \/ seen' = seen \cup {x} /\ off' = o /\ UNCHANGED <<svc, reply, threads>>
          \/ NewPass /\ UNCHANGED <<svc, reply, threads>>
    BY <1>5 DEF Poll
  <2>2. CASE PollEnds(TRUE)
    BY <1>5, <2>2, PollEndsType, ServiceFrame DEF Poll, copies
  <2>3. CASE seen' = seen \cup {x} /\ off' = o /\ UNCHANGED <<svc, reply, threads>>
    <3>1. ServiceTyped'
      BY <2>3 DEF TypeOK, ServiceTyped, Axis
    <3>2. QED
      BY <1>5, <2>3, <3>1, ThreadsFrame, ServiceFrame DEF Poll, copies
  <2>4. CASE NewPass /\ UNCHANGED <<svc, reply, threads>>
    <3>1. ServiceTyped'
      BY <2>4 DEF TypeOK, ServiceTyped, NewPass
    <3>2. QED
      BY <1>5, <2>4, <3>1, ThreadsFrame, ServiceFrame DEF Poll, copies
  <2>5. QED
    BY <2>1, <2>2, <2>3, <2>4
<1>6. CASE PollTimeout \/ PollAborted
  BY <1>6, PollEndsType, ServiceFrame DEF PollTimeout, PollAborted, copies
<1>7. QED
  BY <1>1, <1>2, <1>3, <1>4, <1>5, <1>6 DEF ServiceStep

LEMMA HwType ==
  ASSUME TypeOK, NEW m \in Modules, HwWrite(m)
  PROVE  TypeOK'
<1>1. <<m, 1>> \in Axis /\ <<m, 2>> \in Axis
  BY DEF Axis
<1>2. PICK p \in Pos, q \in Pos : target' = [target EXCEPT ![<<m, 1>>] = p, ![<<m, 2>>] = q]
  BY <1>1 DEF HwWrite, TypeOK
<1>3. target' \in [Axis -> Pos]
  BY <1>2 DEF TypeOK
<1>4. QED
  BY <1>3 DEF HwWrite, TypeOK, drives, threads, services, copies

(* The state of clients, drives and services keeps its types: in           *)
(* particular no answer, controlword or target is ever outside its set.    *)
THEOREM TypeCorrect == Spec => []TypeOK
<1>1. Init => TypeOK
  BY InitType
<1>2. TypeOK /\ [Next]_vars => TypeOK'
  <2> SUFFICES ASSUME TypeOK, [Next]_vars PROVE TypeOK'
    OBVIOUS
  <2>1. CASE ServiceRequest \/ ServiceStep \/ PollTimeout
    BY <2>1, ServiceType
  <2>2. ASSUME NEW m \in Modules, ThreadStep(m) \/ ThreadTimeout(m) PROVE TypeOK'
    BY <2>2, ThreadType
  <2>3. ASSUME NEW m \in Modules, HwWrite(m) PROVE TypeOK'
    BY <2>3, HwType
  <2>4. CASE DriveNext
    BY <2>4, DriveType
  <2>5. CASE Shutdown
    BY <2>5 DEF Shutdown, TypeOK, image, drives, threads, services, copies
  <2>6. CASE UNCHANGED vars
    BY <2>6 DEF vars, TypeOK, image, drives, threads, services, copies
  <2>7. QED
    BY <2>1, <2>2, <2>3, <2>4, <2>5, <2>6 DEF Next
<1>3. QED
  BY <1>1, <1>2, PTL DEF Spec

-----------------------------------------------------------------------------
(* The part of the invariant that is about one module.                     *)
ModuleInv(m) ==
  /\ WordsPaired(m)
  /\ TargetsSynced(m)
  /\ RungHeld(m)
  /\ \A a \in {1, 2} : PoseConfined(<<m, a>>)

LEMMA AxisPair == \A x \in Axis : \E m \in Modules, a \in {1, 2} : x = <<m, a>>
BY DEF Axis

LEMMA ByModule == ServoInv <=> ThreadsOwned /\ \A m \in Modules : ModuleInv(m)
<1>1. \A x \in Axis : \E m \in Modules, a \in {1, 2} : x = <<m, a>>
  BY AxisPair
<1>2. \A m \in Modules, a \in {1, 2} : <<m, a>> \in Axis
  BY DEF Axis
<1>3. (\A x \in Axis : PoseConfined(x)) <=> \A m \in Modules : \A a \in {1, 2} : PoseConfined(<<m, a>>)
  BY <1>1, <1>2
<1>4. QED
  BY <1>3 DEF ServoInv, ModuleInv

LEMMA ByModuleNext ==
  ASSUME ThreadsOwned', \A m \in Modules : ModuleInv(m)'
  PROVE  ServoInv'
<1>1. \A x \in Axis : \E m \in Modules, a \in {1, 2} : x = <<m, a>>
  BY AxisPair
<1>2. \A m \in Modules : \A a \in {1, 2} : PoseConfined(<<m, a>>)'
  BY DEF ModuleInv
<1>3. \A x \in Axis : PoseConfined(x)'
  BY <1>1, <1>2
<1>4. QED
  BY <1>3 DEF ServoInv, ModuleInv

LEMMA InitInv == Init => ServoInv
BY DEF Init, ServoInv, Idle, ThreadsOwned, WordsPaired, TargetsSynced, RungHeld, PoseConfined,
       Written, Clear, Ladder, LastRungs, Axis

(* A module none of whose variables changes keeps its invariant.           *)
LEMMA ModuleFrame ==
  ASSUME NEW n \in Modules, ModuleInv(n),
         pc'[n] = pc[n], ax'[n] = ax[n], ok' => ok,
         \A a \in {1, 2} : /\ ctl'[<<n, a>>] = ctl[<<n, a>>]
                           /\ mode'[<<n, a>>] = mode[<<n, a>>]
                           /\ target'[<<n, a>>] = target[<<n, a>>]
                           /\ actual'[<<n, a>>] = actual[<<n, a>>]
                           /\ drv'[<<n, a>>] = drv[<<n, a>>]
                           /\ <<n, a>> \in caught => <<n, a>> \in caught',
         ax[n] \in {1, 2}, copied'[n] = copied[n]
  PROVE  ModuleInv(n)'
<1>1. \A a \in {1, 2} : /\ (<<n, a>> \in caught => <<n, a>> \in caught')
                        /\ Synced(<<n, a>>) => Synced(<<n, a>>)'
  BY DEF Synced
<1>2. cur(n)' = cur(n) /\ cur(n) = <<n, ax[n]>> /\ actual'[cur(n)] = actual[cur(n)]
  BY DEF cur
<1>3. TargetsSynced(n)'
  BY <1>1, <1>2 DEF ModuleInv, TargetsSynced
<1>4. WordsPaired(n)'
  BY DEF ModuleInv, WordsPaired
<1>5. RungHeld(n)' /\ \A a \in {1, 2} : PoseConfined(<<n, a>>)'
  BY DEF ModuleInv, RungHeld, PoseConfined
<1>6. QED
  BY <1>3, <1>4, <1>5 DEF ModuleInv

LEMMA OtherModule ==
  ASSUME TypeOK, ServoInv, NEW m \in Modules, NEW n \in Modules \ {m}, ThreadStep(m) \/ ThreadTimeout(m)
  PROVE  ModuleInv(n)'
<1>1. ModuleInv(n)
  BY ByModule
<1>2. pc'[n] = pc[n] /\ ax'[n] = ax[n] /\ UNCHANGED <<ok, actual, drv>>
  BY DEF TypeOK, ThreadStep, ThreadTimeout, setEnable, EnableChecks, ReadErrorCode, isWarning, isEnabled,
         ReadActual, WriteTarget, EnableLadder, WriteControlword, ModePosition, Await, setDisable, recognizePoseCmd,
         clearPoseFault, recognizePose, LadderTimeout, AwaitTimeout, PoseTimeout, Call, GoTo, Advance,
         image, drives
<1>3. \A a \in {1, 2} : /\ ctl'[<<n, a>>] = ctl[<<n, a>>]
                        /\ mode'[<<n, a>>] = mode[<<n, a>>]
                        /\ target'[<<n, a>>] = target[<<n, a>>]
  BY DEF TypeOK, ThreadStep, ThreadTimeout, setEnable, EnableChecks, ReadErrorCode, isWarning, isEnabled,
         ReadActual, WriteTarget, EnableLadder, WriteControlword, ModePosition, Await, setDisable, recognizePoseCmd,
         clearPoseFault, recognizePose, LadderTimeout, AwaitTimeout, PoseTimeout, SetMode, cur, Axis,
         image, drives
<1>4. /\ copied'[n] = copied[n]
      /\ \A a \in {1, 2} : <<n, a>> \in caught => <<n, a>> \in caught'
  BY DEF TypeOK, ThreadStep, ThreadTimeout, setEnable, ReadActual, WriteTarget, cur, copies
<1>5. ax[n] \in {1, 2}
  BY DEF TypeOK
<1>6. QED
  BY <1>1, <1>2, <1>3, <1>4, <1>5, ModuleFrame

(* The module whose thread takes the step.                                 *)
LEMMA OwnModule ==
  ASSUME TypeOK, ServoInv, NEW m \in Modules, ThreadStep(m) \/ ThreadTimeout(m)
  PROVE  ModuleInv(m)'
<1>1. ModuleInv(m) /\ pc[m] \in Label /\ ax[m] \in {1, 2} /\ back[m] \in {"done", "pGuard", "chkw"}
  BY ByModule DEF TypeOK
<1>2. <<m, 1>> \in Axis /\ <<m, 2>> \in Axis /\ cur(m) = <<m, ax[m]>>
  BY DEF Axis, cur
<1> USE DEF ModuleInv, WordsPaired, TargetsSynced, RungHeld, PoseConfined, Written, Clear, Ladder, LastRungs,
            GoTo, Advance, TypeOK, Synced, cur, image, drives, copies
<1>3. CASE EnableChecks(m) /\ UNCHANGED <<services, ok, faults, copies>>
  BY <1>1, <1>2, <1>3 DEF EnableChecks, ReadErrorCode, isWarning, isEnabled, Call
<1>4. CASE (ReadActual(m) \/ WriteTarget(m)) /\ UNCHANGED <<services, ok, faults>>
  BY <1>1, <1>2, <1>4 DEF ReadActual, WriteTarget, cur
<1>5. CASE EnableLadder(m) /\ UNCHANGED <<services, ok, faults, copies>>
  <2>1. CASE WriteControlword(m, "cw06", "0x06", "mode8")
    BY <1>1, <1>2, <1>5, <2>1 DEF WriteControlword
  <2>2. CASE ModePosition(m)
    BY <1>1, <1>2, <1>5, <2>2 DEF ModePosition, SetMode
  <2>3. CASE Await(m, "wait21", "ready", "cw07")
    BY <1>1, <1>2, <1>5, <2>3 DEF Await, Testing
  <2>4. CASE WriteControlword(m, "cw07", "0x07", "wait23")
    BY <1>1, <1>2, <1>5, <2>4 DEF WriteControlword
  <2>5. CASE Await(m, "wait23", "on", "cw0f")
    BY <1>1, <1>2, <1>5, <2>5 DEF Await, Testing
  <2>6. CASE WriteControlword(m, "cw0f", "0x0f", "wait27")
    BY <1>1, <1>2, <1>5, <2>6 DEF WriteControlword
  <2>7. CASE Await(m, "wait27", "op", "cw1f")
    BY <1>1, <1>2, <1>5, <2>7 DEF Await, Testing
  <2>8. CASE WriteControlword(m, "cw1f", "0x1f", "done")
    BY <1>1, <1>2, <1>5, <2>8 DEF WriteControlword
  <2>9. QED
    BY <1>5, <2>1, <2>2, <2>3, <2>4, <2>5, <2>6, <2>7, <2>8 DEF EnableLadder
<1>6. CASE setDisable(m) /\ UNCHANGED <<services, ok, faults, copies>>
  BY <1>1, <1>2, <1>6 DEF setDisable, isEnabled, WriteControlword
<1>7. CASE recognizePoseCmd(m) /\ UNCHANGED <<services, ok, faults, copies>>
  BY <1>1, <1>2, <1>7 DEF recognizePoseCmd, isWarning, Call
<1>8. CASE clearPoseFault(m) /\ UNCHANGED <<services, ok, faults, copies>>
  BY <1>1, <1>2, <1>8 DEF clearPoseFault
<1>9. CASE recognizePose(m) /\ UNCHANGED <<services, ok, faults, copies>>
  BY <1>1, <1>2, <1>9 DEF recognizePose, SetMode, AfterPose
<1>10. CASE ThreadTimeout(m)
  BY <1>1, <1>2, <1>10 DEF ThreadTimeout, LadderTimeout, AwaitTimeout, PoseTimeout, SetMode
<1>11. QED
  BY <1>3, <1>4, <1>5, <1>6, <1>7, <1>8, <1>9, <1>10 DEF ThreadStep, setEnable

LEMMA ThreadInv ==
  ASSUME TypeOK, ServoInv, NEW m \in Modules, ThreadStep(m) \/ ThreadTimeout(m)
  PROVE  ServoInv'
<1>1. \A n \in Modules : ModuleInv(n)'
  BY OwnModule, OtherModule
<1>2. pc[m] # "done"
  BY DEF ThreadStep, ThreadTimeout, setEnable, EnableChecks, ReadErrorCode, isWarning, isEnabled, ReadActual, WriteTarget,
         EnableLadder, WriteControlword, ModePosition, Await, setDisable, recognizePoseCmd, clearPoseFault,
         recognizePose, LadderTimeout, AwaitTimeout, PoseTimeout, Clear
<1>3. \A n \in Modules \ {m} : pc'[n] = pc[n]
  BY DEF TypeOK, ThreadStep, ThreadTimeout, setEnable, EnableChecks, ReadErrorCode, isWarning, isEnabled,
         ReadActual, WriteTarget, EnableLadder, WriteControlword, ModePosition, Await, setDisable, recognizePoseCmd,
         clearPoseFault, recognizePose, LadderTimeout, AwaitTimeout, PoseTimeout, Call, GoTo, Advance
<1>4. UNCHANGED svc
  BY DEF ThreadStep, ThreadTimeout, services
<1>5. ThreadsOwned'
  BY <1>2, <1>3, <1>4 DEF ServoInv, ThreadsOwned
<1>6. QED
  BY <1>1, <1>5, ByModuleNext

LEMMA DriveInv ==
  ASSUME TypeOK, ServoInv, DriveNext
  PROVE  ServoInv'
<1>1. PICK x \in Axis : DriveStep(x) \/ Fault(x) \/ Move(x) \/ PoseBegin(x) \/ PoseFinish(x)
  BY DEF DriveNext
<1>2. UNCHANGED <<image, threads, services, ok, copied>> /\ caught \subseteq caught'
  BY <1>1 DEF DriveStep, Fault, Move, PoseBegin, PoseFinish, copies
<1>3. ThreadsOwned'
  BY <1>2 DEF ServoInv, ThreadsOwned, threads, services
<1>4. ASSUME NEW m \in Modules PROVE ModuleInv(m)'
  <2>1. ModuleInv(m) /\ <<m, 1>> \in Axis /\ <<m, 2>> \in Axis
    BY ByModule DEF Axis
  <2>2. WordsPaired(m)'
    BY <1>2, <2>1 DEF ModuleInv, WordsPaired, image, threads
  <2>3. \A a \in {1, 2} : PoseConfined(<<m, a>>)'
    BY <1>2, <2>1 DEF ModuleInv, PoseConfined, image, threads
  <2>4. TargetsSynced(m)'
    <3>1. CASE UNCHANGED actual
      BY <1>2, <2>1, <3>1 DEF ModuleInv, TargetsSynced, Synced, cur, image, threads
    <3>2. CASE Move(x)
      BY <1>2, <2>1, <3>2 DEF ModuleInv, TargetsSynced, Synced, Copying, cur, Move, TypeOK, image, threads
    <3>3. CASE PoseFinish(x)
      BY <1>2, <2>1, <3>3 DEF ModuleInv, TargetsSynced, Synced, cur, PoseConfined, PoseFinish, TypeOK, Ladder, image, threads
    <3>4. QED
      BY <1>1, <3>1, <3>2, <3>3 DEF DriveStep, DriveGoes, Fault, PoseBegin
  <2>5. RungHeld(m)'
    <3>1. CASE UNCHANGED drv
      BY <1>2, <2>1, <3>1 DEF ModuleInv, RungHeld, image, threads
    <3>2. CASE Fault(x)
      BY <1>2, <2>1, <3>2 DEF ModuleInv, RungHeld, Fault, TypeOK, image, threads
    <3>3. CASE DriveStep(x)
      BY <1>2, <2>1, <3>3 DEF ModuleInv, RungHeld, LastRungs, DriveStep, DriveGoes, TypeOK, image, threads
    <3>4. QED
      BY <1>1, <3>1, <3>2, <3>3 DEF Move, PoseBegin, PoseFinish
  <2>6. QED
    BY <2>2, <2>3, <2>4, <2>5 DEF ModuleInv
<1>5. QED
  BY <1>3, <1>4, ByModuleNext

(* Starting a thread for some of the modules, when none runs.              *)
LEMMA SpawnInv ==
  ASSUME TypeOK, ServoInv, NEW job \in DOMAIN First, NEW who \in SUBSET Modules, Spawn(job, who),
         UNCHANGED <<image, drives, ok>>, \A m \in Modules : pc[m] = "done", NEW n \in Modules
  PROVE  ModuleInv(n)'
<1>1. ModuleInv(n)
  BY ByModule
<1>2. CASE n \notin who
  <2>1. pc'[n] = "done"
    BY <1>2 DEF Spawn
  <2>2. QED
    BY <1>1, <1>2, <2>1 DEF ModuleInv, WordsPaired, TargetsSynced, RungHeld, PoseConfined, Written, Clear,
                            Ladder, LastRungs, Spawn, image, drives
<1>3. CASE n \in who
  <2>1. pc'[n] = First[job] /\ ax'[n] = 1
    BY <1>3 DEF Spawn
  <2>2. pc'[n] \in {"err", "dis", "clr86", "rwarn"}
    BY <2>1 DEF First
  <2>3. QED
    BY <1>1, <2>1, <2>2 DEF ModuleInv, WordsPaired, TargetsSynced, RungHeld, PoseConfined, Written, Clear,
                            Ladder, LastRungs, image, drives
<1>4. QED
  BY <1>2, <1>3

LEMMA SpawnOwned ==
  ASSUME TypeOK, NEW job \in DOMAIN First, NEW who \in SUBSET Modules, Spawn(job, who),
         \A m \in Modules : pc[m] = "done", who \subseteq svc'.who, svc'.at \in {"join", "reset"}
  PROVE  ThreadsOwned'
BY DEF Spawn, ThreadsOwned

(* A service step that starts no thread and touches nothing else.          *)
LEMMA StillInv ==
  ASSUME TypeOK, ServoInv, UNCHANGED <<image, drives, threads, ok>>, ThreadsOwned',
         UNCHANGED copies \/ \A m \in Modules : pc[m] = "done"
  PROVE  ServoInv'
<1>1. ASSUME NEW n \in Modules PROVE ModuleInv(n)'
  <2>1. CASE UNCHANGED copies
    BY <2>1, ByModule, ModuleFrame DEF TypeOK, image, drives, threads, copies
  <2>2. CASE pc[n] = "done"
    BY <2>2, ByModule DEF ModuleInv, WordsPaired, TargetsSynced, RungHeld, PoseConfined, Written, Clear,
                          Ladder, LastRungs, image, drives, threads
  <2>3. QED
    BY <2>1, <2>2
<1>2. QED
  BY <1>1, ByModuleNext

LEMMA AllDone ==
  ASSUME \A m \in Modules : pc[m] = "done", UNCHANGED threads
  PROVE  ThreadsOwned'
BY DEF ThreadsOwned, threads

LEMMA StartInv ==
  ASSUME TypeOK, ServoInv, NEW job \in DOMAIN First, NEW who \in SUBSET Modules, Spawn(job, who),
         UNCHANGED <<image, drives, ok>>, \A m \in Modules : pc[m] = "done",
         who \subseteq svc'.who, svc'.at \in {"join", "reset"}
  PROVE  ServoInv'
BY SpawnInv, SpawnOwned, ByModuleNext

LEMMA PollEndsInv ==
  ASSUME TypeOK, ServoInv, NEW b \in BOOLEAN, PollEnds(b), svc.at = "poll", UNCHANGED <<image, drives, ok>>
  PROVE  ServoInv'
<1>1. \A m \in Modules : pc[m] = "done"
  BY DEF ServoInv, ThreadsOwned
<1>2. CASE UNCHANGED threads
  BY <1>1, <1>2, AllDone, StillInv
<1>3. ASSUME NEW job \in {"disable", "recognize"}, Spawn(job, svc.who), svc'.who = svc.who, svc'.at = "join"
      PROVE  ServoInv'
  <2>1. job \in DOMAIN First /\ svc.who \in SUBSET Modules
    BY SvcType DEF First
  <2>2. QED
    BY <1>1, <1>3, <2>1, StartInv
<1>4. svc \in Svc
  BY DEF TypeOK
<1>5. QED
  BY <1>2, <1>3, <1>4 DEF PollEnds, StartJob, Svc

LEMMA RequestInv ==
  ASSUME TypeOK, ServoInv, NEW op \in Services, NEW who \in SUBSET Modules, Request(op, who)
  PROVE  ServoInv'
<1>1. (\A m \in Modules : pc[m] = "done") /\ UNCHANGED <<image, drives, ok>>
  BY DEF Request, ServoInv, ThreadsOwned
<1>2. CASE UNCHANGED threads
  BY <1>1, <1>2, AllDone, StillInv
<1>3. ASSUME NEW job \in {"disable", "enable"}, Spawn(job, who),
             svc' = [Idle EXCEPT !.op = op, !.at = "join", !.job = job, !.who = who]
      PROVE  ServoInv'
  <2>1. job \in DOMAIN First /\ svc'.who = who /\ svc'.at = "join"
    BY <1>3 DEF First, Idle
  <2>2. QED
    BY <1>1, <1>3, <2>1, StartInv
<1>4. QED
  BY <1>2, <1>3 DEF Request

LEMMA ServiceStepInv ==
  ASSUME TypeOK, ServoInv, ServiceRequest \/ ServiceStep \/ PollTimeout
  PROVE  ServoInv'
<1>1. svc \in Svc /\ svc.who \in SUBSET Modules
  BY SvcType
<1>2. CASE ServiceRequest
  <2>1. PICK op \in Services, who \in SUBSET Modules : Request(op, who)
    BY <1>2 DEF ServiceRequest, enableRobot_cb, disableRobot_cb, clearFault_cb, recognizePosition_cb,
                enable_cb, reset_fault_cb, Services
  <2>2. QED
    BY <2>1, RequestInv
<1>3. CASE getFaultState
  <2>1. (\A m \in Modules : pc[m] = "done") /\ UNCHANGED <<image, drives, ok>>
    BY <1>3 DEF getFaultState, ServoInv, ThreadsOwned
  <2>2. CASE UNCHANGED threads
    BY <2>1, <2>2, AllDone, StillInv
  <2>3. ASSUME NEW job \in {"enable", "disable"}, StartJob(job) PROVE ServoInv'
    <3>1. job \in DOMAIN First /\ svc'.who = svc.who /\ svc'.at = "join"
      BY <1>1, <2>3 DEF First, StartJob, Svc
    <3>2. QED
      BY <1>1, <2>1, <2>3, <3>1, StartInv DEF StartJob
  <2>4. QED
    BY <1>3, <2>2, <2>3 DEF getFaultState, StartReset
<1>4. CASE ResetNext
  <2>1. (\A m \in Modules : pc[m] = "done") /\ UNCHANGED <<image, drives, ok>>
    BY <1>4 DEF ResetNext
  <2>2. CASE UNCHANGED threads
    BY <2>1, <2>2, AllDone, StillInv
  <2>3. ASSUME NEW m \in svc.who, Spawn("reset", {m}), UNCHANGED svc PROVE ServoInv'
    <3>1. "reset" \in DOMAIN First /\ svc'.at = "reset" /\ {m} \subseteq svc'.who
      BY <1>4, <2>3 DEF First, ResetNext
    <3>2. QED
      BY <1>1, <2>1, <2>3, <3>1, StartInv
  <2>4. QED
    BY <1>4, <2>2, <2>3 DEF ResetNext
<1>5. CASE Join
  <2>1. \A m \in Modules : pc[m] = "done"
    BY <1>5 DEF Join, ServoInv, ThreadsOwned
  <2>2. QED
    BY <1>5, <2>1, AllDone, StillInv DEF Join
<1>6. CASE Poll
  <2>1. (\A m \in Modules : pc[m] = "done") /\ svc.at = "poll" /\ UNCHANGED <<image, drives, ok>>
    BY <1>6 DEF Poll, ServoInv, ThreadsOwned
  <2>2. CASE UNCHANGED threads
    BY <2>1, <2>2, AllDone, StillInv
  <2>3. CASE PollEnds(TRUE)
    BY <2>1, <2>3, PollEndsInv
  <2>4. QED
    BY <1>6, <2>2, <2>3 DEF Poll
<1>7. CASE PollTimeout \/ PollAborted
  BY <1>7, PollEndsInv DEF PollTimeout, PollAborted
<1>8. QED
  BY <1>2, <1>3, <1>4, <1>5, <1>6, <1>7 DEF ServiceStep

LEMMA HwInv ==
  ASSUME TypeOK, ServoInv, NEW m \in Modules, HwWrite(m)
  PROVE  ServoInv'
<1>1. (\A n \in Modules : pc[n] = "done") /\ UNCHANGED <<ctl, mode, drives, threads, services, ok>>
  BY DEF HwWrite, ServoInv, ThreadsOwned
<1>2. ASSUME NEW n \in Modules PROVE ModuleInv(n)'
  BY <1>1, ByModule DEF ModuleInv, WordsPaired, TargetsSynced, RungHeld, PoseConfined, Ladder, LastRungs,
                        drives, threads
<1>3. ThreadsOwned'
  BY <1>1, AllDone
<1>4. QED
  BY <1>2, <1>3, ByModuleNext

(* Threads run only for the service in progress, controlwords are paired,  *)
(* targets synced, rungs held and recognition confined, whatever the       *)
(* number of modules, positions and faults.                                *)
THEOREM ServoInvariant == Spec => []ServoInv
<1>1. Init => ServoInv
  BY InitInv
<1>2. TypeOK /\ ServoInv /\ [Next]_vars => ServoInv'
  <2> SUFFICES ASSUME TypeOK, ServoInv, [Next]_vars PROVE ServoInv'
    OBVIOUS
  <2>1. CASE ServiceRequest \/ ServiceStep \/ PollTimeout
    BY <2>1, ServiceStepInv
  <2>2. ASSUME NEW m \in Modules, ThreadStep(m) \/ ThreadTimeout(m) PROVE ServoInv'
    BY <2>2, ThreadInv
  <2>3. ASSUME NEW m \in Modules, HwWrite(m) PROVE ServoInv'
    BY <2>3, HwInv
  <2>4. CASE DriveNext
    BY <2>4, DriveInv
  <2>5. CASE Shutdown \/ UNCHANGED vars
    <3>1. UNCHANGED <<image, drives, threads, services, copies>> /\ (ok' => ok)
      BY <2>5 DEF Shutdown, vars
    <3>2. ASSUME NEW n \in Modules PROVE ModuleInv(n)'
      BY <3>1, ByModule, ModuleFrame DEF TypeOK, image, drives, threads, copies
    <3>3. ThreadsOwned'
      BY <3>1 DEF ServoInv, ThreadsOwned, threads, services
    <3>4. QED
      BY <3>2, <3>3, ByModuleNext
  <2>6. QED
    BY <2>1, <2>2, <2>3, <2>4, <2>5 DEF Next
<1>3. QED
  BY <1>1, <1>2, TypeCorrect, PTL DEF Spec

(* Whatever way a service ended, it leaves no thread, no half-written pair *)
(* of controlwords, no fault reset and no recognition mode behind.         *)
THEOREM AlwaysQuietWhenIdle == Spec => []QuietWhenIdle
<1>1. ServoInv => QuietWhenIdle
  <2> SUFFICES ASSUME ServoInv, svc.at = "idle"
               PROVE  /\ \A m \in Modules : pc[m] = "done" /\ ctl[<<m, 1>>] = ctl[<<m, 2>>]
                      /\ \A x \in Axis : mode[x] # "pose" /\ ctl[x] # "0x86"
    BY DEF QuietWhenIdle
  <2>1. \A m \in Modules : pc[m] = "done"
    BY DEF ServoInv, ThreadsOwned
  <2>2. \A m \in Modules : ctl[<<m, 1>>] = ctl[<<m, 2>>] /\ ctl[<<m, 1>>] # "0x86" /\ ctl[<<m, 2>>] # "0x86"
    BY <2>1 DEF ServoInv, WordsPaired, Written, Clear
  <2>3. \A x \in Axis : mode[x] # "pose"
    BY <2>1 DEF ServoInv, PoseConfined, Axis
  <2>4. \A x \in Axis : ctl[x] # "0x86"
    BY <2>2, AxisPair
  <2>5. QED
    BY <2>1, <2>2, <2>3, <2>4
<1>2. QED
  BY <1>1, ServoInvariant, PTL

(* An axis that becomes operational while it is being enabled stays where  *)
(* it is, unless it was moving while its position was being copied.        *)
THEOREM NeverJumps == Spec => NoJump
<1>1. ServoInv => \A x \in Axis : pc[x[1]] \in Ladder => Synced(x)
  <2> SUFFICES ASSUME ServoInv, NEW x \in Axis, pc[x[1]] \in Ladder PROVE Synced(x)
    OBVIOUS
  <2>1. PICK m \in Modules, a \in {1, 2} : x = <<m, a>>
    BY AxisPair
  <2>2. QED
    BY <2>1 DEF ServoInv, TargetsSynced
<1>2. ServoInv => [\A x \in Axis : Rises(x) /\ pc[x[1]] \in Ladder => target[x] = actual[x] \/ x \in caught]_vars
  BY <1>1 DEF Synced
<1>3. QED
  BY <1>2, ServoInvariant, PTL DEF NoJump

(* The two axes of a module come up together.                              *)
THEOREM RisesPaired == Spec => PairedRise
<1>1. ServoInv => \A x \in Axis : ok /\ pc[x[1]] \in LastRungs => drv[Partner(x)] \in {"on", "op", "fault"}
  BY DEF ServoInv, RungHeld, Partner, Axis
<1>2. ServoInv => [\A x \in Axis : Rises(x) /\ ok /\ pc[x[1]] \in LastRungs
                     => drv[Partner(x)] \in {"on", "op", "fault"}]_vars
  BY <1>1
<1>3. QED
  BY <1>2, ServoInvariant, PTL DEF PairedRise

-----------------------------------------------------------------------------
(* What the answers say.                                                   *)

LEMMA InitAnswers == Init => AnswersInv
BY DEF Init, AnswersInv, OnCourse, Course, SeenReads, Passing, SwitchedOn, ResetHeld, Idle, Axis

(* A thread touches its own module only.                                   *)
LEMMA ThreadLocal ==
  ASSUME TypeOK, NEW m \in Modules, NEW n \in Modules \ {m}, ThreadStep(m) \/ ThreadTimeout(m)
  PROVE  /\ pc'[n] = pc[n] /\ ax'[n] = ax[n] /\ back'[n] = back[n]
         /\ \A a \in {1, 2} : ctl'[<<n, a>>] = ctl[<<n, a>>]
<1>1. pc'[n] = pc[n] /\ ax'[n] = ax[n] /\ back'[n] = back[n]
  BY DEF TypeOK, ThreadStep, ThreadTimeout, setEnable, EnableChecks, ReadErrorCode, isWarning, isEnabled,
         ReadActual, WriteTarget, EnableLadder, WriteControlword, ModePosition, Await, setDisable, recognizePoseCmd,
         clearPoseFault, recognizePose, LadderTimeout, AwaitTimeout, PoseTimeout, Call, GoTo, Advance,
         image, drives
<1>2. \A a \in {1, 2} : ctl'[<<n, a>>] = ctl[<<n, a>>]
  BY DEF TypeOK, ThreadStep, ThreadTimeout, setEnable, EnableChecks, ReadErrorCode, isWarning, isEnabled,
         ReadActual, WriteTarget, EnableLadder, WriteControlword, ModePosition, Await, setDisable, recognizePoseCmd,
         clearPoseFault, recognizePose, LadderTimeout, AwaitTimeout, PoseTimeout, cur, Axis, image, drives
<1>3. QED
  BY <1>1, <1>2

LEMMA ThreadStill ==
  ASSUME NEW m \in Modules, ThreadStep(m) \/ ThreadTimeout(m)
  PROVE  /\ pc[m] # "done"
         /\ UNCHANGED <<drv, svc, seen, ok>>
<1>1. pc[m] # "done"
  BY DEF ThreadStep, ThreadTimeout, setEnable, EnableChecks, ReadErrorCode, isWarning, isEnabled, ReadActual, WriteTarget,
         EnableLadder, WriteControlword, ModePosition, Await, setDisable, recognizePoseCmd, clearPoseFault,
         recognizePose, LadderTimeout, AwaitTimeout, PoseTimeout, Clear
<1>2. UNCHANGED <<drv, svc, seen, ok>>
  BY DEF ThreadStep, ThreadTimeout, setEnable, EnableChecks, ReadErrorCode, isWarning, isEnabled, ReadActual, WriteTarget,
         EnableLadder, WriteControlword, ModePosition, Await, setDisable, recognizePoseCmd, clearPoseFault,
         recognizePose, LadderTimeout, AwaitTimeout, PoseTimeout, drives, services
<1>3. QED
  BY <1>1, <1>2

(* While a thread runs no pass is under way, so only rclcpp being up       *)
(* forbids 0x07 on an operational axis.                                    *)
LEMMA OwnSwitchedOn ==
  ASSUME TypeOK, ServoInv, AnswersInv, NEW m \in Modules, ThreadStep(m) \/ ThreadTimeout(m)
  PROVE  SwitchedOn(m)'
<1>1. SwitchedOn(m) /\ ModuleInv(m) /\ pc[m] \in Label /\ ax[m] \in {1, 2} /\ back[m] \in {"done", "pGuard", "chkw"}
  BY ByModule DEF TypeOK, AnswersInv
<1>2. <<m, 1>> \in Axis /\ <<m, 2>> \in Axis /\ cur(m) = <<m, ax[m]>>
  BY DEF Axis, cur
<1>3. pc[m] # "done" /\ UNCHANGED <<drv, svc, seen, ok>>
  BY ThreadStill
<1>4. (Passing <=> ok) /\ (Passing' <=> ok')
  BY <1>3 DEF ServoInv, ThreadsOwned, Passing
<1> USE DEF SwitchedOn, GoTo, Advance, TypeOK, image, drives
<1>5. CASE EnableChecks(m) /\ UNCHANGED <<services, ok, faults, copies>>
  BY <1>1, <1>2, <1>3, <1>4, <1>5 DEF EnableChecks, ReadErrorCode, isWarning, isEnabled, Call
<1>6. CASE (ReadActual(m) \/ WriteTarget(m)) /\ UNCHANGED <<services, ok, faults>>
  BY <1>1, <1>2, <1>3, <1>4, <1>6 DEF ReadActual, WriteTarget, cur
<1>7. CASE EnableLadder(m) /\ UNCHANGED <<services, ok, faults, copies>>
  <2>1. CASE WriteControlword(m, "cw06", "0x06", "mode8")
    BY <1>1, <1>2, <1>3, <1>4, <1>7, <2>1 DEF WriteControlword, ModuleInv, WordsPaired, Written
  <2>2. CASE ModePosition(m)
    BY <1>1, <1>2, <1>3, <1>4, <1>7, <2>2 DEF ModePosition
  <2>3. CASE Await(m, "wait21", "ready", "cw07")
    BY <1>1, <1>2, <1>3, <1>4, <1>7, <2>3 DEF Await, Testing
  <2>4. CASE WriteControlword(m, "cw07", "0x07", "wait23")
    BY <1>1, <1>2, <1>3, <1>4, <1>7, <2>4 DEF WriteControlword
  <2>5. CASE Await(m, "wait23", "on", "cw0f")
    BY <1>1, <1>2, <1>3, <1>4, <1>7, <2>5 DEF Await, Testing
  <2>6. CASE WriteControlword(m, "cw0f", "0x0f", "wait27")
    BY <1>1, <1>2, <1>3, <1>4, <1>7, <2>6 DEF WriteControlword
  <2>7. CASE Await(m, "wait27", "op", "cw1f")
    BY <1>1, <1>2, <1>3, <1>4, <1>7, <2>7 DEF Await, Testing
  <2>8. CASE WriteControlword(m, "cw1f", "0x1f", "done")
    BY <1>1, <1>2, <1>3, <1>4, <1>7, <2>8 DEF WriteControlword
  <2>9. QED
    BY <1>7, <2>1, <2>2, <2>3, <2>4, <2>5, <2>6, <2>7, <2>8 DEF EnableLadder
<1>8. CASE setDisable(m) /\ UNCHANGED <<services, ok, faults, copies>>
  BY <1>1, <1>2, <1>3, <1>4, <1>8 DEF setDisable, isEnabled, WriteControlword
<1>9. CASE recognizePoseCmd(m) /\ UNCHANGED <<services, ok, faults, copies>>
  BY <1>1, <1>2, <1>3, <1>4, <1>9 DEF recognizePoseCmd, isWarning, Call
<1>10. CASE clearPoseFault(m) /\ UNCHANGED <<services, ok, faults, copies>>
  BY <1>1, <1>2, <1>3, <1>4, <1>10 DEF clearPoseFault
<1>11. CASE recognizePose(m) /\ UNCHANGED <<services, ok, faults, copies>>
  BY <1>1, <1>2, <1>3, <1>4, <1>11 DEF recognizePose, SetMode, AfterPose
<1>12. CASE ThreadTimeout(m)
  BY <1>1, <1>2, <1>3, <1>4, <1>12 DEF ThreadTimeout, LadderTimeout, AwaitTimeout, PoseTimeout, SetMode
<1>13. QED
  BY <1>5, <1>6, <1>7, <1>8, <1>9, <1>10, <1>11, <1>12 DEF ThreadStep, setEnable

(* During a reset the only thread is that of clearPoseFault, which leaves  *)
(* 0x06 on axis 1 before it turns to axis 2.                               *)
LEMMA OwnResetHeld ==
  ASSUME TypeOK, ServoInv, AnswersInv, NEW m \in Modules, ThreadStep(m) \/ ThreadTimeout(m)
  PROVE  ResetHeld(m)'
<1>1. ResetHeld(m) /\ WordsPaired(m) /\ pc[m] \in Label /\ ax[m] \in {1, 2}
  BY DEF TypeOK, AnswersInv, ServoInv
<1>2. <<m, 1>> \in Axis /\ <<m, 2>> \in Axis /\ cur(m) = <<m, ax[m]>>
  BY DEF Axis, cur
<1>3. pc[m] # "done" /\ UNCHANGED <<drv, svc, seen, ok>>
  BY ThreadStill
<1>4. svc.at # "poll"
  BY <1>3 DEF ServoInv, ThreadsOwned
<1>5. CASE svc.at # "reset"
  BY <1>3, <1>4, <1>5 DEF ResetHeld
<1>6. CASE svc.at = "reset"
  <2>1. pc[m] \in Clear /\ back[m] = "done"
    BY <1>1, <1>3, <1>6 DEF ResetHeld
  <2>2. clearPoseFault(m)
    BY <2>1 DEF ThreadStep, ThreadTimeout, setEnable, EnableChecks, ReadErrorCode, isWarning, isEnabled,
                ReadActual, WriteTarget, EnableLadder, WriteControlword, ModePosition, Await, setDisable, recognizePoseCmd,
                recognizePose, LadderTimeout, AwaitTimeout, PoseTimeout, Clear
  <2>3. QED
    BY <1>1, <1>2, <1>3, <1>4, <1>6, <2>1, <2>2
       DEF clearPoseFault, ResetHeld, WordsPaired, Disarmed, GoTo, Clear, TypeOK
<1>7. QED
  BY <1>5, <1>6

LEMMA ThreadAnswers ==
  ASSUME TypeOK, ServoInv, AnswersInv, NEW m \in Modules, ThreadStep(m) \/ ThreadTimeout(m)
  PROVE  AnswersInv'
<1>1. pc[m] # "done" /\ UNCHANGED <<drv, svc, seen, ok>>
  BY ThreadStill
<1>2. OnCourse'
  BY <1>1 DEF AnswersInv, OnCourse
<1>3. SeenReads'
  BY <1>1 DEF SeenReads, ServoInv, ThreadsOwned
<1>4. ASSUME NEW n \in Modules \ {m} PROVE SwitchedOn(n)' /\ ResetHeld(n)'
  <2>1. /\ pc'[n] = pc[n] /\ ax'[n] = ax[n] /\ back'[n] = back[n]
        /\ \A a \in {1, 2} : ctl'[<<n, a>>] = ctl[<<n, a>>]
    BY ThreadLocal
  <2>2. SwitchedOn(n) /\ ResetHeld(n)
    BY DEF AnswersInv
  <2>3. QED
    BY <1>1, <2>1, <2>2 DEF SwitchedOn, ResetHeld, Disarmed, Passing
<1>5. QED
  BY <1>2, <1>3, <1>4, OwnSwitchedOn, OwnResetHeld DEF AnswersInv

(* A drive leaves the operational state by a fault or by a controlword,    *)
(* and becomes operational by 0x0f or 0x1f only.                           *)
LEMMA DriveAnswers ==
  ASSUME TypeOK, ServoInv, AnswersInv, DriveNext
  PROVE  AnswersInv'
<1>1. PICK x \in Axis : DriveStep(x) \/ Fault(x) \/ Move(x) \/ PoseBegin(x) \/ PoseFinish(x)
  BY DEF DriveNext
<1>2. UNCHANGED <<ctl, pc, ax, back, svc, seen, ok>>
  BY <1>1 DEF DriveStep, Fault, Move, PoseBegin, PoseFinish, image, threads, services
<1>3. drv \in [Axis -> DriveState]
  BY DEF TypeOK
<1>4. \A y \in Axis : drv'[y] = "op" /\ drv[y] # "op" => ctl[y] \in {"0x0f", "0x1f"}
  BY <1>1, <1>3 DEF DriveStep, DriveGoes, Fault, Move, PoseBegin, PoseFinish
<1>5. \A y \in Axis : drv'[y] # drv[y] => drv'[y] = "fault" \/ ctl[y] \in {"0x06", "0x86"} \/ drv[y] \in {"disabled", "ready", "on"}
                                         \/ (drv[y] = "op" /\ ctl[y] = "0x07")
  BY <1>1, <1>3 DEF DriveStep, DriveGoes, Fault, Move, PoseBegin, PoseFinish
<1>6. OnCourse'
  BY <1>2 DEF AnswersInv, OnCourse
<1>7. ASSUME NEW m \in Modules PROVE SwitchedOn(m)' /\ ResetHeld(m)'
  <2>1. SwitchedOn(m) /\ ResetHeld(m) /\ WordsPaired(m) /\ ax[m] \in {1, 2}
    BY DEF AnswersInv, ServoInv, TypeOK
  <2>2. <<m, 1>> \in Axis /\ <<m, 2>> \in Axis
    BY DEF Axis
  <2>3. ResetHeld(m)'
    BY <1>2, <2>1 DEF ResetHeld, Disarmed
  <2>4. SwitchedOn(m)'
    BY <1>2, <1>4, <2>1, <2>2 DEF SwitchedOn, WordsPaired, Written, Passing
  <2>5. QED
    BY <2>3, <2>4
<1>8. SeenReads'
  <2> SUFFICES ASSUME svc.at = "poll", svc.job = "enable", NEW y \in seen PROVE Reads(y)'
    BY <1>2 DEF SeenReads
  <2>1. y \in Axis /\ Reads(y)
    BY DEF TypeOK, AnswersInv, SeenReads
  <2>2. PICK m \in Modules, a \in {1, 2} : y = <<m, a>>
    BY <2>1, AxisPair
  <2>3. pc[m] = "done" /\ Passing
    BY DEF ServoInv, ThreadsOwned, Passing
  <2>4. ctl[y] # "0x86"
    BY <2>2, <2>3 DEF ServoInv, WordsPaired
  <2>5. ctl[y] = "0x07" => drv[y] # "op"
    BY <2>2, <2>3 DEF AnswersInv, SwitchedOn
  <2>6. drv[y] = "fault" => drv'[y] = "fault"
    BY <1>1, <1>3, <2>1, <2>4 DEF DriveStep, DriveGoes, Fault, Move, PoseBegin, PoseFinish
  <2>7. QED
    BY <1>2, <1>5, <2>1, <2>4, <2>5, <2>6 DEF Reads
<1>9. QED
  BY <1>6, <1>7, <1>8 DEF AnswersInv

LEMMA Courses ==
  ASSUME NEW op \in Op, NEW at, NEW job
  PROVE  <<at, job>> \in Course[op] <=>
           \/ op = "none" /\ at = "idle" /\ job = "none"
           \/ op \in {"enable", "recognize"} /\ at = "faultcheck" /\ job = "none"
           \/ op \in {"enable", "enable1"} /\ at \in {"join", "poll"} /\ job = "enable"
           \/ op \in {"disable", "recognize"} /\ at \in {"join", "poll"} /\ job = "disable"
           \/ op \in {"clear", "reset1", "recognize"} /\ at = "reset" /\ job = "reset"
           \/ op \in {"clear", "recognize"} /\ at = "poll" /\ job = "reset"
           \/ op = "recognize" /\ at = "join" /\ job = "recognize"
BY DEF Course, Op, Services

LEMMA OnCourseNow ==
  ASSUME TypeOK, OnCourse
  PROVE  \/ svc.op = "none" /\ svc.at = "idle" /\ svc.job = "none"
         \/ svc.op \in {"enable", "recognize"} /\ svc.at = "faultcheck" /\ svc.job = "none"
         \/ svc.op \in {"enable", "enable1"} /\ svc.at \in {"join", "poll"} /\ svc.job = "enable"
         \/ svc.op \in {"disable", "recognize"} /\ svc.at \in {"join", "poll"} /\ svc.job = "disable"
         \/ svc.op \in {"clear", "reset1", "recognize"} /\ svc.at = "reset" /\ svc.job = "reset"
         \/ svc.op \in {"clear", "recognize"} /\ svc.at = "poll" /\ svc.job = "reset"
         \/ svc.op = "recognize" /\ svc.at = "join" /\ svc.job = "recognize"
<1>1. svc.op \in Op
  BY DEF TypeOK, Svc
<1>2. <<svc.at, svc.job>> \in Course[svc.op]
  BY DEF OnCourse
<1>3. QED
  BY <1>1, <1>2, Courses

(* A service step leaves drives and image alone and starts threads at      *)
(* their first label.                                                      *)
LEMMA ServedSwitchedOn ==
  ASSUME AnswersInv, UNCHANGED <<ctl, drv, ok>>, Passing' => Passing, NEW n \in Modules,
         \/ pc'[n] = pc[n] /\ ax'[n] = ax[n]
         \/ pc'[n] \in {"err", "dis", "clr86", "rwarn"}
  PROVE  SwitchedOn(n)'
BY DEF AnswersInv, SwitchedOn

LEMMA StartsFirst ==
  ASSUME TypeOK, NEW job \in DOMAIN First, NEW who \in SUBSET Modules, Spawn(job, who), NEW n \in Modules
  PROVE  \/ pc'[n] = pc[n] /\ ax'[n] = ax[n]
         \/ pc'[n] \in {"err", "dis", "clr86", "rwarn"}
BY DEF Spawn, First

(* An answer, a new job, a new request: the service is at neither a reset  *)
(* nor a polling loop.                                                     *)
LEMMA TurnsAnswers ==
  ASSUME TypeOK, AnswersInv, UNCHANGED <<ctl, drv, ok>>, OnCourse', svc'.at \in {"idle", "faultcheck", "join"},
         \/ UNCHANGED threads
         \/ \E job \in DOMAIN First, who \in SUBSET Modules : Spawn(job, who)
  PROVE  AnswersInv'
<1>1. Passing' => Passing
  BY DEF Passing
<1>2. ASSUME NEW n \in Modules PROVE SwitchedOn(n)' /\ ResetHeld(n)'
  <2>1. \/ pc'[n] = pc[n] /\ ax'[n] = ax[n]
        \/ pc'[n] \in {"err", "dis", "clr86", "rwarn"}
    BY StartsFirst DEF threads
  <2>2. SwitchedOn(n)'
    BY <1>1, <2>1, ServedSwitchedOn
  <2>3. QED
    BY <2>2 DEF ResetHeld
<1>3. SeenReads'
  BY DEF SeenReads
<1>4. QED
  BY <1>2, <1>3 DEF AnswersInv

LEMMA RequestAnswers ==
  ASSUME TypeOK, ServoInv, AnswersInv, NEW op \in Services, NEW who \in SUBSET Modules, Request(op, who),
         op = "clear" => who = Modules
  PROVE  AnswersInv'
<1>1. /\ UNCHANGED <<ctl, drv, ok>> /\ svc.at = "idle" /\ seen' = {} /\ op \in Op
      /\ \A m \in Modules : pc[m] = "done"
  BY DEF Request, NewPass, ServoInv, ThreadsOwned, image, drives, Op
<1>2. CASE /\ op \in {"enable", "recognize"} /\ UNCHANGED threads
           /\ svc' = [Idle EXCEPT !.op = op, !.at = "faultcheck", !.who = who]
  <2>1. svc'.op = op /\ svc'.at = "faultcheck" /\ svc'.job = "none" /\ svc'.who = who
    BY <1>2 DEF Idle
  <2>2. OnCourse'
    BY <1>1, <1>2, <2>1, Courses DEF OnCourse
  <2>3. QED
    BY <1>1, <1>2, <2>1, <2>2, TurnsAnswers
<1>3. CASE /\ op \in {"disable", "enable1"}
           /\ LET job == IF op = "disable" THEN "disable" ELSE "enable" IN
              /\ svc' = [Idle EXCEPT !.op = op, !.at = "join", !.job = job, !.who = who]
              /\ Spawn(job, who)
  <2> DEFINE job == IF op = "disable" THEN "disable" ELSE "enable"
  <2>1. svc'.op = op /\ svc'.at = "join" /\ svc'.job = job /\ svc'.who = who /\ job \in DOMAIN First
    BY <1>3 DEF Idle, First
  <2>2. OnCourse'
    BY <1>1, <1>3, <2>1, Courses DEF OnCourse
  <2>3. QED
    BY <1>1, <1>3, <2>1, <2>2, TurnsAnswers
<1>4. CASE /\ op \in {"clear", "reset1"} /\ UNCHANGED threads
           /\ svc' = [Idle EXCEPT !.op = op, !.at = "reset", !.job = "reset", !.who = who]
  <2>1. svc'.op = op /\ svc'.at = "reset" /\ svc'.job = "reset" /\ svc'.who = who
    BY <1>4 DEF Idle
  <2>2. OnCourse'
    BY <1>1, <1>4, <2>1, Courses DEF OnCourse
  <2>3. Passing' => Passing
    BY <1>1, <2>1 DEF Passing
  <2>4. ASSUME NEW n \in Modules PROVE SwitchedOn(n)' /\ ResetHeld(n)'
    <3>1. pc'[n] = pc[n] /\ ax'[n] = ax[n] /\ pc'[n] = "done"
      BY <1>1, <1>4 DEF threads
    <3>2. SwitchedOn(n)'
      BY <1>1, <2>3, <3>1, ServedSwitchedOn
    <3>3. QED
      BY <1>1, <2>1, <3>1, <3>2 DEF ResetHeld
  <2>5. SeenReads'
    BY <2>1 DEF SeenReads
  <2>6. QED
    BY <2>2, <2>4, <2>5 DEF AnswersInv
<1>5. QED
  BY <1>2, <1>3, <1>4 DEF Request

LEMMA AnswerAnswers ==
  ASSUME TypeOK, AnswersInv, NEW b \in BOOLEAN, Answer(b), UNCHANGED <<ctl, drv, ok, threads>>
  PROVE  AnswersInv'
<1>1. svc'.op = "none" /\ svc'.at = "idle" /\ svc'.job = "none" /\ "none" \in Op
  BY DEF Answer, Idle, Op
<1>2. OnCourse'
  BY <1>1, Courses DEF OnCourse
<1>3. QED
  BY <1>1, <1>2, TurnsAnswers

LEMMA StartJobAnswers ==
  ASSUME TypeOK, AnswersInv, NEW job \in {"enable", "disable", "recognize"}, UNCHANGED <<ctl, drv, ok>>,
         svc'.op = svc.op, svc'.at = "join", svc'.job = job, svc'.who = svc.who, Spawn(job, svc.who),
         job = "enable" => svc.op \in {"enable", "enable1"},
         job = "disable" => svc.op \in {"disable", "recognize"},
         job = "recognize" => svc.op = "recognize"
  PROVE  AnswersInv'
<1>1. svc \in Svc /\ svc.op \in Op /\ svc.who \in SUBSET Modules /\ (svc.op = "clear" => svc.who = Modules)
  BY DEF TypeOK, Svc, AnswersInv, OnCourse
<1>2. job \in DOMAIN First
  BY DEF First
<1>3. OnCourse'
  BY <1>1, <1>2, Courses DEF OnCourse
<1>4. QED
  BY <1>1, <1>2, <1>3, TurnsAnswers

LEMMA PollEndsAnswers ==
  ASSUME TypeOK, AnswersInv, NEW b \in BOOLEAN, PollEnds(b), UNCHANGED <<ctl, drv, ok>>
  PROVE  AnswersInv'
<1>1. CASE \E c \in BOOLEAN : Answer(c) /\ UNCHANGED threads
  BY <1>1, AnswerAnswers
<1>2. CASE /\ svc.op = "recognize"
           /\ svc' = [svc EXCEPT !.at = "join", !.job = "disable", !.cleared = b]
           /\ Spawn("disable", svc.who)
  <2>1. svc'.op = svc.op /\ svc'.at = "join" /\ svc'.job = "disable" /\ svc'.who = svc.who
    BY <1>2 DEF TypeOK, Svc
  <2>2. QED
    BY <1>2, <2>1, StartJobAnswers
<1>3. CASE svc.op = "recognize" /\ StartJob("recognize")
  <2>1. svc'.op = svc.op /\ svc'.at = "join" /\ svc'.job = "recognize" /\ svc'.who = svc.who
    BY <1>3 DEF TypeOK, Svc, StartJob
  <2>2. QED
    BY <1>3, <2>1, StartJobAnswers DEF StartJob
<1>4. QED
  BY <1>1, <1>2, <1>3 DEF PollEnds

(* Into a polling loop: nothing has been read yet.                         *)
LEMMA PollsAnswers ==
  ASSUME TypeOK, AnswersInv, UNCHANGED <<ctl, drv, ok, threads>>, seen' = {},
         svc' = [svc EXCEPT !.at = "poll"], svc.at \in {"join", "reset"}, svc.op # "reset1", svc.job # "recognize",
         svc.op = "clear" => \A n \in Modules : Disarmed(n)
  PROVE  AnswersInv'
<1>1. svc \in Svc /\ svc.op \in Op /\ (svc.op = "clear" => svc.who = Modules)
  BY DEF TypeOK, Svc, AnswersInv, OnCourse
<1>2. svc'.op = svc.op /\ svc'.at = "poll" /\ svc'.job = svc.job /\ svc'.who = svc.who
  BY <1>1 DEF Svc
<1>3. OnCourse'
  BY <1>1, <1>2, Courses DEF AnswersInv, OnCourse
<1>4. Passing' => Passing
  BY DEF Passing
<1>5. ASSUME NEW n \in Modules PROVE SwitchedOn(n)' /\ ResetHeld(n)'
  <2>1. SwitchedOn(n)'
    BY <1>4, ServedSwitchedOn DEF threads
  <2>2. ResetHeld(n)'
    BY <1>2 DEF ResetHeld, Disarmed
  <2>3. QED
    BY <2>1, <2>2
<1>6. SeenReads'
  BY DEF SeenReads
<1>7. QED
  BY <1>3, <1>5, <1>6 DEF AnswersInv

LEMMA FaultCheckAnswers ==
  ASSUME TypeOK, ServoInv, AnswersInv, getFaultState
  PROVE  AnswersInv'
<1>1. /\ UNCHANGED <<ctl, drv, ok>> /\ svc.at = "faultcheck"
      /\ svc \in Svc /\ svc.op \in {"enable", "recognize"}
      /\ \A m \in Modules : pc[m] = "done"
  BY OnCourseNow DEF getFaultState, ServoInv, ThreadsOwned, AnswersInv, TypeOK, image, drives
<1>2. CASE Answer(FALSE) /\ UNCHANGED threads
  BY <1>1, <1>2, AnswerAnswers
<1>3. CASE svc.op # "enable" /\ StartReset
  <2>1. svc'.op = svc.op /\ svc'.at = "reset" /\ svc'.job = "reset" /\ svc'.who = svc.who
    BY <1>1, <1>3 DEF StartReset, Svc
  <2>2. seen' = {} /\ UNCHANGED threads /\ svc.op \in Op
    BY <1>1, <1>3 DEF StartReset, NewPass, Op, Services
  <2>3. OnCourse'
    BY <1>1, <1>3, <2>1, <2>2, Courses DEF OnCourse
  <2>4. Passing' => Passing
    BY <1>1, <2>1 DEF Passing
  <2>5. ASSUME NEW n \in Modules PROVE SwitchedOn(n)' /\ ResetHeld(n)'
    <3>1. pc'[n] = pc[n] /\ ax'[n] = ax[n] /\ pc'[n] = "done"
      BY <1>1, <2>2 DEF threads
    <3>2. SwitchedOn(n)'
      BY <1>1, <2>4, <3>1, ServedSwitchedOn
    <3>3. QED
      BY <2>1, <2>2, <3>1, <3>2 DEF ResetHeld
  <2>6. SeenReads'
    BY <2>1 DEF SeenReads
  <2>7. QED
    BY <2>3, <2>5, <2>6 DEF AnswersInv
<1>4. ASSUME NEW job \in {"enable", "disable"}, job = IF svc.op = "enable" THEN "enable" ELSE "disable",
             StartJob(job)
      PROVE  AnswersInv'
  <2>1. svc'.op = svc.op /\ svc'.at = "join" /\ svc'.job = job /\ svc'.who = svc.who
    BY <1>1, <1>4 DEF Svc, StartJob
  <2>2. QED
    BY <1>1, <1>4, <2>1, StartJobAnswers DEF StartJob
<1>5. CASE UNCHANGED <<svc, threads>>
  <2>1. OnCourse'
    BY <1>5 DEF AnswersInv, OnCourse
  <2>2. QED
    BY <1>1, <1>5, <2>1, TurnsAnswers
<1>6. QED
  BY <1>2, <1>3, <1>4, <1>5 DEF getFaultState

LEMMA ResetAnswers ==
  ASSUME TypeOK, ServoInv, AnswersInv, ResetNext
  PROVE  AnswersInv'
<1>1. /\ UNCHANGED <<ctl, drv, ok>> /\ svc.at = "reset" /\ svc.job = "reset" /\ svc \in Svc
      /\ \A m \in Modules : pc[m] = "done"
  BY OnCourseNow DEF ResetNext, AnswersInv, TypeOK, image, drives
<1>2. ASSUME NEW m \in svc.who, Spawn("reset", {m}), seen' = seen \cup {<<m, 1>>}, UNCHANGED svc
      PROVE  AnswersInv'
  <2>1. m \in Modules /\ "reset" \in DOMAIN First
    BY <1>1 DEF Svc, First
  <2>2. OnCourse'
    BY <1>2 DEF AnswersInv, OnCourse
  <2>3. Passing' => Passing
    BY <1>1, <1>2 DEF Passing
  <2>4. ASSUME NEW n \in Modules PROVE SwitchedOn(n)' /\ ResetHeld(n)'
    <3>1. \/ pc'[n] = pc[n] /\ ax'[n] = ax[n]
          \/ pc'[n] \in {"err", "dis", "clr86", "rwarn"}
      BY <1>2, <2>1, StartsFirst
    <3>2. SwitchedOn(n)'
      BY <1>1, <2>3, <3>1, ServedSwitchedOn
    <3>3. CASE n = m
      <4>1. pc'[n] = "clr86" /\ back'[n] = "done"
        BY <1>2, <2>1, <3>3 DEF Spawn, First
      <4>2. QED
        BY <1>1, <1>2, <3>2, <4>1 DEF ResetHeld, Clear
    <3>4. CASE n # m
      <4>1. pc'[n] = "done" /\ <<n, 1>> \in seen' => <<n, 1>> \in seen
        BY <1>2, <3>4
      <4>2. pc'[n] = "done"
        BY <1>1, <1>2, <3>4 DEF Spawn
      <4>3. QED
        BY <1>1, <1>2, <3>2, <4>1, <4>2 DEF AnswersInv, ResetHeld, Disarmed
    <3>5. QED
      BY <3>3, <3>4
  <2>5. SeenReads'
    BY <1>1, <1>2 DEF SeenReads
  <2>6. QED
    BY <2>2, <2>4, <2>5 DEF AnswersInv
<1>3. CASE Answer(TRUE) /\ UNCHANGED threads
  BY <1>1, <1>3, AnswerAnswers
<1>4. CASE /\ \A m \in svc.who : <<m, 1>> \in seen
           /\ svc.op # "reset1" /\ svc' = [svc EXCEPT !.at = "poll"] /\ NewPass /\ UNCHANGED threads
  <2>1. svc.op = "clear" => \A n \in Modules : Disarmed(n)
    BY <1>1, <1>4 DEF AnswersInv, OnCourse, ResetHeld
  <2>2. QED
    BY <1>1, <1>4, <2>1, PollsAnswers DEF NewPass
<1>5. QED
  BY <1>2, <1>3, <1>4 DEF ResetNext

LEMMA JoinAnswers ==
  ASSUME TypeOK, ServoInv, AnswersInv, Join
  PROVE  AnswersInv'
<1>1. UNCHANGED <<ctl, drv, ok, threads>> /\ svc.at = "join" /\ seen' = {} /\ svc.op # "reset1" /\ svc.op # "clear"
  BY OnCourseNow DEF Join, NewPass, AnswersInv, image, drives
<1>2. CASE Answer(TRUE)
  BY <1>1, <1>2, AnswerAnswers
<1>3. CASE svc.job # "recognize" /\ svc' = [svc EXCEPT !.at = "poll"]
  BY <1>1, <1>3, PollsAnswers
<1>4. QED
  BY <1>2, <1>3 DEF Join

LEMMA PollAnswers ==
  ASSUME TypeOK, ServoInv, AnswersInv, Poll
  PROVE  AnswersInv'
<1>1. UNCHANGED <<ctl, drv, ok>> /\ svc.at = "poll" /\ Passing
  BY DEF Poll, Polling, Passing, image, drives
<1>2. CASE PollEnds(TRUE)
  BY <1>1, <1>2, PollEndsAnswers
<1>3. ASSUME NEW x \in Axis, (PassGood(x) /\ seen' = seen \cup {x}) \/ seen' = {}, UNCHANGED <<svc, threads>>
      PROVE  AnswersInv'
  <2>1. OnCourse'
    BY <1>3 DEF AnswersInv, OnCourse
  <2>2. ASSUME NEW n \in Modules PROVE SwitchedOn(n)' /\ ResetHeld(n)'
    <3>1. SwitchedOn(n)'
      BY <1>1, <1>3, ServedSwitchedOn DEF threads
    <3>2. ResetHeld(n)'
      BY <1>1, <1>3 DEF AnswersInv, ResetHeld, Disarmed, threads
    <3>3. QED
      BY <3>1, <3>2
  <2>3. SeenReads'
    BY <1>1, <1>3 DEF AnswersInv, SeenReads, Reads, PassGood
  <2>4. QED
    BY <2>1, <2>2, <2>3 DEF AnswersInv
<1>4. QED
  BY <1>2, <1>3 DEF Poll, NewPass

(* Every service keeps its course, and what a pass has read or a reset has *)
(* left behind stays true until the answer.                                *)
THEOREM AnswersInvariant == Spec => []AnswersInv
<1>1. Init => AnswersInv
  BY InitAnswers
<1>2. TypeOK /\ ServoInv /\ AnswersInv /\ [Next]_vars => AnswersInv'
  <2> SUFFICES ASSUME TypeOK, ServoInv, AnswersInv, [Next]_vars PROVE AnswersInv'
    OBVIOUS
  <2>1. CASE ServiceRequest
    <3>1. PICK op \in Services, who \in SUBSET Modules : Request(op, who) /\ (op = "clear" => who = Modules)
      BY <2>1 DEF ServiceRequest, enableRobot_cb, disableRobot_cb, clearFault_cb, recognizePosition_cb,
                  enable_cb, reset_fault_cb, Services
    <3>2. QED
      BY <3>1, RequestAnswers
  <2>2. CASE ServiceStep
    <3>1. CASE PollAborted
      <4>1. UNCHANGED <<ctl, drv, ok>>
        BY <3>1 DEF PollAborted, image, drives
      <4>2. QED
        BY <3>1, <4>1, PollEndsAnswers DEF PollAborted
    <3>2. QED
      BY <2>2, <3>1, FaultCheckAnswers, ResetAnswers, JoinAnswers, PollAnswers DEF ServiceStep
  <2>3. CASE PollTimeout
    <3>1. UNCHANGED <<ctl, drv, ok>>
      BY <2>3 DEF PollTimeout, image, drives
    <3>2. QED
      BY <2>3, <3>1, PollEndsAnswers DEF PollTimeout
  <2>4. ASSUME NEW m \in Modules, ThreadStep(m) \/ ThreadTimeout(m) PROVE AnswersInv'
    BY <2>4, ThreadAnswers
  <2>5. CASE DriveNext
    BY <2>5, DriveAnswers
  <2>6. CASE UNCHANGED <<ctl, drv, threads, services>> /\ (ok' => ok)
    <3>1. Passing' => Passing
      BY <2>6 DEF Passing, services
    <3>2. ASSUME NEW n \in Modules PROVE SwitchedOn(n)' /\ ResetHeld(n)'
      BY <2>6, <3>1 DEF AnswersInv, SwitchedOn, ResetHeld, Disarmed, threads, services
    <3>3. OnCourse' /\ SeenReads'
      BY <2>6 DEF AnswersInv, OnCourse, SeenReads, Reads, services
    <3>4. QED
      BY <3>2, <3>3 DEF AnswersInv
  <2>7. ASSUME (\E m \in Modules : HwWrite(m)) \/ Shutdown \/ UNCHANGED vars PROVE AnswersInv'
    <3>1. CASE \E m \in Modules : HwWrite(m)
      BY <2>6, <3>1 DEF HwWrite, drives
    <3>2. CASE Shutdown
      BY <2>6, <3>2 DEF Shutdown, drives, image
    <3>3. CASE UNCHANGED vars
      BY <2>6, <3>3 DEF vars, drives, image
    <3>4. QED
      BY <2>7, <3>1, <3>2, <3>3
  <2>8. QED
    BY <2>1, <2>2, <2>3, <2>4, <2>5, <2>7 DEF Next
<1>3. QED
  BY <1>1, <1>2, TypeCorrect, ServoInvariant, PTL DEF Spec

(* An answer TRUE of enabling or of clearing comes at the end of a full    *)
(* pass.                                                                   *)
LEMMA AnswerByPass ==
  ASSUME TypeOK, AnswersInv, [Next]_vars, NEW op \in {"enable", "enable1", "clear"}, Answers(op, TRUE)
  PROVE  /\ svc.op = op /\ svc.at = "poll" /\ svc.job = IF op = "clear" THEN "reset" ELSE "enable"
         /\ \E x \in Axis : PassGood(x) /\ (op # "clear" => seen \cup {x} = svc.who \X {1, 2})
<1>1. svc.at # "idle" /\ svc'.at = "idle" /\ reply' = [op |-> op, ok |-> TRUE]
  BY DEF Answers
<1>2. reply'.op = op /\ reply'.ok = TRUE /\ svc' # svc
  BY <1>1
<1>3. svc \in Svc /\ OnCourse
  BY DEF TypeOK, AnswersInv
<1>4. \A b : Answer(b) => svc.op = op /\ b = TRUE
  BY <1>2 DEF Answer
<1>5. \A b : PollEnds(b) => svc.op = op /\ b = TRUE
  <2> SUFFICES ASSUME NEW b, PollEnds(b) PROVE svc.op = op /\ b = TRUE
    OBVIOUS
  <2>1. CASE svc.op # "recognize" /\ Answer(b)
    BY <2>1, <1>4
  <2>2. CASE svc' = [svc EXCEPT !.at = "join", !.job = "disable", !.cleared = b]
    BY <2>2, <1>1, <1>3 DEF Svc
  <2>3. CASE StartJob("recognize")
    BY <2>3, <1>1, <1>3 DEF StartJob, Svc
  <2>4. CASE Answer(FALSE)
    BY <2>4, <1>4
  <2>5. QED
    BY <2>1, <2>2, <2>3, <2>4 DEF PollEnds
<1>6. Poll
  <2>1. ~ServiceRequest
    <3>1. \A o, who : ~Request(o, who)
      BY <1>1 DEF Request
    <3>2. QED
      BY <3>1 DEF ServiceRequest, enableRobot_cb, disableRobot_cb, clearFault_cb, recognizePosition_cb,
                  enable_cb, reset_fault_cb
  <2>2. ~getFaultState
    BY <1>1, <1>3, <1>4 DEF getFaultState, StartReset, StartJob, Svc
  <2>3. ~ResetNext
    BY <1>1, <1>2, <1>3, <1>4 DEF ResetNext, Svc
  <2>4. ~Join
    <3>1. ASSUME Join PROVE svc.job = "recognize" /\ Answer(TRUE) /\ svc.at = "join"
      BY <3>1, <1>1, <1>3 DEF Join, Svc
    <3>2. QED
      BY <3>1, <1>3, <1>4, OnCourseNow
  <2>5. ~PollTimeout /\ ~PollAborted
    BY <1>5 DEF PollTimeout, PollAborted
  <2>6. ~(\E m \in Modules : ThreadStep(m) \/ ThreadTimeout(m))
    BY <1>2, ThreadStill
  <2>7. ~((\E m \in Modules : HwWrite(m)) \/ DriveNext \/ Shutdown \/ UNCHANGED vars)
    BY <1>2 DEF HwWrite, DriveNext, DriveStep, Fault, Move, PoseBegin, PoseFinish, Shutdown, vars, services
  <2>8. QED
    BY <2>1, <2>2, <2>3, <2>4, <2>5, <2>6, <2>7 DEF Next, ServiceStep
<1>7. PICK x \in Axis : /\ PassGood(x)
                        /\ \E o : PassDone(seen \cup {x}, o)
                        /\ PollEnds(TRUE)
  BY <1>2, <1>6 DEF Poll
<1>8. svc.op = op
  BY <1>5, <1>7
<1>9. svc.job = IF op = "clear" THEN "reset" ELSE "enable"
  BY <1>3, <1>6, <1>8, OnCourseNow DEF Poll
<1>10. QED
  BY <1>6, <1>7, <1>8, <1>9 DEF Poll, PassDone

(* "robot is enabled", "elfin module is enabled": true of every axis asked *)
(* for, whatever the number of modules and wherever rclcpp is shut down.   *)
THEOREM EnabledTruthful == Spec => EnabledReplyTruthful
<1>1. TypeOK /\ ServoInv /\ AnswersInv /\ [Next]_vars =>
        \A op \in {"enable", "enable1"} : Answers(op, TRUE) =>
          \A x \in svc.who \X {1, 2} : drv[x] \in {"op", "fault"} \/ ctl[x] = "0x06"
  <2> SUFFICES ASSUME TypeOK, AnswersInv, [Next]_vars, NEW op \in {"enable", "enable1"}, Answers(op, TRUE),
                      NEW y \in svc.who \X {1, 2}
               PROVE  Reads(y)
    BY DEF Reads
  <2>1. svc.at = "poll" /\ svc.job = "enable"
    BY AnswerByPass
  <2>2. PICK x \in Axis : PassGood(x) /\ seen \cup {x} = svc.who \X {1, 2}
    BY AnswerByPass
  <2>3. CASE y \in seen
    BY <2>1, <2>3 DEF AnswersInv, SeenReads
  <2>4. CASE y = x
    BY <2>1, <2>2, <2>4 DEF PassGood, Reads
  <2>5. QED
    BY <2>2, <2>3, <2>4
<1>2. TypeOK /\ ServoInv /\ AnswersInv /\ [Next]_vars =>
        [\A op \in {"enable", "enable1"} : Answers(op, TRUE) =>
           \A x \in svc.who \X {1, 2} : drv[x] \in {"op", "fault"} \/ ctl[x] = "0x06"]_vars
  BY <1>1
<1>3. QED
  BY <1>2, TypeCorrect, ServoInvariant, AnswersInvariant, PTL DEF Spec, EnabledReplyTruthful

(* "Faults are cleared": every axis of the robot is left with 0x06.        *)
THEOREM ClearedIsDisarmed == Spec => ClearLeavesDisarmed
<1>1. TypeOK /\ AnswersInv /\ [Next]_vars => (Answers("clear", TRUE) => \A x \in Axis : ctl[x] = "0x06")
  <2> SUFFICES ASSUME TypeOK, AnswersInv, [Next]_vars, Answers("clear", TRUE), NEW x \in Axis
               PROVE  ctl[x] = "0x06"
    OBVIOUS
  <2>1. svc.at = "poll" /\ svc.op = "clear"
    BY AnswerByPass
  <2>2. PICK m \in Modules, a \in {1, 2} : x = <<m, a>>
    BY AxisPair
  <2>3. Disarmed(m)
    BY <2>1 DEF AnswersInv, ResetHeld
  <2>4. QED
    BY <2>2, <2>3 DEF Disarmed
<1>2. TypeOK /\ AnswersInv /\ [Next]_vars => [Answers("clear", TRUE) => \A x \in Axis : ctl[x] = "0x06"]_vars
  BY <1>1
<1>3. QED
  BY <1>2, TypeCorrect, AnswersInvariant, PTL DEF Spec, ClearLeavesDisarmed
=============================================================================
