------------------------------ MODULE ElfinGui ------------------------------
(***************************************************************************)
(* The control panel (elfin_gui.py) in front of the API node.  The wx main *)
(* thread runs one event handler after the other; the Servo and Clear      *)
(* Fault buttons start a thread of their own behind a modal dialog; a      *)
(* timer of the executor reads the digital IO.  node_lock is held while a  *)
(* thread spins the panel's node for an answer.                            *)
(* The operator has one pointer: it holds at most one button, and reaches  *)
(* none while a dialog is open.  Another program may use the API as well.  *)
(***************************************************************************)
EXTENDS ElfinApi

CONSTANTS
  Buttons,     \* requests of the buttons that move while they are held
  Clicks,      \* requests of the stop and link buttons
  Servo,       \* requests of the servo buttons
  Others,      \* requests of the other program
  UseFakeRobot,\* the servo buttons call the API node, and no IO is read
  MaxInputs    \* bound on what the operator and the other program do

StopReq == [op |-> "stop", arg |-> TRUE]

ASSUME GuiAssumption ==
  /\ {"main", "bg", "async", "other"} = Callers /\ UseFakeRobot \in BOOLEAN
  /\ Links \subseteq {"ref", "end"}
  /\ \A r \in Clicks : r = StopReq \/ r.op \in Links
  /\ StopReq \notin Servo /\ StopReq # None

(* Joints are asked for by number, positive or negative (std_msgs Int64).   *)
Typed(r) ==
  /\ r.op \in {"joint", "cart", "noLimit"} => r.arg \in Int
  /\ r.op = "velocity" => r.arg \in Speeds

ASSUME RequestAssumption == \A r \in Buttons \cup Clicks \cup Servo \cup Others : Typed(r)

VARIABLES
  events,  \* wx events not handled yet
  held,    \* a button is held down
  dialog,  \* the modal dialog of a servo button is open
  at,      \* at[t]: where the main thread and the background thread are
  lock,    \* who holds node_lock
  left     \* inputs still to come

panel == <<events, held, dialog, at, lock, left>>
gvars == <<vars, panel>>
api == vars

Idle == [at |-> "idle", req |-> None]
Req(op, arg) == [op |-> op, arg |-> arg]

GuiInit ==
  /\ Init
  /\ events = <<>> /\ held = FALSE /\ dialog = FALSE /\ lock = None /\ left = MaxInputs
  /\ at = [t \in {"main", "bg"} |-> Idle]
-----------------------------------------------------------------------------
(* The operator *)

Press(r) ==
  /\ ~held /\ ~dialog
  /\ held' = TRUE /\ events' = Append(events, r)
  /\ UNCHANGED <<api, dialog, at, lock>>

Release ==
  /\ held
  /\ held' = FALSE /\ events' = Append(events, StopReq)
  /\ UNCHANGED <<api, dialog, at, lock>>

Click(r) ==
  /\ ~held /\ ~dialog
  /\ events' = Append(events, r)
  /\ UNCHANGED <<api, held, dialog, at, lock>>
-----------------------------------------------------------------------------
(* The main thread *)

(* A servo button is ignored when the robot is enabled already, or there is *)
(* no fault to clear; otherwise it starts thread_bg and opens the dialog.   *)
ServoClicked ==
  /\ at["main"] = Idle /\ events # <<>> /\ Head(events) \in Servo /\ ~dialog
  /\ events' = Tail(events)
  /\ \/ UNCHANGED <<dialog, at>>
     \/ /\ at["bg"] = Idle
        /\ at' = [at EXCEPT !["bg"] = [at |-> "start", req |-> Head(events)]]
        /\ dialog' = TRUE
  /\ UNCHANGED <<api, held, lock, left>>

(* teleop_joints, teleop_pcs, release_button, call_set_bool_common; the     *)
(* dialog for links asks without the lock.                                  *)
MainHandles ==
  /\ at["main"] = Idle /\ events # <<>> /\ Head(events) \notin Servo
  /\ events' = Tail(events)
  /\ at' = [at EXCEPT !["main"] =
              [at |-> IF Head(events).op \in Links THEN "call" ELSE "acquire",
               req |-> Head(events)]]
  /\ UNCHANGED <<api, held, dialog, lock, left>>

(* thread_bg: Servo Off first stops the motion, without waiting             *)
BgStart ==
  /\ at["bg"].at = "start"
  /\ at' = [at EXCEPT !["bg"].at = "acquire"]
  /\ IF at["bg"].req.op = "disable" /\ inbox["async"] = None
     THEN Call("async", "stop", TRUE) ELSE UNCHANGED api
  /\ UNCHANGED <<events, held, dialog, lock, left>>

Acquire(t) ==
  /\ at[t].at = "acquire" /\ lock = None
  /\ lock' = t /\ at' = [at EXCEPT ![t].at = "call"]
  /\ UNCHANGED <<api, events, held, dialog, left>>

(* The servo requests of a real robot go to the driver, which is external.  *)
ToDriver(t) == t = "bg" /\ ~UseFakeRobot

AskService(t) ==
  /\ at[t].at = "call"
  /\ at' = [at EXCEPT ![t].at = "wait"]
  /\ IF ToDriver(t) THEN UNCHANGED api ELSE Call(t, at[t].req.op, at[t].req.arg)
  /\ UNCHANGED <<events, held, dialog, lock, left>>

(* Mutant: the lock is not given back.                                       *)
Answered_locked(t) ==
  /\ at[t].at = "wait" /\ inbox[t] = None
  /\ at' = [at EXCEPT ![t] = Idle]
  /\ dialog' = IF t = "bg" THEN FALSE ELSE dialog
  /\ UNCHANGED <<api, events, held, lock, left>>

(* spin_until_future_complete ends with the answer                          *)
Answered(t) ==
  /\ at[t].at = "wait" /\ inbox[t] = None
  /\ at' = [at EXCEPT ![t] = Idle]
  /\ lock' = IF lock = t THEN None ELSE lock
  /\ dialog' = IF t = "bg" THEN FALSE ELSE dialog
  /\ UNCHANGED <<api, events, held, left>>

(* monitor_DO_DI, two reads of at most 50 ms each                           *)
MonitorStarts ==
  /\ ~UseFakeRobot /\ lock = None
  /\ lock' = "monitor"
  /\ UNCHANGED <<api, events, held, dialog, at, left>>

MonitorEnds ==
  /\ lock = "monitor" /\ lock' = None
  /\ UNCHANGED <<api, events, held, dialog, at, left>>
-----------------------------------------------------------------------------
(* Another program.  It may set any speed and, with no-limit commands, take *)
(* a joint beyond its limit.                                                *)
OtherCalls ==
  /\ left > 0 /\ left' = left - 1
  /\ \E r \in Others : Call("other", r.op, r.arg)
  /\ UNCHANGED <<events, held, dialog, at, lock>>

Operator ==
  \/ /\ left > 0 /\ left' = left - 1
     /\ (\E r \in Buttons : Press(r)) \/ (\E r \in Clicks \cup Servo : Click(r))
  \/ Release /\ UNCHANGED left

Threads(t) == Acquire(t) \/ AskService(t) \/ Answered(t)

GuiNext ==
  \/ (Node \/ Arm) /\ UNCHANGED panel
  \/ Operator \/ OtherCalls
  \/ ServoClicked \/ MainHandles \/ BgStart
  \/ \E t \in {"main", "bg"} : Threads(t)
  \/ MonitorStarts \/ MonitorEnds

(* The executor and the threads go on; the IO timer leaves node_lock free    *)
(* between its periods, so that a thread that waits for it gets it.  Nothing *)
(* is assumed of the order in which waiting requests are served, nor of the  *)
(* operator, the arm and move_group.                                         *)
GuiFairness ==
  /\ WF_gvars(Node /\ UNCHANGED panel)
  /\ WF_gvars(MainHandles \/ ServoClicked) /\ WF_gvars(BgStart) /\ WF_gvars(MonitorEnds)
  /\ \A t \in {"main", "bg"} : SF_gvars(Threads(t))

GuiSpec == GuiInit /\ [][GuiNext]_gvars
FairGuiSpec == GuiSpec /\ GuiFairness
-----------------------------------------------------------------------------
(* Once the operator has released every button and the panel is at rest, the *)
(* last goal the node sent for the panel's buttons is a stop: no goal of a   *)
(* held button can follow the stop of its release.                           *)
ReleasedMeansStopped ==
  events = <<>> /\ ~held /\ at["main"] = Idle /\ last["main"] # None =>
    last["main"] = "stop"

(* Every request is answered, unless the node has stopped for good: waiting  *)
(* for its own answer in enable_robot or disable_robot, or in the loop of a  *)
(* teleoperation at speed zero or away from a limit that is already passed.  *)
Stopped == pc = "blocked" \/ Endless
CallsReturn == \A c \in Callers : (inbox[c] # None) ~> (inbox[c] = None \/ Stopped)

(* A release of a button reaches the controller as a stop, whatever the      *)
(* other threads of the panel and the other programs do, unless the node has *)
(* stopped for good.                                                         *)
ReleaseStops ==
  (\E i \in DOMAIN events : events[i] = StopReq)
    ~> (Stopped \/ last["main"] = "stop")
-----------------------------------------------------------------------------
(* Not so, and TLC refutes it (README, Disagreements); no run checks it.     *)

(* Each service of the node answers: enable_robot, disable_robot and the     *)
(* teleoperations send a response on every path that returns.                *)
NodeAnswers == \A c \in Callers : (inbox[c] # None) ~> (inbox[c] = None)
=============================================================================
