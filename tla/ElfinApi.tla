------------------------------ MODULE ElfinApi ------------------------------
(***************************************************************************)
(* The node base_api_node (elfin_basic_api): the services and topics of    *)
(* ElfinBasicAPI, ElfinTeleopAPI and ElfinMotionAPI.  All of them live in  *)
(* the node's default callback group, which runs one callback at a time,   *)
(* whatever the five threads of the executor; so do the answers to the     *)
(* node's own service clients.                                             *)
(*                                                                         *)
(* The teleoperation callbacks fill one shared goal_ message point by      *)
(* point and send it without waiting.  Joint values are integers on a      *)
(* grid; `speed' is joint_speed_*0.1, the grid units moved per point, and  *)
(* a point's time is multiplied by it, so that it is an integer too.  What *)
(* is divided by a speed of zero has no value in the code either.          *)
(* External: the arm's trajectory controller, move_group, tf, kinematics.  *)
(***************************************************************************)
EXTENDS Integers, Sequences, FiniteSets, SequencesExt, FiniteSetsExt

CONSTANTS
  Callers,      \* programs that call the node, one outstanding request each
  Joints,       \* 1..n
  Starts,       \* joint vectors the arm may start at
  Lower, Upper, \* joint limits of the URDF, the same for every joint
  Speeds,       \* velocity scalings that may be set, as grid units per point
  JointStep,    \* joint_step_ of the no-limit teleoperation, on the grid
  Reach,        \* cart_duration_*joint_speed_limit_ at speed 1, on the grid
  CartSteps,    \* steps of one cartesian teleoperation (100 in the code)
  MaxTries,     \* failed transform lookups before giving up (200)
  Scenes,       \* possible sets of colliding joint vectors
  Frames,       \* frames tf knows
  Links,        \* "ref" and "end", the two links that may be set
  MaxPoints,    \* bound on the points of one goal, reached only by a loop
                \* that never ends
  None

ASSUME ApiAssumption ==
  /\ IsFiniteSet(Joints) /\ Joints = 1..Cardinality(Joints) /\ Joints # {}
  /\ Starts \subseteq [Joints -> Int]
  /\ Lower \in Int /\ Upper \in Int /\ Lower < Upper
  /\ Speeds \subseteq Nat /\ Speeds \ {0} # {}
  /\ {JointStep, Reach, CartSteps, MaxTries, MaxPoints} \subseteq Nat

VARIABLES
  inbox,   \* inbox[c]: the request c waits for, or None
  pc,      \* what the callback group executes
  cur,     \* the caller being served
  pos,     \* the arm's joint values
  seed,    \* position_current, or the pose that cart_teleop starts from
  tmp,     \* position_tmp, or the pose cart_teleop has reached
  points,  \* goal_.trajectory.points
  tries,   \* counter of the transform lookups
  speed,   \* teleoperation speed
  scale,   \* ElfinMotionAPI::velocity_scaling_
  links,   \* reference and end link: of teleop, of the motion API, as published
  wire,    \* goals on their way to the trajectory controller
  last,    \* last[c]: the kind of the goal sent last for c (history)
  goal,    \* what the controller still has to move through
  plans,   \* speeds of the motions move_group accepted and has not executed
  asked,   \* requests the node sent to other nodes
  driver,  \* a driver offers /enable_robot and /disable_robot
  scene    \* the colliding joint vectors

work == <<seed, tmp, points, tries>>
config == <<speed, scale, links>>
out == <<wire, last, asked>>
arm == <<pos, goal, plans>>
world == <<driver, scene>>
vars == <<inbox, pc, cur, pos, seed, tmp, points, tries, speed, scale,
          links, wire, last, goal, plans, asked, driver, scene>>

Dist(a, b) == IF a < b THEN b - a ELSE a - b
Zero == [j \in Joints |-> 0]
Farthest(v, w) == Max({Dist(v[j], w[j]) : j \in Joints})

Init ==
  /\ inbox = [c \in Callers |-> None]
  /\ pc = "spin" /\ cur = None
  /\ pos \in Starts /\ seed = Zero /\ tmp = Zero /\ points = <<>> /\ tries = 0
  /\ speed = Min(Speeds \ {0})
  /\ scale = None                   \* not initialised before the first set_vel
  /\ links = [l \in Links |-> [teleop |-> None, motion |-> None, shown |-> None]]
  /\ wire = <<>> /\ last = [c \in Callers |-> None] /\ goal = <<>> /\ plans = {} /\ asked = {}
  /\ driver \in BOOLEAN /\ scene \in Scenes
-----------------------------------------------------------------------------
(* Requests, answers and goals *)

Call(c, op, arg) ==
  /\ inbox[c] = None
  /\ inbox' = [inbox EXCEPT ![c] = [op |-> op, arg |-> arg]]
  /\ UNCHANGED <<pc, cur, out, arm, work, config, world>>

Serving(c, op) == pc = "spin" /\ inbox[c] # None /\ inbox[c].op = op

(* the callback ends: its answer is sent, its local variables are gone *)
Return(c) ==
  /\ inbox' = [inbox EXCEPT ![c] = None]
  /\ pc' = "spin" /\ cur' = None
  /\ seed' = Zero /\ tmp' = Zero /\ tries' = 0

Enter(c, step) == pc' = step /\ cur' = c /\ UNCHANGED inbox

Point(at, v) == [at |-> at, at_pos |-> v]

(* Mutant: the points stay in goal_.                                         *)
Send_kept(c, op, from, ps) ==
  /\ wire' = Append(wire, [op |-> op, from |-> from, speed |-> speed, points |-> ps])
  /\ last' = [last EXCEPT ![c] = op]
  /\ points' = ps
  /\ UNCHANGED asked

(* async_send_goal(goal_), then goal_.trajectory.points.clear(); the other   *)
(* fields record how the goal was made.                                      *)
Send(c, op, from, ps) ==
  /\ wire' = Append(wire, [op |-> op, from |-> from, speed |-> speed, points |-> ps])
  /\ last' = [last EXCEPT ![c] = op]
  /\ points' = <<>>
  /\ UNCHANGED asked
-----------------------------------------------------------------------------
(* ElfinBasicAPI *)

SetVelocity(c) ==
  /\ Serving(c, "velocity")
  /\ speed' = inbox[c].arg /\ scale' = inbox[c].arg
  /\ Return(c)
  /\ UNCHANGED <<links, points, out, arm, world>>

(* setRefLink_cb and setEndLink_cb *)
SetLink(c) ==
  /\ pc = "spin" /\ inbox[c] # None /\ inbox[c].op \in Links
  /\ LET f == inbox[c].arg  all == [teleop |-> f, motion |-> f, shown |-> f] IN
     /\ links' = IF f \in Frames THEN [links EXCEPT ![inbox[c].op] = all] ELSE links
  /\ Return(c)
  /\ UNCHANGED <<speed, scale, points, out, arm, world>>

(* enableRobot_cb up to the first future.get(): the answer is delivered by  *)
(* the callback group that waits for it, so nothing after it is reached.    *)
(* Without a controller manager it is answered, whatever the driver.        *)
EnableRobot(c) ==
  /\ Serving(c, "enable")
  /\ \/ /\ inbox[c].arg /\ driver
        /\ Enter(c, "blocked") /\ asked' = asked \cup {"list_controllers"} /\ UNCHANGED <<seed, tmp, tries>>
     \/ Return(c) /\ UNCHANGED asked
  /\ UNCHANGED <<points, wire, last, arm, config, world>>

DisableRobot(c) ==
  /\ Serving(c, "disable")
  /\ IF inbox[c].arg /\ driver
     THEN Enter(c, "blocked") /\ asked' = asked \cup {"disable_robot"} /\ UNCHANGED <<seed, tmp, tries>>
     ELSE Return(c) /\ UNCHANGED asked
  /\ UNCHANGED <<points, wire, last, arm, config, world>>
-----------------------------------------------------------------------------
(* ElfinTeleopAPI *)

Joint(n) == IF n < 0 THEN -n ELSE n
Sign(n) == IF n < 0 THEN -1 ELSE 1
Limit(n) == IF n < 0 THEN Lower ELSE Upper
Moved(v, n, d) == [v EXCEPT ![Joint(n)] = @ + Sign(n) * d]

TeleopJointCmdNoLimit(c) ==
  /\ Serving(c, "noLimit")
  /\ Return(c)
  /\ IF Joint(inbox[c].arg) \in Joints
     THEN Send(c, "noLimit", pos, Append(points, Point(1, Moved(pos, inbox[c].arg, JointStep))))
     ELSE UNCHANGED <<out, points>>
  /\ UNCHANGED <<arm, config, world>>

(* The time to the limit is compared with that of one point; at speed zero  *)
(* it is infinite, or not a number, and never short enough to refuse.       *)
JointTeleop(c) ==
  /\ Serving(c, "joint")
  /\ LET n == inbox[c].arg IN
     IF Joint(n) \in Joints /\ (speed = 0 \/ Dist(Limit(n), pos[Joint(n)]) > speed)
     THEN Enter(c, "joint") /\ seed' = pos /\ tmp' = pos /\ UNCHANGED tries
     ELSE Return(c)
  /\ UNCHANGED <<points, out, arm, config, world>>

(* one turn of the while loop, which goes on until the limit is near *)
JointTeleopStep ==
  /\ pc = "joint" /\ Len(points) < MaxPoints
  /\ LET n == inbox[cur].arg IN
     /\ Dist(Limit(n), tmp[Joint(n)]) > speed
     /\ tmp' = Moved(tmp, n, speed)
     /\ points' = Append(points, Point(Dist(tmp'[Joint(n)], seed[Joint(n)]), tmp'))
  /\ UNCHANGED <<inbox, pc, cur, seed, tries, out, arm, config, world>>

JointTeleopSend ==
  /\ pc = "joint"
  /\ LET n == inbox[cur].arg  j == Joint(n) IN
     /\ Dist(Limit(n), tmp[j]) <= speed
     /\ Send(cur, "joint", seed, Append(points,
          Point(Dist(Limit(n), seed[j]), [seed EXCEPT ![j] = Limit(n)])))
  /\ Return(cur)
  /\ UNCHANGED <<arm, config, world>>

CartTeleop(c) ==
  /\ Serving(c, "cart")
  /\ IF Joint(inbox[c].arg) \in Joints     \* the model has as many axes as joints
     THEN Enter(c, "cartRoot") /\ tmp' = pos /\ tries' = 0 /\ UNCHANGED seed
     ELSE Return(c)
  /\ UNCHANGED <<points, out, arm, config, world>>

(* The two lookups of cartTeleop_cb and of ElfinMotionAPI::updateTransforms *)
LookupNext == [cartRoot |-> "cartTip", cartTip |-> "cartBegin",
               moveRoot |-> "moveTip", moveTip |-> "move"]
Looking == pc \in DOMAIN LookupNext

LookupFound ==
  /\ Looking
  /\ pc' = LookupNext[pc] /\ tries' = 0
  /\ UNCHANGED <<inbox, cur, seed, tmp, points, out, arm, config, world>>

(* Mutant: the count starts again.                                           *)
LookupMissing_forever ==
  /\ Looking
  /\ tries' = IF tries >= MaxTries THEN 0 ELSE tries + 1
  /\ UNCHANGED <<inbox, pc, cur, seed, tmp, points, out, arm, config, world>>

LookupMissing ==
  /\ Looking
  /\ IF tries >= MaxTries THEN Return(cur)
     ELSE tries' = tries + 1 /\ UNCHANGED <<inbox, pc, cur, seed, tmp>>
  /\ UNCHANGED <<points, out, arm, config, world>>

(* the joints are read after the pose, and after the lookups *)
CartBegin ==
  /\ pc = "cartBegin"
  /\ seed' = pos /\ pc' = "cartStep"
  /\ UNCHANGED <<inbox, cur, tmp, points, tries, out, arm, config, world>>

(* Inverse kinematics (external): the solution for a pose, or its mirror,   *)
(* within the joint limits; none may be found.                              *)
Solutions(p) ==
  {v \in {p, [j \in Joints |-> -p[j]]} : \A j \in Joints : v[j] \in Lower..Upper}

CartStep ==
  /\ pc = "cartStep" /\ tries < CartSteps          \* tries is the loop's i
  /\ tmp' = Moved(tmp, inbox[cur].arg, 1)
  /\ Len(points) = tries
  /\ \E q \in Solutions(tmp') :
       /\ Farthest(IF tries = 0 THEN seed ELSE Last(points).at_pos, q) * speed <= Reach
       /\ points' = Append(points, Point(tries + 1, q))
  /\ tries' = tries + 1
  /\ UNCHANGED <<inbox, pc, cur, seed, out, arm, config, world>>

(* All steps made, or the loop left: no solution, or one too far away.  *)
CartEnd ==
  /\ pc = "cartStep"
  /\ Return(cur)
  /\ IF points = <<>> THEN UNCHANGED <<out, points>> ELSE Send(cur, "cart", seed, points)
  /\ UNCHANGED <<arm, config, world>>

Biggest == Farthest(seed, Zero)

(* seed scaled to r/Biggest, on the grid *)
Toward(r) == [j \in Joints |-> Sign(seed[j]) * ((Joint(seed[j]) * r) \div Biggest)]

HomeTeleop(c) ==
  /\ Serving(c, "home")
  /\ IF pos = Zero THEN Return(c)
     ELSE /\ Enter(c, "home") /\ seed' = pos
          /\ tries' = Farthest(pos, Zero)          \* distance left
          /\ UNCHANGED tmp
  /\ UNCHANGED <<points, out, arm, config, world>>

HomeStep ==
  /\ pc = "home" /\ tries > speed
  /\ IF Toward(tries - speed) \notin scene
     THEN /\ Len(points) < MaxPoints
          /\ tries' = tries - speed
          /\ points' = Append(points, Point(Biggest - tries', Toward(tries')))
          /\ UNCHANGED <<inbox, pc, cur, seed, tmp, out>>
     ELSE /\ Return(cur)
          /\ IF tries = Biggest            \* loop_num==1
             THEN UNCHANGED <<out, points>> ELSE Send(cur, "home", seed, points)
  /\ UNCHANGED <<arm, config, world>>

HomeEnd ==
  /\ pc = "home" /\ tries <= speed
  /\ Return(cur)
  /\ IF Zero \in scene /\ tries = Biggest
     THEN UNCHANGED <<out, points>>
     ELSE Send(cur, "home", seed,
               IF Zero \in scene THEN points ELSE Append(points, Point(Biggest, Zero)))
  /\ UNCHANGED <<arm, config, world>>

(* Mutant: the goal is emptied and not sent.                                 *)
TeleopStop_unsent(c) ==
  /\ Serving(c, "stop")
  /\ points' = <<>>
  /\ Return(c)
  /\ UNCHANGED <<out, arm, config, world>>

TeleopStop(c) ==
  /\ Serving(c, "stop")
  /\ Send(c, "stop", pos, <<>>)
  /\ Return(c)
  /\ UNCHANGED <<arm, config, world>>
-----------------------------------------------------------------------------
(* ElfinMotionAPI *)

JointGoal(c) ==
  /\ Serving(c, "jointGoal")
  /\ Return(c)
  /\ plans' \in {plans, plans \cup {speed}}
  /\ UNCHANGED <<pos, goal, points, out, config, world>>

(* cart_goal and cart_path_goal first look the transforms up *)
CartGoal(c) ==
  /\ Serving(c, "cartGoal") \/ Serving(c, "cartPath")
  /\ Enter(c, "moveRoot") /\ tries' = 0
  /\ UNCHANGED <<seed, tmp, points, out, arm, config, world>>

Move ==
  /\ pc = "move"
  /\ \E s \in IF inbox[cur].op = "cartGoal" THEN {speed}
              ELSE IF scale = None THEN Speeds ELSE {scale} :
       plans' \in {plans, plans \cup {s}}
  /\ Return(cur)
  /\ UNCHANGED <<pos, goal, points, out, config, world>>

GetLink(c) ==
  /\ Serving(c, "get")
  /\ Return(c)
  /\ UNCHANGED <<points, out, arm, config, world>>
-----------------------------------------------------------------------------
(* External: the arm, its controller and move_group *)

ControllerTakes ==
  /\ wire # <<>>
  /\ goal' = Head(wire).points /\ wire' = Tail(wire)
  /\ UNCHANGED <<inbox, pc, cur, pos, plans, last, asked, work, config, world>>

ArmMoves ==
  /\ goal # <<>>
  /\ pos' = Head(goal).at_pos /\ goal' = Tail(goal)
  /\ UNCHANGED <<inbox, pc, cur, plans, out, work, config, world>>

PlanExecuted ==
  /\ \E p \in plans : plans' = plans \ {p} /\ goal' = <<Point(1, Zero)>>
  /\ UNCHANGED <<inbox, pc, cur, pos, out, work, config, world>>

Serve(c) ==
  \/ SetVelocity(c) \/ SetLink(c) \/ EnableRobot(c) \/ DisableRobot(c)
  \/ TeleopJointCmdNoLimit(c) \/ JointTeleop(c) \/ CartTeleop(c) \/ HomeTeleop(c)
  \/ TeleopStop(c) \/ JointGoal(c) \/ CartGoal(c) \/ GetLink(c)

Running ==
  \/ JointTeleopStep \/ JointTeleopSend
  \/ LookupFound \/ LookupMissing \/ CartBegin \/ CartStep \/ CartEnd
  \/ HomeStep \/ HomeEnd \/ Move

Arm == ControllerTakes \/ ArmMoves \/ PlanExecuted

Node == (\E c \in Callers : Serve(c)) \/ Running
-----------------------------------------------------------------------------
(* Properties *)

(* The loops that never end: of a teleoperation at speed zero, which set_vel *)
(* takes as it takes any other, and of a joint beyond its limit that is to   *)
(* go further that way, whose distance to the limit grows.  They end with    *)
(* the memory for the points.                                                *)
Outward(n, v) == Sign(n) * (Limit(n) - v[Joint(n)]) < 0
Endless ==
  \/ /\ pc = "joint"
     /\ LET n == inbox[cur].arg IN
        Dist(Limit(n), tmp[Joint(n)]) > speed /\ (speed = 0 \/ Outward(n, tmp))
  \/ pc = "home" /\ speed = 0 /\ Toward(tries) \notin scene

(* Every goal the node sent moves the arm gently and as was asked: its times *)
(* rise, unless the speed is zero; from the position read when the same      *)
(* callback started and from point to point no joint moves further than the  *)
(* speed, the step or the reach of its teleoperation allows; a joint         *)
(* teleoperation ends at a limit of that joint, wherever it began, within    *)
(* the limits or not, and moves nothing but it, and not past the limit nor   *)
(* back; homing passes through no colliding configuration, and only a stop   *)
(* has no points.  The callbacks share goal_: points left over by one of     *)
(* them would end in the next goal.                                          *)
Allowed(op, d, s) == CASE op = "noLimit" -> d <= JointStep
                       [] op = "cart"    -> d * s <= Reach
                       [] OTHER          -> d <= s
Before(from, ps, i) == IF i = 1 THEN Point(0, from) ELSE ps[i - 1]
Gentle(g) ==
  \A i \in DOMAIN g.points :
    LET before == Before(g.from, g.points, i) IN
    /\ g.speed > 0 => before.at < g.points[i].at
    /\ Allowed(g.op, Farthest(before.at_pos, g.points[i].at_pos), g.speed)
Between(a, b, c) == (a <= b /\ b <= c) \/ (c <= b /\ b <= a)
AsAsked(g) ==
  LET through == {g.points[i].at_pos : i \in DOMAIN g.points} IN
  /\ g.op = "stop" <=> g.points = <<>>
  /\ g.op = "joint" =>
       \E j \in Joints, limit \in {Lower, Upper} :
         /\ Last(g.points).at_pos[j] = limit
         /\ \A v \in through : v = [g.from EXCEPT ![j] = v[j]]
         /\ \A i \in DOMAIN g.points :
              Between(Before(g.from, g.points, i).at_pos[j], g.points[i].at_pos[j], limit)
  /\ g.op = "home" => through \cap scene = {}
GoalsSound == \A i \in DOMAIN wire : Gentle(wire[i]) /\ AsAsked(wire[i])
=============================================================================
