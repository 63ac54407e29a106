-------------------------- MODULE ElfinGui_proofs --------------------------
(***************************************************************************)
(* Proofs about the control panel and the API node: a button that was      *)
(* released leaves no motion behind, whatever the buttons and the rest of  *)
(* the system are, and every goal is gentle and as was asked.              *)
(***************************************************************************)
EXTENDS ElfinGui, TLAPS, FiniteSetTheorems, WellFoundedInduction

Requests == {None, StopReq} \cup Buttons \cup Clicks \cup Servo
Places == {"idle", "start", "acquire", "call", "wait"}

PanelType ==
  /\ events \in Seq(Requests)
  /\ held \in BOOLEAN
  /\ at \in [{"main", "bg"} -> [at : Places, req : Requests]]
  /\ at["main"].at = "idle" => at["main"] = Idle
  /\ DOMAIN inbox = Callers /\ inbox = [c \in Callers |-> inbox[c]]
  /\ DOMAIN last = Callers /\ last = [c \in Callers |-> last[c]]

(* The request a callback works for is still there, and of its kind.         *)
KindOf ==
  [joint |-> {"joint"}, home |-> {"home"},
   cartRoot |-> {"cart"}, cartTip |-> {"cart"}, cartBegin |-> {"cart"}, cartStep |-> {"cart"},
   moveRoot |-> {"cartGoal", "cartPath"}, moveTip |-> {"cartGoal", "cartPath"},
   move |-> {"cartGoal", "cartPath"}]

Serviced ==
  \/ pc \in {"spin", "blocked"}
  \/ /\ pc \in DOMAIN KindOf
     /\ cur \in Callers /\ inbox[cur] # None /\ inbox[cur].op \in KindOf[pc]

(* What the main thread asked for is what the node has of it.                *)
MainAsks ==
  inbox["main"] # None => at["main"].at = "wait" /\ inbox["main"].op = at["main"].req.op

Quiet(r) == r = StopReq \/ r.op \in Links
Stops(i) == events[i] = StopReq

(* A motion that is asked for, or still to be asked for, has the stop of its *)
(* release behind it in the queue.                                           *)
QueuedStop ==
  \A k \in DOMAIN events :
    events[k] \notin Servo /\ ~Quiet(events[k]) =>
      \E l \in DOMAIN events : l > k /\ Stops(l)
AskedStop ==
  at["main"].at # "idle" /\ ~Quiet(at["main"].req) => \E l \in DOMAIN events : Stops(l)

(* A motion that was sent has a stop behind it: in the queue, or in the      *)
(* hands of the main thread, or before the node.                             *)
StopInHand ==
  /\ at["main"].req = StopReq
  /\ at["main"].at \in {"acquire", "call", "wait"}
  /\ at["main"].at = "wait" => inbox["main"] # None
SentStop ==
  last["main"] \notin {None, "stop"} =>
    StopInHand \/ \E l \in DOMAIN events : Stops(l)

Inv ==
  /\ PanelType /\ Serviced /\ MainAsks
  /\ held \/ (QueuedStop /\ AskedStop /\ SentStop)
-----------------------------------------------------------------------------
(* The node *)

Boxes == DOMAIN inbox = Callers /\ inbox = [c \in Callers |-> inbox[c]]
Histories == DOMAIN last = Callers /\ last = [c \in Callers |-> last[c]]

Motions == {"noLimit", "joint", "cart", "home", "stop"}

Untouched == inbox' = inbox /\ last' = last
Answers(c) ==
  /\ inbox[c] # None /\ inbox' = [inbox EXCEPT ![c] = None]
  /\ \/ last' = last /\ inbox[c].op # "stop"
     \/ last' = [last EXCEPT ![c] = inbox[c].op] /\ inbox[c].op \in Motions

(* A callback that starts leaves its request where it is, or answers it; it  *)
(* sends a goal of the kind of the request at most, and a stop is never      *)
(* answered without one.                                                     *)
LEMMA ServeAnswers ==
  ASSUME GuiAssumption, Boxes, Serviced, NEW c \in Callers, Serve(c)
  PROVE  (Untouched \/ Answers(c)) /\ Serviced'
<1> USE DEF Boxes, Serviced, Untouched, Answers, Motions, KindOf, Return, Enter, Serving, Send, out
<1>1. CASE SetVelocity(c)
  BY <1>1 DEF SetVelocity
<1>2. CASE SetLink(c)
  <2>1. inbox[c].op # "stop"
    BY <1>2 DEF SetLink, GuiAssumption
  <2> QED BY <2>1, <1>2 DEF SetLink
<1>3. CASE EnableRobot(c)
  BY <1>3 DEF EnableRobot
<1>4. CASE DisableRobot(c)
  BY <1>4 DEF DisableRobot
<1>5. CASE TeleopJointCmdNoLimit(c)
  BY <1>5 DEF TeleopJointCmdNoLimit
<1>6. CASE JointTeleop(c)
  BY <1>6 DEF JointTeleop
<1>7. CASE CartTeleop(c)
  BY <1>7 DEF CartTeleop
<1>8. CASE HomeTeleop(c)
  BY <1>8 DEF HomeTeleop
<1>9. CASE TeleopStop(c)
  BY <1>9 DEF TeleopStop
<1>10. CASE JointGoal(c)
  BY <1>10 DEF JointGoal
<1>11. CASE CartGoal(c)
  BY <1>11 DEF CartGoal
<1>12. CASE GetLink(c)
  BY <1>12 DEF GetLink
<1> QED
  BY <1>1, <1>2, <1>3, <1>4, <1>5, <1>6, <1>7, <1>8, <1>9, <1>10, <1>11, <1>12 DEF Serve

(* The same of a callback that goes on.                                      *)
LEMMA RunningAnswers ==
  ASSUME Boxes, Serviced, Running
  PROVE  (Untouched \/ (cur \in Callers /\ Answers(cur))) /\ Serviced'
<1> USE DEF Boxes, Serviced, Untouched, Answers, Motions, KindOf, Return, Send, out
<1>1. CASE JointTeleopStep
  BY <1>1 DEF JointTeleopStep
<1>2. CASE JointTeleopSend
  BY <1>2 DEF JointTeleopSend
<1>3. CASE LookupFound
  BY <1>3 DEF LookupFound, Looking, LookupNext
<1>4. CASE LookupMissing
  BY <1>4 DEF LookupMissing, Looking, LookupNext
<1>5. CASE CartBegin
  BY <1>5 DEF CartBegin
<1>6. CASE CartStep
  BY <1>6 DEF CartStep
<1>7. CASE CartEnd
  BY <1>7 DEF CartEnd
<1>8. CASE HomeStep
  BY <1>8 DEF HomeStep
<1>9. CASE HomeEnd
  BY <1>9 DEF HomeEnd
<1>10. CASE Move
  BY <1>10 DEF Move
<1> QED
  BY <1>1, <1>2, <1>3, <1>4, <1>5, <1>6, <1>7, <1>8, <1>9, <1>10 DEF Running
-----------------------------------------------------------------------------
(* One lemma for each part of the system that takes steps *)

LEMMA NodeKeeps ==
  ASSUME GuiAssumption, Inv, Node, UNCHANGED panel
  PROVE  Inv'
<1>1. Boxes /\ Histories /\ Serviced
  BY DEF Inv, PanelType, Boxes, Histories
<1>2. Serviced' /\ (Untouched \/ \E c \in Callers : Answers(c))
  <2>1. CASE Running
    BY <2>1, <1>1, RunningAnswers
  <2>2. ASSUME NEW c \in Callers, Serve(c) PROVE Serviced' /\ (Untouched \/ Answers(c))
    BY <2>2, <1>1, ServeAnswers
  <2> QED BY <2>1, <2>2 DEF Node, Untouched
<1>3. CASE Untouched
  BY <1>3, <1>2 DEF Untouched, Inv, PanelType, MainAsks, QueuedStop, AskedStop, SentStop,
    StopInHand, Stops, panel
<1>4. ASSUME NEW c \in Callers, Answers(c) PROVE Inv'
  <2>1. /\ DOMAIN inbox' = Callers /\ inbox'[c] = None
        /\ \A d \in Callers \ {c} : inbox'[d] = inbox[d] /\ last'[d] = last[d]
        /\ DOMAIN last' = Callers
        /\ \/ last'[c] = last[c] /\ inbox[c].op # "stop"
           \/ last'[c] = inbox[c].op /\ inbox[c].op \in Motions
    BY <1>4, <1>1 DEF Answers, Boxes, Histories
  <2>2. PanelType'
    <3>1. inbox' = [d \in Callers |-> inbox'[d]]
      BY <1>4, <1>1 DEF Answers, Boxes
    <3>2. last' = [d \in Callers |-> last'[d]]
      BY <1>4, <1>1 DEF Answers, Histories
    <3> QED BY <2>1, <3>1, <3>2 DEF Inv, PanelType, panel
  <2>3. MainAsks'
    BY <2>1, <1>1 DEF Inv, MainAsks, panel, GuiAssumption
  <2>4. ASSUME ~held PROVE QueuedStop' /\ AskedStop'
    BY <2>4 DEF Inv, QueuedStop, AskedStop, Stops, panel
  <2>5. ASSUME ~held PROVE SentStop'
    <3>1. "main" \in Callers
      BY DEF GuiAssumption
    <3>2. CASE c # "main"
      BY <3>1, <3>2, <2>1, <2>5 DEF Inv, SentStop, StopInHand, Stops, panel
    <3>3. CASE c = "main"
      <4>1. at["main"].at = "wait" /\ inbox["main"].op = at["main"].req.op
        BY <3>3, <1>4 DEF Answers, Inv, MainAsks
      <4>2. CASE ~Quiet(at["main"].req)
        <5>1. \E l \in DOMAIN events : Stops(l)
          BY <4>1, <4>2, <2>5 DEF Inv, AskedStop
        <5> QED BY <5>1 DEF SentStop, Stops, panel
      <4>3. CASE at["main"].req = StopReq
        <5>1. last'["main"] = "stop"
          BY <4>1, <4>3, <3>3, <2>1 DEF StopReq
        <5> QED BY <5>1 DEF SentStop
      <4>4. CASE at["main"].req.op \in Links /\ at["main"].req # StopReq
        <5>1. last'["main"] = last["main"]
          BY <4>1, <4>4, <3>3, <2>1 DEF Motions, GuiAssumption
        <5> QED BY <5>1, <4>4, <2>5 DEF Inv, SentStop, StopInHand, Stops, panel
      <4> QED BY <4>2, <4>3, <4>4 DEF Quiet
    <3> QED BY <3>2, <3>3
  <2> QED BY <1>2, <2>2, <2>3, <2>4, <2>5 DEF Inv, panel
<1> QED BY <1>2, <1>3, <1>4
LEMMA ArmKeeps ==
  ASSUME Inv, Arm, UNCHANGED panel
  PROVE  Inv'
<1>1. UNCHANGED <<inbox, pc, cur, last>>
  BY DEF Arm, ControllerTakes, ArmMoves, PlanExecuted, out
<1> QED
  BY <1>1 DEF Inv, PanelType, Serviced, MainAsks, QueuedStop, AskedStop, SentStop,
    StopInHand, Stops, panel

(* What a button puts behind the queue leaves the order of the rest alone.   *)
LEMMA QueuedAtEnd ==
  ASSUME events \in Seq(Requests), NEW r \in Requests, events' = Append(events, r)
  PROVE  /\ events' \in Seq(Requests)
         /\ Len(events) + 1 \in DOMAIN events' /\ events'[Len(events) + 1] = r
         /\ \A i \in DOMAIN events : i \in DOMAIN events' /\ events'[i] = events[i]
         /\ \A i \in DOMAIN events' : i \in DOMAIN events \/ i = Len(events) + 1
OBVIOUS

LEMMA OperatorKeeps ==
  ASSUME GuiAssumption, Inv, Operator
  PROVE  Inv'
<1> USE DEF Inv, PanelType, Serviced, MainAsks, api, vars
<1>1. ASSUME NEW r \in Buttons, Press(r) PROVE Inv'
  BY <1>1, QueuedAtEnd DEF Press, Requests
<1>2. ASSUME Release PROVE Inv'
  <2>1. /\ events' \in Seq(Requests)
        /\ Len(events) + 1 \in DOMAIN events' /\ events'[Len(events) + 1] = StopReq
        /\ \A i \in DOMAIN events' : i \in DOMAIN events \/ i = Len(events) + 1
    BY <1>2, QueuedAtEnd DEF Release, Requests
  <2>2. QueuedStop'
    <3>1. \A i \in DOMAIN events : Len(events) + 1 > i
      OBVIOUS
    <3> QED BY <2>1, <3>1 DEF QueuedStop, Stops, Quiet
  <2>3. AskedStop' /\ SentStop'
    BY <2>1 DEF AskedStop, SentStop, Stops
  <2> QED BY <2>1, <2>2, <2>3, <1>2 DEF Release
<1>3. ASSUME NEW r \in Clicks \cup Servo, Click(r) PROVE Inv'
  <2>1. /\ events' \in Seq(Requests)
        /\ Len(events) + 1 \in DOMAIN events' /\ events'[Len(events) + 1] = r
        /\ \A i \in DOMAIN events : i \in DOMAIN events' /\ events'[i] = events[i]
        /\ \A i \in DOMAIN events' : i \in DOMAIN events \/ i = Len(events) + 1
    BY <1>3, QueuedAtEnd DEF Click, Requests
  <2>2. r \in Servo \/ Quiet(r)
    BY DEF GuiAssumption, Quiet
  <2>3. QueuedStop'
    BY <2>1, <2>2, <1>3 DEF QueuedStop, Stops, Click
  <2>4. AskedStop' /\ SentStop'
    BY <2>1, <1>3 DEF AskedStop, SentStop, StopInHand, Stops, Click
  <2> QED BY <2>1, <2>3, <2>4, <1>3 DEF Click
<1> QED BY <1>1, <1>2, <1>3 DEF Operator

LEMMA OtherKeeps ==
  ASSUME GuiAssumption, Inv, OtherCalls
  PROVE  Inv'
<1>1. PICK r \in Others : Call("other", r.op, r.arg)
  BY DEF OtherCalls
<1>2. /\ inbox["other"] = None /\ \A d \in Callers \ {"other"} : inbox'[d] = inbox[d]
      /\ inbox' = [d \in Callers |-> inbox'[d]] /\ DOMAIN inbox' = Callers
      /\ UNCHANGED <<pc, cur, last>>
  BY <1>1 DEF Call, Inv, PanelType, out
<1>3. PanelType' /\ Serviced'
  BY <1>2 DEF Inv, PanelType, Serviced, OtherCalls
<1>4. MainAsks' /\ inbox'["main"] = inbox["main"]
  BY <1>2 DEF Inv, MainAsks, OtherCalls, GuiAssumption
<1>5. ~held => QueuedStop' /\ AskedStop' /\ SentStop'
  BY <1>2, <1>4 DEF Inv, QueuedStop, AskedStop, SentStop, StopInHand, Stops, OtherCalls
<1> QED BY <1>3, <1>4, <1>5 DEF Inv, OtherCalls

LEMMA Dequeued ==
  ASSUME events \in Seq(Requests), events # <<>>, events' = Tail(events)
  PROVE  /\ events' \in Seq(Requests)
         /\ 1 \in DOMAIN events /\ events[1] = Head(events) /\ Head(events) \in Requests
         /\ \A i \in DOMAIN events' : i + 1 \in DOMAIN events /\ events'[i] = events[i + 1]
         /\ \A i \in DOMAIN events :
              i = 1 \/ (i - 1 \in DOMAIN events' /\ events'[i - 1] = events[i])
OBVIOUS

(* The order of what is behind the head stays.                               *)
LEMMA TailKeepsQueue ==
  ASSUME events \in Seq(Requests), events # <<>>, events' = Tail(events), QueuedStop
  PROVE  QueuedStop'
<1>1. SUFFICES ASSUME NEW k \in DOMAIN events', events'[k] \notin Servo, ~Quiet(events'[k])
      PROVE \E l \in DOMAIN events' : l > k /\ events'[l] = StopReq
  BY DEF QueuedStop, Stops
<1>2. k \in Nat /\ k >= 1 /\ k + 1 \in DOMAIN events /\ events'[k] = events[k + 1]
  BY Dequeued
<1>3. PICK l \in DOMAIN events : l > k + 1 /\ events[l] = StopReq
  BY <1>1, <1>2 DEF QueuedStop, Stops
<1>4. l \in Nat /\ l - 1 \in DOMAIN events' /\ events'[l - 1] = StopReq /\ l - 1 > k
  BY <1>2, <1>3, Dequeued
<1> QED BY <1>4

LEMMA ServoKeeps ==
  ASSUME GuiAssumption, Inv, ServoClicked
  PROVE  Inv'
<1> USE DEF Inv, PanelType, ServoClicked
<1>1. /\ events \in Seq(Requests) /\ events # <<>> /\ events' = Tail(events)
      /\ Head(events) \in Requests /\ Head(events) # StopReq
  BY Dequeued DEF GuiAssumption
<1>2. UNCHANGED <<inbox, pc, cur, last, held>>
  BY DEF api, vars
<1>3. at' \in [{"main", "bg"} -> [at : Places, req : Requests]] /\ at'["main"] = at["main"]
  BY <1>1 DEF Places
<1>4. PanelType'
  <2>1. events' \in Seq(Requests)
    BY <1>1, Dequeued
  <2> QED BY <1>2, <1>3, <2>1
<1>5. Serviced' /\ MainAsks'
  BY <1>2, <1>3 DEF Serviced, MainAsks
<1>6. ASSUME ~held PROVE QueuedStop' /\ AskedStop' /\ SentStop'
  <2>1. QueuedStop'
    BY <1>1, <1>6, TailKeepsQueue
  <2>2. AskedStop'
    BY <1>3 DEF AskedStop, Idle
  <2>3. at["main"].at = "idle" /\ (SentStop => last["main"] \in {None, "stop"} \/
                                     \E l \in DOMAIN events : l # 1 /\ events[l] = StopReq)
    BY <1>1, Dequeued DEF SentStop, StopInHand, Stops, Idle
  <2>4. SentStop'
    BY <1>1, <1>2, <1>6, <2>3, Dequeued DEF SentStop, Stops
  <2> QED BY <2>1, <2>2, <2>4
<1> QED BY <1>2, <1>4, <1>5, <1>6

LEMMA MainKeeps ==
  ASSUME GuiAssumption, Inv, MainHandles
  PROVE  Inv'
<1> USE DEF Inv, PanelType, MainHandles
<1>1. /\ events \in Seq(Requests) /\ events # <<>> /\ events' = Tail(events)
      /\ Head(events) \in Requests /\ events[1] = Head(events)
  BY Dequeued
<1>2. UNCHANGED <<inbox, pc, cur, last, held>>
  BY DEF api, vars
<1>3. /\ at' \in [{"main", "bg"} -> [at : Places, req : Requests]]
      /\ at'["main"].at \in {"call", "acquire"} /\ at'["main"].req = Head(events)
  BY <1>1 DEF Places
<1>4. PanelType'
  BY <1>1, <1>2, <1>3, Dequeued
<1>5. Serviced' /\ MainAsks'
  BY <1>2 DEF Serviced, MainAsks, Idle
<1>6. ASSUME ~held PROVE QueuedStop' /\ AskedStop' /\ SentStop'
  <2>1. QueuedStop'
    BY <1>1, <1>6, TailKeepsQueue
  <2>2. AskedStop'
    <3>1. SUFFICES ASSUME ~Quiet(Head(events)) PROVE \E l \in DOMAIN events' : events'[l] = StopReq
      BY <1>3 DEF AskedStop, Stops
    <3>2. PICK l \in DOMAIN events : l > 1 /\ events[l] = StopReq
      BY <1>1, <1>6, <3>1, Dequeued DEF QueuedStop, Stops
    <3>3. l - 1 \in DOMAIN events' /\ events'[l - 1] = StopReq
      BY <1>1, <3>2, Dequeued
    <3> QED BY <3>3
  <2>3. last["main"] \in {None, "stop"} \/ \E l \in DOMAIN events : events[l] = StopReq
    BY <1>6 DEF SentStop, StopInHand, Stops, Idle
  <2>4. SentStop'
    <3>1. CASE last["main"] \in {None, "stop"}
      BY <1>2, <3>1 DEF SentStop
    <3>2. CASE Head(events) = StopReq
      BY <1>3, <3>2 DEF SentStop, StopInHand
    <3>3. ASSUME NEW l \in DOMAIN events, events[l] = StopReq, l # 1 PROVE SentStop'
      <4>1. l - 1 \in DOMAIN events' /\ events'[l - 1] = StopReq
        BY <1>1, <3>3, Dequeued
      <4> QED BY <4>1 DEF SentStop, Stops
    <3> QED BY <1>1, <2>3, <3>1, <3>2, <3>3
  <2> QED BY <2>1, <2>2, <2>4
<1> QED BY <1>2, <1>4, <1>5, <1>6

LEMMA StartKeeps ==
  ASSUME GuiAssumption, Inv, BgStart
  PROVE  Inv'
<1> USE DEF Inv, PanelType, BgStart
<1>1. /\ "main" \in Callers /\ "async" \in Callers
      /\ at' \in [{"main", "bg"} -> [at : Places, req : Requests]] /\ at'["main"] = at["main"]
  BY DEF GuiAssumption, Places
<1>2. /\ DOMAIN inbox' = Callers /\ inbox' = [c \in Callers |-> inbox'[c]]
      /\ \A c \in Callers : inbox[c] # None \/ c # "async" => inbox'[c] = inbox[c]
      /\ UNCHANGED <<pc, cur, last, events, held>>
  BY <1>1 DEF Call, api, vars, out
<1>3. PanelType' /\ Serviced' /\ MainAsks'
  BY <1>1, <1>2 DEF Serviced, MainAsks
<1>4. ~held => QueuedStop' /\ AskedStop' /\ SentStop'
  BY <1>1, <1>2 DEF QueuedStop, AskedStop, SentStop, StopInHand, Stops
<1> QED BY <1>2, <1>3, <1>4

LEMMA AcquireKeeps ==
  ASSUME Inv, NEW t \in {"main", "bg"}, Acquire(t)
  PROVE  Inv'
<1> USE DEF Inv, PanelType, Acquire
<1>1. /\ at' \in [{"main", "bg"} -> [at : Places, req : Requests]]
      /\ at'["main"].req = at["main"].req
      /\ at'["main"] = at["main"] \/ (at["main"].at = "acquire" /\ at'["main"].at = "call")
  BY DEF Places
<1>2. UNCHANGED <<inbox, pc, cur, last, events, held>>
  BY DEF api, vars
<1>3. PanelType' /\ Serviced' /\ MainAsks'
  BY <1>1, <1>2 DEF Serviced, MainAsks
<1>4. ~held => QueuedStop' /\ AskedStop' /\ SentStop'
  BY <1>1, <1>2 DEF QueuedStop, AskedStop, SentStop, StopInHand, Stops
<1> QED BY <1>2, <1>3, <1>4

LEMMA AskKeeps ==
  ASSUME GuiAssumption, Inv, NEW t \in {"main", "bg"}, AskService(t)
  PROVE  Inv'
<1> USE DEF Inv, PanelType, AskService
<1>1. /\ "main" \in Callers /\ t \in Callers
      /\ at' \in [{"main", "bg"} -> [at : Places, req : Requests]]
      /\ at'["main"].req = at["main"].req
      /\ t # "main" => at'["main"] = at["main"]
      /\ t = "main" => at["main"].at = "call" /\ at'["main"].at = "wait"
  BY DEF GuiAssumption, Places
<1>2. /\ DOMAIN inbox' = Callers /\ inbox' = [c \in Callers |-> inbox'[c]]
      /\ \A c \in Callers : inbox[c] # None \/ c # t => inbox'[c] = inbox[c]
      /\ t = "main" =>
           inbox'["main"] = [op |-> at["main"].req.op, arg |-> at["main"].req.arg]
      /\ UNCHANGED <<pc, cur, last, events, held>>
  BY <1>1 DEF Call, api, vars, out, ToDriver
<1>3. PanelType' /\ Serviced' /\ MainAsks'
  BY <1>1, <1>2 DEF Serviced, MainAsks
<1>4. ASSUME ~held PROVE QueuedStop' /\ AskedStop' /\ SentStop'
  <2>1. at["main"].req = StopReq /\ t = "main" => inbox'["main"] # None
    BY <1>2 DEF StopReq, GuiAssumption
  <2> QED BY <1>1, <1>2, <1>4, <2>1 DEF QueuedStop, AskedStop, SentStop, StopInHand, Stops
<1> QED BY <1>2, <1>3, <1>4

LEMMA AnsweredKeeps ==
  ASSUME Inv, NEW t \in {"main", "bg"}, Answered(t)
  PROVE  Inv'
<1> USE DEF Inv, PanelType, Answered
<1>1. /\ at' \in [{"main", "bg"} -> [at : Places, req : Requests]]
      /\ t # "main" => at'["main"] = at["main"]
      /\ t = "main" => at["main"].at = "wait" /\ inbox["main"] = None /\ at'["main"] = Idle
  BY DEF Places, Idle, Requests
<1>2. UNCHANGED <<inbox, pc, cur, last, events, held>>
  BY DEF api, vars
<1>3. PanelType' /\ Serviced' /\ MainAsks'
  BY <1>1, <1>2 DEF Serviced, MainAsks
<1>4. ~held => QueuedStop' /\ AskedStop' /\ SentStop'
  BY <1>1, <1>2 DEF QueuedStop, AskedStop, SentStop, StopInHand, Stops, Idle
<1> QED BY <1>2, <1>3, <1>4
-----------------------------------------------------------------------------
LEMMA InitHolds ==
  ASSUME GuiAssumption, GuiInit
  PROVE  Inv
<1>1. "main" \in Callers
  BY DEF GuiAssumption
<1>2. PanelType
  <2>1. Idle \in [at : Places, req : Requests]
    BY DEF Idle, Places, Requests
  <2>2. at \in [{"main", "bg"} -> [at : Places, req : Requests]] /\ at["main"] = Idle
    BY <2>1 DEF GuiInit
  <2>3. events \in Seq(Requests)
    BY DEF GuiInit
  <2>4. inbox = [c \in Callers |-> inbox[c]] /\ last = [c \in Callers |-> last[c]]
    BY DEF GuiInit, Init
  <2> QED BY <2>2, <2>3, <2>4 DEF GuiInit, Init, PanelType
<1>3. Serviced /\ MainAsks
  BY <1>1 DEF GuiInit, Init, Serviced, MainAsks
<1>4. QueuedStop
  BY DEF GuiInit, QueuedStop
<1>5. AskedStop /\ SentStop
  BY <1>1 DEF GuiInit, Init, AskedStop, SentStop, Idle
<1> QED BY <1>2, <1>3, <1>4, <1>5 DEF Inv

LEMMA StepKeeps ==
  ASSUME GuiAssumption, Inv, [GuiNext]_gvars
  PROVE  Inv'
<1>1. CASE UNCHANGED gvars
  BY <1>1 DEF gvars, vars, panel, Inv, PanelType, Serviced, MainAsks, QueuedStop, AskedStop,
    SentStop, StopInHand, Stops
<1>2. CASE (MonitorStarts \/ MonitorEnds)
  BY <1>2 DEF MonitorStarts, MonitorEnds, api, vars, Inv, PanelType, Serviced, MainAsks,
    QueuedStop, AskedStop, SentStop, StopInHand, Stops
<1>3. CASE (\E t \in {"main", "bg"} : Threads(t))
  BY <1>3, AcquireKeeps, AskKeeps, AnsweredKeeps DEF Threads
<1>4. CASE (Node \/ Arm) /\ UNCHANGED panel
  BY <1>4, NodeKeeps, ArmKeeps
<1> QED
  BY <1>1, <1>2, <1>3, <1>4, OperatorKeeps, OtherKeeps, ServoKeeps, MainKeeps, StartKeeps
  DEF GuiNext

(* The panel, the node and the arm keep to the invariant: a motion that is   *)
(* queued, asked for or sent has the stop of its release still behind it, or *)
(* its button is still held (teleop_joints, release_button).                 *)
THEOREM PanelInvariant == GuiSpec => []Inv
<1>1. GuiInit => Inv
  BY GuiAssumption, InitHolds
<1>2. Inv /\ [GuiNext]_gvars => Inv'
  BY GuiAssumption, StepKeeps
<1> QED BY <1>1, <1>2, PTL DEF GuiSpec

(* Once the operator has released every button and the panel is at rest, the *)
(* last goal the node sent for its buttons is a stop, whichever buttons,     *)
(* requests of other programs and robots there are.                          *)
THEOREM ReleaseLeavesStop == GuiSpec => []ReleasedMeansStopped
<1>1. Inv => ReleasedMeansStopped
  BY DEF Inv, PanelType, ReleasedMeansStopped, SentStop, StopInHand, Stops, Idle
<1> QED BY <1>1, PanelInvariant, PTL

-----------------------------------------------------------------------------
(* Numbers: a largest one, and how far two joint vectors are apart           *)

(* A set of naturals that is not empty has a least member: induction without *)
(* an operator.                                                              *)
LEMMA Least ==
  ASSUME NEW T \in SUBSET Nat, T # {}
  PROVE  \E x \in T : \A y \in T : x <= y
<1> DEFINE R == {ss \in Nat \X Nat : ss[1] < ss[2]}
<1>1. IsWellFoundedOn(R, Nat)
  BY NatLessThanWellFounded DEF OpToRel
<1> HIDE DEF R
<1>2. PICK x \in T : \A y \in T : ~(<<y, x>> \in R)
  BY <1>1, WFMin
<1>3. \A y \in T : ~(y < x)
  BY <1>2 DEF R
<1> QED BY <1>3

(* Of the numbers f[1], ..., f[n] one is the largest.                        *)
LEMMA Largest ==
  ASSUME NEW n \in Nat \ {0}, NEW f \in [1 .. n -> Int]
  PROVE  \E m \in 1 .. n : \A j \in 1 .. n : f[m] >= f[j]
<1> DEFINE Good(k) == \E m \in 1 .. k : \A j \in 1 .. k : f[m] >= f[j]
           Bad == {k \in 1 .. n : ~Good(k)}
<1>0. Bad \in SUBSET Nat /\ \A k : k \in Bad <=> k \in 1 .. n /\ ~Good(k)
  OBVIOUS
<1> HIDE DEF Bad
<1>1. ASSUME Bad # {} PROVE FALSE
  <2> PICK k \in Bad : \A y \in Bad : k <= y
    BY <1>0, <1>1, Least
  <2>1. k \in 1 .. n /\ ~Good(k)
    BY <1>0
  <2>2. k # 1
    <3>1. CASE k = 1
      <4>1. Good(1)
        OBVIOUS
      <4> QED BY <3>1, <4>1, <2>1
    <3> QED BY <3>1
  <2>3. k - 1 \in 1 .. n /\ Good(k - 1)
    <3>1. k - 1 \in 1 .. n
      BY <2>1, <2>2
    <3>2. k - 1 \notin Bad
      <4> HIDE DEF Good
      <4> QED BY <2>1
    <3> QED BY <1>0, <3>1, <3>2
  <2> PICK m \in 1 .. k - 1 : \A j \in 1 .. k - 1 : f[m] >= f[j]
    BY <2>3
  <2>4. CASE f[m] >= f[k]
    <3>1. m \in 1 .. k /\ \A j \in 1 .. k : f[m] >= f[j]
      BY <2>1, <2>3, <2>4
    <3>2. Good(k)
      BY <3>1
    <3> QED BY <2>1, <3>2
  <2>5. CASE f[k] > f[m]
    <3>1. k \in 1 .. k /\ \A j \in 1 .. k : f[k] >= f[j]
      BY <2>1, <2>3, <2>5
    <3>2. Good(k)
      BY <3>1
    <3> QED BY <2>1, <3>2
  <2> QED BY <2>1, <2>3, <2>4, <2>5
<1> HIDE DEF Good
<1>2. Good(n)
  BY <1>0, <1>1
<1> QED BY <1>2 DEF Good

Vectors == [Joints -> Int]

(* The joints are numbered from one on.                                       *)
LEMMA JointNumbers ==
  /\ Cardinality(Joints) \in Nat \ {0} /\ Joints = 1 .. Cardinality(Joints)
  /\ Joints \subseteq Nat \ {0} /\ Zero \in Vectors /\ Lower \in Int /\ Upper \in Int /\ Lower < Upper
<1>1. Cardinality(Joints) \in Nat
  BY FS_CardinalityType, ApiAssumption
<1>2. Cardinality(Joints) # 0
  <2>1. 1 .. 0 = {}
    OBVIOUS
  <2> QED BY <2>1, ApiAssumption
<1> QED BY <1>1, <1>2, ApiAssumption DEF Zero, Vectors

(* What the largest difference is.                                           *)
LEMMA FarthestIs ==
  ASSUME NEW v \in Vectors, NEW w \in Vectors
  PROVE  /\ Farthest(v, w) \in Nat
         /\ \A j \in Joints : Dist(v[j], w[j]) <= Farthest(v, w)
         /\ \E j \in Joints : Dist(v[j], w[j]) = Farthest(v, w)
<1> DEFINE n == Cardinality(Joints)
           f == [j \in 1 .. n |-> Dist(v[j], w[j])]
           S == {Dist(v[j], w[j]) : j \in Joints}
<1>1. n \in Nat \ {0} /\ Joints = 1 .. n
  BY JointNumbers
<1>2. \A j \in Joints : Dist(v[j], w[j]) \in Nat
  BY DEF Dist, Vectors
<1> HIDE DEF n
<1>3. f \in [1 .. n -> Int]
  BY <1>1, <1>2
<1>4. PICK m \in 1 .. n : \A j \in 1 .. n : f[m] >= f[j]
  BY <1>1, <1>3, Largest
<1>5. Dist(v[m], w[m]) \in S /\ \A y \in S : Dist(v[m], w[m]) >= y
  BY <1>1, <1>4
<1>6. \E x \in S : \A y \in S : x >= y
  BY <1>5
<1>7. Max(S) \in S /\ \A y \in S : Max(S) >= y
  BY <1>6 DEF Max
<1>8. Farthest(v, w) = Max(S)
  BY DEF Farthest
<1> HIDE DEF f
<1> QED BY <1>2, <1>7, <1>8

(* Within a step is within it for every joint.                               *)
LEMMA FarthestWithin ==
  ASSUME NEW v \in Vectors, NEW w \in Vectors, NEW d \in Int
  PROVE  Farthest(v, w) <= d <=> \A j \in Joints : Dist(v[j], w[j]) <= d
<1>1. \A j \in Joints : Dist(v[j], w[j]) \in Nat
  BY DEF Dist, Vectors
<1> QED BY <1>1, FarthestIs

(* Scaled to one step less, a joint has moved one step at most.              *)
(* What integer division leaves.                                              *)
LEMMA DivBounds ==
  ASSUME NEW x \in Nat, NEW B \in Nat \ {0}
  PROVE  x \div B \in Nat /\ B * (x \div B) <= x /\ x < B * (x \div B) + B
OBVIOUS

LEMMA ScaledStep ==
  ASSUME NEW B \in Nat \ {0}, NEW a \in 0 .. B, NEW r \in Nat, NEW s \in 0 .. r
  PROVE  LET q == (a * r) \div B
             p == (a * (r - s)) \div B
         IN q \in Nat /\ p \in Nat /\ p <= q /\ q <= p + s
<1> DEFINE q == (a * r) \div B
           p == (a * (r - s)) \div B
<1>1. a * r \in Nat /\ a * (r - s) \in Nat /\ a * s \in Nat /\ a * r = a * (r - s) + a * s /\ a * s <= B * s
  OBVIOUS
<1>2. q \in Nat /\ B * q <= a * r /\ a * r < B * q + B
  BY <1>1, DivBounds
<1>3. p \in Nat /\ B * p <= a * (r - s) /\ a * (r - s) < B * p + B
  BY <1>1, DivBounds
<1> HIDE DEF q, p
<1>4. ASSUME q > p + s PROVE FALSE
  <2>1. B * q >= B * (p + s + 1)
    BY <1>2, <1>3, <1>4
  <2>2. B * (p + s + 1) = B * p + B * s + B
    BY <1>3
  <2> QED BY <1>1, <1>2, <1>3, <2>1, <2>2
<1>5. ASSUME p > q PROVE FALSE
  <2>1. B * p >= B * (q + 1)
    BY <1>2, <1>3, <1>5
  <2>2. B * (q + 1) = B * q + B
    BY <1>2
  <2> QED BY <1>1, <1>2, <1>3, <2>1, <2>2
<1> QED BY <1>2, <1>3, <1>4, <1>5 DEF q, p

(* Scaled by one, a joint stays where it is.                                  *)
LEMMA ScaledWhole ==
  ASSUME NEW B \in Nat \ {0}, NEW a \in Nat
  PROVE  (a * B) \div B = a
<1> DEFINE q == (a * B) \div B
<1>1. a * B \in Nat /\ a * B = B * a
  OBVIOUS
<1>2. q \in Nat /\ B * q <= B * a /\ B * a < B * q + B
  BY <1>1, DivBounds
<1> HIDE DEF q
<1>3. ASSUME q > a PROVE FALSE
  <2>1. B * q >= B * (a + 1)
    BY <1>2, <1>3
  <2>2. B * (a + 1) = B * a + B
    OBVIOUS
  <2> QED BY <1>1, <1>2, <2>1, <2>2
<1>4. ASSUME a > q PROVE FALSE
  <2>1. B * a >= B * (q + 1)
    BY <1>2, <1>4
  <2>2. B * (q + 1) = B * q + B
    BY <1>2
  <2> QED BY <1>1, <1>2, <2>1, <2>2
<1> QED BY <1>2, <1>3, <1>4 DEF q

-----------------------------------------------------------------------------
(* Goals *)

Points == [at : Int, at_pos : Vectors]
Goals  == [op : Motions, from : Vectors, speed : Nat, points : Seq(Points)]

NodeType ==
  /\ pos \in Vectors /\ seed \in Vectors /\ tmp \in Vectors
  /\ points \in Seq(Points) /\ goal \in Seq(Points) /\ wire \in Seq(Goals)
  /\ speed \in Speeds /\ tries \in Nat

(* What every request has that is asked for, or still to be asked for.       *)
Asks ==
  /\ \A c \in Callers : inbox[c] # None => Typed(inbox[c])
  /\ \A i \in DOMAIN events : Typed(events[i])
  /\ \A t \in {"main", "bg"} : at[t].at # "idle" => Typed(at[t].req)

(* The points so far move gently, from the seed on.                          *)
Near(op, s, p, q) == /\ s > 0 => p.at < q.at
                     /\ Allowed(op, Farthest(p.at_pos, q.at_pos), s)
Smooth(op, s, from, ps) == \A i \in DOMAIN ps : Near(op, s, Before(from, ps, i), ps[i])
End == IF points = <<>> THEN Point(0, seed) ELSE points[Len(points)]

(* A joint teleoperation is on its way to a limit that it has not reached,   *)
(* but for speed zero at the limit, or it goes away from it for ever.        *)
Only(from, v, j) == v = [from EXCEPT ![j] = v[j]]
Straight(n, j, ps) ==
  \A i \in DOMAIN ps : Only(seed, ps[i].at_pos, j)
                       /\ Between(Before(seed, ps, i).at_pos[j], ps[i].at_pos[j], Limit(n))
JointRun(n, j) ==
  /\ Only(seed, tmp, j)
  /\ IF n < 0 THEN Lower <= tmp[j] /\ tmp[j] <= seed[j] ELSE tmp[j] <= Upper /\ tmp[j] >= seed[j]
  /\ speed > 0 => tmp[j] # Limit(n)
  /\ Straight(n, j, points)
  /\ End = Point(Dist(tmp[j], seed[j]), tmp)
  /\ Smooth("joint", speed, seed, points)
Astray(n, j) == IF n < 0 THEN tmp[j] + speed < Lower ELSE tmp[j] > Upper + speed
JointWork ==
  LET n == inbox[cur].arg IN
  n \in Int /\ Joint(n) \in Joints /\ (JointRun(n, Joint(n)) \/ Astray(n, Joint(n)))

CartWork ==
  /\ points # <<>> => End.at = Len(points)
  /\ inbox[cur].arg \in Int /\ Joint(inbox[cur].arg) \in Joints
  /\ Smooth("cart", speed, seed, points)

(* A homing is on the line from its seed to zero.                            *)
HomeWork ==
  /\ Biggest \in Nat \ {0} /\ tries \in 1..Biggest
  /\ End = Point(Biggest - tries, Toward(tries))
  /\ \A i \in DOMAIN points : points[i].at_pos \notin scene
  /\ speed > 0 => Smooth("home", speed, seed, points) /\ (points = <<>> <=> tries = Biggest)
  /\ speed = 0 => tries = Biggest /\ (points # <<>> => Toward(Biggest) \notin scene)

Working ==
  /\ pc \notin {"joint", "cartStep", "home"} => points = <<>>
  /\ pc = "joint" => JointWork
  /\ pc \in {"cartRoot", "cartTip", "cartBegin"} =>
       inbox[cur].arg \in Int /\ Joint(inbox[cur].arg) \in Joints
  /\ pc = "cartStep" => CartWork
  /\ pc = "home" => HomeWork

Sound == NodeType /\ Working /\ GoalsSound

(* Home is a position.                                                        *)
LEMMA ZeroPoint == Zero \in Vectors
BY DEF Zero, Vectors

(* What Append does.                                                          *)
LEMMA Appended ==
  ASSUME NEW S, NEW q \in Seq(S), NEW e \in S
  PROVE  /\ Append(q, e) \in Seq(S) /\ Len(Append(q, e)) = Len(q) + 1 /\ Len(q) \in Nat
         /\ Append(q, e)[Len(q) + 1] = e /\ Append(q, e) # <<>>
         /\ DOMAIN Append(q, e) = 1 .. Len(q) + 1 /\ DOMAIN q = 1 .. Len(q)
         /\ \A k \in 1 .. Len(q) : Append(q, e)[k] = q[k]
OBVIOUS

(* The steps are natural numbers.                                             *)
LEMMA SpeedNat ==
  ASSUME NodeType
  PROVE speed \in Nat /\ JointStep \in Nat /\ Reach \in Nat
BY ApiAssumption DEF NodeType

(* What comes before a point stays so when another one is appended.           *)
LEMMA Preceded ==
  ASSUME points \in Seq(Points), NEW e \in Points
  PROVE  LET q == Append(points, e) IN
         /\ \A i \in DOMAIN points : q[i] = points[i] /\ Before(seed, q, i) = Before(seed, points, i)
         /\ Before(seed, q, Len(points) + 1) = End
<1> DEFINE q == Append(points, e)
<1>1. /\ Len(points) \in Nat /\ DOMAIN points = 1 .. Len(points) /\ q[Len(points) + 1] = e
      /\ \A k \in 1 .. Len(points) : q[k] = points[k]
  BY Appended
<1> HIDE DEF q
<1>2. ASSUME NEW i \in DOMAIN points PROVE Before(seed, q, i) = Before(seed, points, i)
  <2>1. i # 1 => i - 1 \in 1 .. Len(points)
    BY <1>1
  <2> QED BY <2>1, <1>1 DEF Before
<1>3. Before(seed, q, Len(points) + 1) = End
  <2>1. CASE Len(points) = 0
    BY <2>1 DEF Before, End
  <2>2. CASE Len(points) > 0
    <3> PICK k : k = Len(points)
      OBVIOUS
    <3>1. points # <<>> /\ k + 1 # 1 /\ (k + 1) - 1 = k /\ q[k] = points[k]
      BY <2>2, <1>1
    <3> QED BY <3>1 DEF Before, End
  <2> QED BY <2>1, <2>2, <1>1
<1> QED BY <1>1, <1>2, <1>3 DEF q

(* A point near the last one, and later, goes on smoothly.                    *)
LEMMA SmoothOn ==
  ASSUME NodeType, NEW op, NEW s, NEW e \in Points, Smooth(op, s, seed, points), Near(op, s, End, e)
  PROVE  Smooth(op, s, seed, Append(points, e))
<1> DEFINE q == Append(points, e)
<1>1. /\ Len(points) \in Nat /\ DOMAIN q = 1 .. Len(points) + 1 /\ DOMAIN points = 1 .. Len(points)
      /\ q[Len(points) + 1] = e /\ \A k \in 1 .. Len(points) : q[k] = points[k]
  BY Appended DEF NodeType
<1>3. \A i \in DOMAIN points : q[i] = points[i] /\ Before(seed, q, i) = Before(seed, points, i)
  BY Preceded DEF NodeType
<1>4. Before(seed, q, Len(points) + 1) = End
  BY Preceded DEF NodeType
<1> HIDE DEF q
<1>2. ASSUME NEW i \in DOMAIN q
      PROVE  Near(op, s, Before(seed, q, i), q[i])
  <2>1. CASE i \in 1 .. Len(points)
    <3>1. q[i] = points[i] /\ Before(seed, q, i) = Before(seed, points, i)
      BY <2>1, <1>1, <1>3
    <3> QED BY <3>1, <2>1, <1>1 DEF Smooth
  <2>2. CASE i = Len(points) + 1
    BY <2>2, <1>1, <1>4
  <2> QED BY <2>1, <2>2, <1>1, <1>2
<1> QED BY <1>2 DEF Smooth, q

(* A goal is gentle when its points are smooth.                               *)
LEMMA SmoothGoal ==
  ASSUME NEW g
  PROVE  Gentle(g) <=> Smooth(g.op, g.speed, g.from, g.points)
BY DEF Gentle, Smooth, Near

(* What is sent joins the goals on their way.                                *)
LEMMA SentSound ==
  ASSUME NodeType, GoalsSound, NEW c, NEW op \in Motions, NEW from \in Vectors, NEW ps \in Seq(Points),
         Send(c, op, from, ps), scene' = scene,
         Smooth(op, speed, from, ps), AsAsked([op |-> op, from |-> from, speed |-> speed, points |-> ps])
  PROVE  GoalsSound' /\ wire' \in Seq(Goals) /\ points' = <<>>
<1> DEFINE g == [op |-> op, from |-> from, speed |-> speed, points |-> ps]
<1>1. g \in Goals /\ Gentle(g) /\ AsAsked(g)
  BY SmoothGoal, SpeedNat DEF Goals
<1>2. wire' = Append(wire, g) /\ points' = <<>>
  BY DEF Send
<1> HIDE DEF g
<1>3. /\ wire' \in Seq(Goals) /\ DOMAIN wire' = 1 .. Len(wire) + 1 /\ Len(wire) \in Nat /\ DOMAIN wire = 1 .. Len(wire)
      /\ wire'[Len(wire) + 1] = g /\ \A k \in 1 .. Len(wire) : wire'[k] = wire[k]
  BY <1>1, <1>2, Appended DEF NodeType
<1>4. \A i \in DOMAIN wire' : Gentle(wire'[i]) /\ AsAsked(wire'[i])
  BY <1>1, <1>3 DEF GoalsSound
<1>5. \A h : AsAsked(h)' <=> AsAsked(h)
  BY DEF AsAsked
<1>6. \A h : Gentle(h)' <=> Gentle(h)
  BY DEF Gentle
<1> QED BY <1>2, <1>3, <1>4, <1>5, <1>6 DEF GoalsSound

(* The goals on their way stay sound.                                         *)
LEMMA SameSound ==
  ASSUME GoalsSound, UNCHANGED <<wire, scene>>
  PROVE  GoalsSound'
<1>1. \A h : AsAsked(h)' <=> AsAsked(h)
  BY DEF AsAsked
<1>2. \A h : Gentle(h)' <=> Gentle(h)
  BY DEF Gentle
<1> QED BY <1>1, <1>2 DEF GoalsSound

(* A callback that ends without a goal, or goes on without a point.          *)
LEMMA Ends ==
  ASSUME NodeType, GoalsSound, points = <<>>, NEW c, Return(c),
         UNCHANGED <<pos, points, goal, wire, scene>>, speed' \in Speeds
  PROVE  Sound'
<1>1. NodeType'
  BY ZeroPoint DEF NodeType, Return
<1>2. Working'
  BY DEF Working, Return
<1> QED BY <1>1, <1>2, SameSound DEF Sound

(* A callback that ends by sending a sound goal.                              *)
LEMMA Sends ==
  ASSUME NodeType, GoalsSound, NEW c, Return(c),
         NEW op \in Motions, NEW from \in Vectors, NEW ps \in Seq(Points),
         Send(c, op, from, ps), UNCHANGED <<pos, goal, speed, scene>>,
         Smooth(op, speed, from, ps), AsAsked([op |-> op, from |-> from, speed |-> speed, points |-> ps])
  PROVE  Sound'
<1>1. GoalsSound' /\ wire' \in Seq(Goals) /\ points' = <<>>
  BY SentSound
<1>2. NodeType'
  BY <1>1, ZeroPoint DEF NodeType, Return
<1>3. Working'
  BY <1>1 DEF Working, Return
<1> QED BY <1>1, <1>2, <1>3 DEF Sound

(* A goal of one near point.                                                  *)
LEMMA OnePoint ==
  ASSUME NEW op, NEW s, NEW from \in Vectors, NEW e \in Points, 0 < e.at,
         Allowed(op, Farthest(from, e.at_pos), s)
  PROVE  <<e>> \in Seq(Points) /\ Smooth(op, s, from, <<e>>) /\ <<e>> # <<>>
<1>1. DOMAIN <<e>> = {1} /\ <<e>>[1] = e
  OBVIOUS
<1> QED BY <1>1 DEF Smooth, Near, Before, Point

(* A goal without points is smooth.                                           *)
LEMMA NoPoints ==
  ASSUME NEW op, NEW s, NEW from
  PROVE  Smooth(op, s, from, <<>>) /\ <<>> \in Seq(Points)
BY DEF Smooth

(* Moving one joint by a step.                                                *)
LEMMA MovedBy ==
  ASSUME NEW v \in Vectors, NEW n \in Int, NEW j \in Joints, j = Joint(n), NEW d \in Nat
  PROVE  /\ Moved(v, n, d) \in Vectors /\ Farthest(v, Moved(v, n, d)) <= d
         /\ Moved(v, n, d) = [v EXCEPT ![j] = IF n < 0 THEN v[j] - d ELSE v[j] + d]
<1> DEFINE w == Moved(v, n, d)
<1>1. w = [v EXCEPT ![j] = IF n < 0 THEN v[j] - d ELSE v[j] + d]
  <2>1. v[j] \in Int
    BY DEF Vectors
  <2>2. v[j] + Sign(n) * d = IF n < 0 THEN v[j] - d ELSE v[j] + d
    BY <2>1 DEF Sign
  <2> QED BY <2>2 DEF Moved
<1> HIDE DEF w
<1>2. w \in Vectors
  BY <1>1 DEF Vectors
<1>3. \A k \in Joints : Dist(v[k], w[k]) <= d
  BY <1>1 DEF Vectors, Dist
<1>4. d \in Int /\ Farthest(v, w) <= d
  <2>1. d \in Int
    OBVIOUS
  <2> QED BY <2>1, <1>2, <1>3, FarthestWithin
<1>5. w = Moved(v, n, d)
  BY DEF w
<1> QED BY <1>1, <1>2, <1>4, <1>5

(* teleopJointCmdNoLimit_cb sends one point at most.                          *)
LEMMA NoLimitSound ==
  ASSUME Sound, NEW c \in Callers, Typed(inbox[c]), TeleopJointCmdNoLimit(c)
  PROVE  Sound'
<1> USE DEF Sound
<1>1. points = <<>> /\ inbox[c].arg \in Int
  BY DEF TeleopJointCmdNoLimit, Serving, Working, Typed
<1>2. Return(c) /\ UNCHANGED <<pos, goal, speed, scene>>
  BY DEF TeleopJointCmdNoLimit, arm, config, world
<1>3. CASE Joint(inbox[c].arg) \in Joints
  <2> DEFINE e == Point(1, Moved(pos, inbox[c].arg, JointStep))
  <2>1. e \in Points /\ 0 < e.at /\ Allowed("noLimit", Farthest(pos, e.at_pos), speed) /\ pos \in Vectors
    BY <1>1, <1>3, MovedBy, SpeedNat DEF NodeType, Point, Points, Allowed
  <2>2. Send(c, "noLimit", pos, Append(points, e))
    BY <1>3 DEF TeleopJointCmdNoLimit
  <2> HIDE DEF e
  <2>3. Append(points, e) = <<e>> /\ <<e>> \in Seq(Points) /\ Smooth("noLimit", speed, pos, <<e>>) /\ <<e>> # <<>>
    BY <1>1, <2>1, OnePoint
  <2>4. AsAsked([op |-> "noLimit", from |-> pos, speed |-> speed, points |-> <<e>>])
    BY <2>3 DEF AsAsked
  <2> QED BY <1>2, <2>1, <2>2, <2>3, <2>4, Sends DEF Motions
<1>4. CASE Joint(inbox[c].arg) \notin Joints
  BY <1>1, <1>2, <1>4, Ends DEF TeleopJointCmdNoLimit, out, NodeType
<1> QED BY <1>3, <1>4

(* teleopStop_cb sends no point.                                              *)
LEMMA StopSound ==
  ASSUME Sound, NEW c \in Callers, TeleopStop(c)
  PROVE  Sound'
<1>1. Return(c) /\ UNCHANGED <<pos, goal, speed, scene>> /\ Send(c, "stop", pos, <<>>) /\ pos \in Vectors
  BY DEF TeleopStop, arm, config, world, Sound, NodeType
<1>2. AsAsked([op |-> "stop", from |-> pos, speed |-> speed, points |-> <<>>])
  BY DEF AsAsked
<1> QED BY <1>1, <1>2, NoPoints, Sends DEF Sound, Motions

(* jointTeleop_cb begins, or finds the joint at its limit.                    *)
LEMMA JointSound ==
  ASSUME Sound, NEW c \in Callers, Typed(inbox[c]), JointTeleop(c)
  PROVE  Sound'
<1> USE DEF Sound
<1>1. points = <<>> /\ inbox[c].arg \in Int
  BY DEF JointTeleop, Serving, Working, Typed
<1>2. UNCHANGED <<pos, goal, speed, scene, points, wire>>
  BY DEF JointTeleop, arm, config, world, out
<1>3. CASE Return(c)
  BY <1>1, <1>2, <1>3, Ends DEF NodeType
<1>4. CASE ~Return(c)
  <2> PICK n : n = inbox[c].arg
    OBVIOUS
  <2> PICK j : j = Joint(n)
    OBVIOUS
  <2>1. /\ j \in Joints /\ (speed = 0 \/ Dist(Limit(n), pos[j]) > speed) /\ inbox' = inbox /\ cur' = c /\ pc' = "joint"
        /\ seed' = pos /\ tmp' = pos /\ tries' = tries
    BY <1>4 DEF JointTeleop, Enter
  <2>2. NodeType'
    BY <1>2, <2>1 DEF NodeType
  <2>3. JointWork'
    <3>1. pos[j] \in Int /\ pos \in Vectors /\ speed \in Nat /\ Lower \in Int /\ Upper \in Int
      BY <2>1, SpeedNat, JointNumbers DEF NodeType, Vectors
    <3>2. \/ IF n < 0 THEN Lower <= pos[j] ELSE pos[j] <= Upper
          \/ IF n < 0 THEN pos[j] + speed < Lower ELSE pos[j] > Upper + speed
      BY <2>1, <3>1, <1>1 DEF Limit, Dist
    <3>3. Only(pos, pos, j) /\ Dist(pos[j], pos[j]) = 0
      BY <3>1 DEF Only, Dist, Vectors
    <3>5. inbox'[cur'].arg = n /\ points' = <<>> /\ Smooth("joint", speed', seed', points')
      BY <1>1, <1>2, <2>1, NoPoints
    <3>7. End' = Point(Dist(tmp'[j], seed'[j]), tmp')
      BY <2>1, <3>3, <3>5 DEF End
    <3>8. speed > 0 => pos[j] # Limit(n)
      BY <2>1, <3>1 DEF Dist
    <3>9. Straight(n, j, points)'
      BY <3>5 DEF Straight
    <3>10. (JointRun(n, j) \/ Astray(n, j))'
      <4>1. CASE IF n < 0 THEN Lower <= pos[j] ELSE pos[j] <= Upper
        <5>1. IF n < 0 THEN Lower <= tmp'[j] /\ tmp'[j] <= seed'[j] ELSE tmp'[j] <= Upper /\ tmp'[j] >= seed'[j]
          BY <2>1, <3>1, <4>1
        <5>2. Only(seed, tmp, j)' /\ (speed' > 0 => tmp'[j] # Limit(n))
          BY <1>2, <2>1, <3>3, <3>8
        <5> QED BY <3>5, <3>7, <3>9, <5>1, <5>2 DEF JointRun
      <4>2. CASE IF n < 0 THEN pos[j] + speed < Lower ELSE pos[j] > Upper + speed
        BY <1>2, <2>1, <4>2 DEF Astray
      <4> QED BY <3>2, <4>1, <4>2
    <3>11. n \in Int /\ j \in Joints /\ j = Joint(n)
      BY <1>1, <2>1
    <3> QED BY <3>5, <3>10, <3>11 DEF JointWork, Joint
  <2> QED BY <1>2, <2>1, <2>2, <2>3, SameSound DEF Working
<1> QED BY <1>3, <1>4

(* The points after one was appended.                                         *)
LEMMA Grow ==
  ASSUME points \in Seq(Points), NEW e \in Points
  PROVE  LET q == Append(points, e) IN
         /\ q \in Seq(Points) /\ q # <<>> /\ Len(points) \in Nat
         /\ Len(q) = Len(points) + 1 /\ q[Len(q)] = e
         /\ \A i \in DOMAIN q : q[i] = e \/ (i \in DOMAIN points /\ q[i] = points[i])
<1> DEFINE q == Append(points, e)
<1>1. /\ q \in Seq(Points) /\ q # <<>> /\ Len(points) \in Nat /\ Len(q) = Len(points) + 1
      /\ DOMAIN q = 1 .. Len(points) + 1 /\ DOMAIN points = 1 .. Len(points)
      /\ q[Len(points) + 1] = e /\ \A k \in 1 .. Len(points) : q[k] = points[k]
  BY Appended
<1> HIDE DEF q
<1>2. \A i \in DOMAIN q : q[i] = e \/ (i \in DOMAIN points /\ q[i] = points[i])
  BY <1>1
<1> QED BY <1>1, <1>2 DEF q

(* Where the points end is a point.                                           *)
LEMMA EndPoint ==
  ASSUME NodeType
  PROVE  End \in Points
<1>1. CASE points = <<>>
  BY <1>1 DEF End, NodeType, Point, Points
<1>2. CASE points # <<>>
  BY <1>2 DEF End, NodeType
<1> QED BY <1>1, <1>2

(* A point that goes on towards the limit.                                    *)
LEMMA StraightOn ==
  ASSUME points \in Seq(Points), NEW e \in Points, NEW n, NEW j, Straight(n, j, points),
         Only(seed, e.at_pos, j), Between(End.at_pos[j], e.at_pos[j], Limit(n))
  PROVE  Straight(n, j, Append(points, e))
<1> DEFINE q == Append(points, e)
<1>1. /\ Len(points) \in Nat /\ DOMAIN q = 1 .. Len(points) + 1 /\ DOMAIN points = 1 .. Len(points)
      /\ q[Len(points) + 1] = e
  BY Appended
<1>2. /\ \A i \in DOMAIN points : q[i] = points[i] /\ Before(seed, q, i) = Before(seed, points, i)
      /\ Before(seed, q, Len(points) + 1) = End
  BY Preceded
<1> HIDE DEF q
<1>3. ASSUME NEW i \in DOMAIN q
      PROVE  Only(seed, q[i].at_pos, j) /\ Between(Before(seed, q, i).at_pos[j], q[i].at_pos[j], Limit(n))
  <2>1. CASE i \in DOMAIN points
    <3>1. q[i] = points[i] /\ Before(seed, q, i) = Before(seed, points, i)
      BY <2>1, <1>2
    <3> QED BY <3>1, <2>1 DEF Straight
  <2>2. CASE i = Len(points) + 1
    BY <2>2, <1>1, <1>2
  <2> QED BY <2>1, <2>2, <1>1
<1> QED BY <1>3 DEF Straight, q

(* jointTeleop_cb, one turn of its loop.                                      *)
LEMMA JointStepSound ==
  ASSUME Sound, JointTeleopStep
  PROVE  Sound'
<1> USE DEF Sound
<1> PICK n : n = inbox[cur].arg
  OBVIOUS
<1> PICK j : j = Joint(n)
  OBVIOUS
<1>1. n \in Int /\ j \in Joints /\ (JointRun(n, j) \/ Astray(n, j))
  BY DEF JointTeleopStep, Working, JointWork
<1>2. speed \in Nat /\ tmp \in Vectors /\ seed \in Vectors /\ points \in Seq(Points)
      /\ Lower \in Int /\ Upper \in Int /\ tmp[j] \in Int /\ seed[j] \in Int
  BY <1>1, SpeedNat, JointNumbers DEF NodeType, Vectors
<1>3. /\ Dist(Limit(n), tmp[j]) > speed /\ tmp' = Moved(tmp, n, speed) /\ pc = "joint" /\ pc' = pc
      /\ points' = Append(points, Point(Dist(tmp'[j], seed[j]), tmp'))
      /\ UNCHANGED <<inbox, cur, seed, tries, pos, goal, speed, scene, wire>>
  BY DEF JointTeleopStep, out, arm, config, world
<1>4. /\ tmp' \in Vectors /\ Farthest(tmp, tmp') <= speed
      /\ tmp' = [tmp EXCEPT ![j] = IF n < 0 THEN tmp[j] - speed ELSE tmp[j] + speed]
  <2> PICK m : m = Moved(tmp, n, speed)
    OBVIOUS
  <2>1. m \in Vectors /\ Farthest(tmp, m) <= speed /\ m = [tmp EXCEPT ![j] = IF n < 0 THEN tmp[j] - speed ELSE tmp[j] + speed]
    <3>1. tmp \in Vectors /\ n \in Int /\ j \in Joints /\ j = Joint(n) /\ speed \in Nat
      BY <1>1, <1>2
    <3> HIDE DEF Sound
    <3> QED BY <3>1, MovedBy
  <2>2. tmp' = m
    BY <1>3
  <2> QED BY <2>1, <2>2
<1>5. tmp'[j] = (IF n < 0 THEN tmp[j] - speed ELSE tmp[j] + speed) /\ tmp'[j] \in Int
  BY <1>4, <1>1, <1>2 DEF Vectors
<1> PICK d : d = Dist(tmp'[j], seed[j])
  OBVIOUS
<1> PICK e : e = Point(d, tmp')
  OBVIOUS
<1>6. d \in Int
  BY <1>2, <1>5 DEF Dist
<1>7. e \in Points /\ e.at = d /\ e.at_pos = tmp' /\ points' = Append(points, e)
  BY <1>3, <1>4, <1>6 DEF Point, Points
<1>8. End' = e /\ points' \in Seq(Points)
  BY <1>2, <1>7, Grow DEF End
<1>9. ASSUME JointRun(n, j) PROVE JointRun(n, j)'
  <2>1. IF n < 0 THEN Lower <= tmp[j] /\ tmp[j] <= seed[j] ELSE tmp[j] <= Upper /\ tmp[j] >= seed[j]
    BY <1>9 DEF JointRun
  <2>2. IF n < 0 THEN tmp[j] - Lower > speed ELSE Upper - tmp[j] > speed
    BY <2>1, <1>2, <1>3 DEF Limit, Dist
  <2>3. IF n < 0 THEN Lower < tmp'[j] /\ tmp'[j] <= tmp[j] ELSE tmp'[j] < Upper /\ tmp'[j] >= tmp[j]
    BY <2>2, <1>2, <1>5
  <2>4. IF n < 0 THEN Lower < tmp'[j] /\ tmp'[j] <= seed[j] ELSE tmp'[j] < Upper /\ tmp'[j] >= seed[j]
    BY <2>1, <2>3, <1>2, <1>5
  <2>5. Only(seed, tmp', j)
    BY <1>9, <1>1, <1>2, <1>4, <1>5 DEF JointRun, Only, Vectors
  <2>6. speed > 0 => Dist(tmp[j], seed[j]) < d
    <3>1. d = IF n < 0 THEN seed[j] - tmp'[j] ELSE tmp'[j] - seed[j]
      BY <1>2, <2>4, <1>5 DEF Dist
    <3>2. Dist(tmp[j], seed[j]) = IF n < 0 THEN seed[j] - tmp[j] ELSE tmp[j] - seed[j]
      BY <2>1, <1>2 DEF Dist
    <3>3. CASE n < 0
      BY <3>1, <3>2, <3>3, <1>2, <1>5
    <3>4. CASE ~(n < 0)
      BY <3>1, <3>2, <3>4, <1>2, <1>5
    <3> QED BY <3>3, <3>4
  <2>7. End = Point(Dist(tmp[j], seed[j]), tmp) /\ End.at = Dist(tmp[j], seed[j]) /\ End.at_pos = tmp
    BY <1>9 DEF JointRun, Point
  <2>8. Smooth("joint", speed, seed, points')
    <3>1. Near("joint", speed, End, e)
      BY <1>4, <1>7, <2>6, <2>7 DEF Near, Allowed
    <3> QED BY <3>1, <1>7, <1>9, SmoothOn DEF JointRun
  <2>9. Straight(n, j, points')
    <3>1. Between(tmp[j], tmp'[j], Limit(n))
      BY <2>3, <1>1, <1>2, <1>5 DEF Between, Limit
    <3>2. Between(End.at_pos[j], e.at_pos[j], Limit(n)) /\ Only(seed, e.at_pos, j)
      BY <2>5, <2>7, <3>1, <1>7
    <3>3. Straight(n, j, points)
      BY <1>9 DEF JointRun
    <3> QED BY <3>2, <3>3, <1>2, <1>7, StraightOn
  <2>10. Straight(n, j, points)'
    <3>1. seed' = seed
      BY <1>3
    <3> QED BY <2>9, <3>1 DEF Straight
  <2>11. (IF n < 0 THEN Lower <= tmp[j] /\ tmp[j] <= seed[j] ELSE tmp[j] <= Upper /\ tmp[j] >= seed[j])'
    BY <2>4, <1>2, <1>3, <1>5
  <2>12. (speed > 0 => tmp[j] # Limit(n))'
    BY <2>4, <1>1, <1>2, <1>5 DEF Limit
  <2>13. Only(seed, tmp, j)' /\ (Smooth("joint", speed, seed, points))'
    BY <1>3, <2>5, <2>8
  <2>14. (End = Point(Dist(tmp[j], seed[j]), tmp))'
    BY <1>3, <1>8
  <2> QED BY <2>10, <2>11, <2>12, <2>13, <2>14 DEF JointRun
<1>10. ASSUME Astray(n, j) PROVE Astray(n, j)'
  BY <1>1, <1>2, <1>3, <1>5, <1>10 DEF Astray
<1>11. JointWork'
  BY <1>1, <1>3, <1>9, <1>10 DEF JointWork, Joint
<1>12. NodeType'
  BY <1>3, <1>4, <1>8 DEF NodeType
<1>13. Working'
  BY <1>3, <1>11 DEF Working
<1> QED BY <1>12, <1>13, <1>3, SameSound

(* A joint teleoperation as it was asked for.                                 *)
LEMMA AskedJoint ==
  ASSUME NEW g, g.op = "joint", g.points # <<>>, NEW j \in Joints, NEW limit \in {Lower, Upper},
         Last(g.points).at_pos[j] = limit,
         \A i \in DOMAIN g.points : /\ Only(g.from, g.points[i].at_pos, j)
                                    /\ Between(Before(g.from, g.points, i).at_pos[j], g.points[i].at_pos[j], limit)
  PROVE  AsAsked(g)
<1>1. ASSUME NEW v \in {g.points[i].at_pos : i \in DOMAIN g.points}
      PROVE  v = [g.from EXCEPT ![j] = v[j]]
  <2> PICK i \in DOMAIN g.points : v = g.points[i].at_pos
    OBVIOUS
  <2>1. Only(g.from, v, j)
    OBVIOUS
  <2> QED BY <2>1 DEF Only
<1>2. \E k \in Joints, l \in {Lower, Upper} :
        /\ Last(g.points).at_pos[k] = l
        /\ \A v \in {g.points[i].at_pos : i \in DOMAIN g.points} : v = [g.from EXCEPT ![k] = v[k]]
        /\ \A i \in DOMAIN g.points :
             Between(Before(g.from, g.points, i).at_pos[k], g.points[i].at_pos[k], l)
  BY <1>1
<1>3. g.op # "stop" /\ g.op # "home"
  OBVIOUS
<1> QED BY <1>2, <1>3, Zenon DEF AsAsked

(* jointTeleop_cb ends at the limit.                                          *)
LEMMA JointSendSound ==
  ASSUME Sound, JointTeleopSend
  PROVE  Sound'
<1> USE DEF Sound
<1> PICK n : n = inbox[cur].arg
  OBVIOUS
<1> PICK j : j = Joint(n)
  OBVIOUS
<1> PICK lim : lim = Limit(n)
  OBVIOUS
<1> PICK w : w = [seed EXCEPT ![j] = lim]
  OBVIOUS
<1> PICK e : e = Point(Dist(lim, seed[j]), w)
  OBVIOUS
<1>1. n \in Int /\ j \in Joints /\ (JointRun(n, j) \/ Astray(n, j))
  BY DEF JointTeleopSend, Working, JointWork
<1>2. speed \in Nat /\ tmp \in Vectors /\ seed \in Vectors /\ points \in Seq(Points)
      /\ Lower \in Int /\ Upper \in Int /\ tmp[j] \in Int /\ seed[j] \in Int
  BY <1>1, SpeedNat, JointNumbers DEF NodeType, Vectors
<1>3. /\ Dist(lim, tmp[j]) <= speed /\ pc = "joint" /\ Return(cur)
      /\ Send(cur, "joint", seed, Append(points, e))
      /\ UNCHANGED <<pos, goal, speed, scene>>
  BY DEF JointTeleopSend, arm, config, world
<1>4. lim \in {Lower, Upper} /\ lim \in Int /\ w \in Vectors /\ w[j] = lim
  BY <1>1, <1>2 DEF Limit, Vectors
<1>0. JointRun(n, j)
  BY <1>1, <1>2, <1>3 DEF Astray, Limit, Dist
<1>5. Dist(lim, seed[j]) \in Int /\ (speed > 0 => Dist(tmp[j], seed[j]) < Dist(lim, seed[j]))
  <2>1. IF n < 0 THEN lim <= tmp[j] /\ tmp[j] <= seed[j] ELSE tmp[j] <= lim /\ tmp[j] >= seed[j]
    BY <1>0 DEF JointRun, Limit
  <2>2. speed > 0 => tmp[j] # lim
    BY <1>0 DEF JointRun
  <2> QED BY <2>1, <2>2, <1>1, <1>2, <1>4 DEF Dist
<1>6. e \in Points /\ e.at = Dist(lim, seed[j]) /\ e.at_pos = w
  BY <1>4, <1>5 DEF Point, Points
<1>7. Farthest(tmp, w) <= speed
  <2>1. \A k \in Joints : Dist(tmp[k], w[k]) <= speed
    <3> TAKE k \in Joints
    <3>1. CASE k = j
      BY <3>1, <1>2, <1>3, <1>4 DEF Dist
    <3>2. CASE k # j
      <4>1. tmp[k] = seed[k] /\ w[k] = seed[k] /\ seed[k] \in Int
        BY <3>2, <1>0, <1>2 DEF JointRun, Only, Vectors
      <4> QED BY <4>1, <1>2 DEF Dist
    <3> QED BY <3>1, <3>2
  <2>2. speed \in Int
    BY <1>2
  <2> QED BY <2>1, <2>2, <1>2, <1>4, FarthestWithin
<1>8. End.at = Dist(tmp[j], seed[j]) /\ End.at_pos = tmp /\ Smooth("joint", speed, seed, points) /\ Straight(n, j, points)
  BY <1>0 DEF JointRun, Point
<1> PICK ps : ps = Append(points, e)
  OBVIOUS
<1>9. Near("joint", speed, End, e)
  BY <1>5, <1>6, <1>7, <1>8 DEF Near, Allowed
<1>10. Smooth("joint", speed, seed, ps)
  BY <1>6, <1>8, <1>9, SmoothOn
<1>11. ps \in Seq(Points) /\ ps # <<>> /\ ps[Len(ps)] = e
  BY <1>2, <1>6, Grow
<1>12. Only(seed, w, j)
  BY <1>1, <1>2, <1>4 DEF Only
<1>13. Straight(n, j, ps)
  <2>1. Between(tmp[j], lim, lim)
    <3>1. IF n < 0 THEN lim <= tmp[j] ELSE tmp[j] <= lim
      BY <1>0 DEF JointRun, Limit
    <3> QED BY <3>1, <1>4 DEF Between
  <2>2. Between(End.at_pos[j], e.at_pos[j], Limit(n)) /\ Only(seed, e.at_pos, j)
    BY <2>1, <1>4, <1>6, <1>8, <1>12
  <2> QED BY <2>2, <1>2, <1>6, <1>8, StraightOn
<1> PICK g : g = [op |-> "joint", from |-> seed, speed |-> speed, points |-> ps]
  OBVIOUS
<1>14. AsAsked(g)
  <2>1. g.op = "joint" /\ g.points = ps /\ g.from = seed
    OBVIOUS
  <2>2. g.points # <<>>
    BY <2>1, <1>11
  <2>3. Last(ps).at_pos[j] = lim
    <3>1. Last(ps) = e
      BY <1>11 DEF Last
    <3> QED BY ONLY <3>1, <1>4, <1>6
  <2>4. \A i \in DOMAIN ps : /\ Only(seed, ps[i].at_pos, j)
                             /\ Between(Before(seed, ps, i).at_pos[j], ps[i].at_pos[j], lim)
    <3>1. lim = Limit(n)
      OBVIOUS
    <3> QED BY ONLY <1>13, <3>1, Zenon DEF Straight
  <2>5. \A i \in DOMAIN g.points : /\ Only(g.from, g.points[i].at_pos, j)
                                   /\ Between(Before(g.from, g.points, i).at_pos[j], g.points[i].at_pos[j], lim)
    BY ONLY <2>1, <2>4, Zenon
  <2>6. Last(g.points).at_pos[j] = lim
    BY <2>1, <2>3
  <2> HIDE DEF Sound
  <2> QED BY ONLY <2>1, <2>2, <2>5, <2>6, <1>1, <1>4, AskedJoint
<1>15. Send(cur, "joint", seed, ps)
  BY <1>3
<1> QED BY <1>2, <1>3, <1>10, <1>11, <1>14, <1>15, Sends DEF Motions

(* cartTeleop_cb begins.                                                      *)
LEMMA CartSound ==
  ASSUME Sound, NEW c \in Callers, Typed(inbox[c]), CartTeleop(c)
  PROVE  Sound'
<1> USE DEF Sound
<1>1. points = <<>> /\ inbox[c].arg \in Int
  BY DEF CartTeleop, Serving, Working, Typed
<1>2. UNCHANGED <<pos, goal, speed, scene, points, wire>>
  BY DEF CartTeleop, arm, config, world, out
<1>3. CASE Return(c)
  BY <1>1, <1>2, <1>3, Ends DEF NodeType
<1>4. CASE ~Return(c)
  <2>1. /\ Joint(inbox[c].arg) \in Joints /\ inbox' = inbox /\ cur' = c /\ pc' = "cartRoot"
        /\ seed' = seed /\ tmp' = pos /\ tries' = 0
    BY <1>4 DEF CartTeleop, Enter
  <2>2. NodeType'
    BY <1>2, <2>1 DEF NodeType
  <2>3. inbox'[cur'].arg \in Int /\ Joint(inbox'[cur'].arg) \in Joints /\ points' = <<>>
    BY <1>1, <1>2, <2>1
  <2>4. Working'
    BY <2>1, <2>3 DEF Working, Joint
  <2> QED BY <1>2, <2>2, <2>4, SameSound
<1> QED BY <1>3, <1>4

(* A transform is found.                                                      *)
LEMMA FoundSound ==
  ASSUME Sound, LookupFound
  PROVE  Sound'
<1> USE DEF Sound
<1>1. /\ pc \in DOMAIN LookupNext /\ pc' = LookupNext[pc] /\ tries' = 0
      /\ UNCHANGED <<inbox, cur, seed, tmp, points, wire, pos, goal, speed, scene>>
  BY DEF LookupFound, Looking, out, arm, config, world
<1>2. NodeType'
  BY <1>1 DEF NodeType
<1>3. \/ pc = "cartRoot" /\ pc' = "cartTip"
      \/ pc = "cartTip" /\ pc' = "cartBegin"
      \/ pc = "moveRoot" /\ pc' = "moveTip"
      \/ pc = "moveTip" /\ pc' = "move"
  BY <1>1 DEF LookupNext
<1>4. points' = <<>>
  BY <1>1, <1>3 DEF Working
<1>5. CASE pc \in {"cartRoot", "cartTip"}
  <2>1. inbox'[cur'].arg \in Int /\ Joint(inbox'[cur'].arg) \in Joints
    BY <1>1, <1>5 DEF Working
  <2>2. Working'
    BY <1>3, <1>4, <2>1 DEF Working, Joint
  <2> QED BY <1>1, <1>2, <2>2, SameSound
<1>6. CASE pc \in {"moveRoot", "moveTip"}
  <2>1. Working'
    BY <1>3, <1>4, <1>6 DEF Working
  <2> QED BY <1>1, <1>2, <2>1, SameSound
<1> QED BY <1>3, <1>5, <1>6

(* A transform is not found.                                                  *)
LEMMA MissingSound ==
  ASSUME Sound, LookupMissing
  PROVE  Sound'
<1> USE DEF Sound
<1>1. /\ pc \in DOMAIN LookupNext
      /\ UNCHANGED <<points, wire, pos, goal, speed, scene>>
  BY DEF LookupMissing, Looking, out, arm, config, world
<1>2. points = <<>>
  BY <1>1 DEF Working, LookupNext
<1>3. CASE tries >= MaxTries
  <2>1. Return(cur)
    BY <1>3 DEF LookupMissing
  <2> QED BY <1>1, <1>2, <2>1, Ends DEF NodeType
<1>4. CASE ~(tries >= MaxTries)
  <2>1. tries' = tries + 1 /\ UNCHANGED <<inbox, pc, cur, seed, tmp>>
    BY <1>4 DEF LookupMissing
  <2>2. NodeType'
    BY <1>1, <2>1 DEF NodeType
  <2>3. pc \notin {"joint", "cartStep", "home"}
    BY <1>1 DEF LookupNext
  <2>4. pc \in {"cartRoot", "cartTip", "cartBegin"} => inbox'[cur'].arg \in Int /\ Joint(inbox'[cur'].arg) \in Joints
    BY <2>1 DEF Working
  <2>5. Working'
    BY <1>1, <1>2, <2>1, <2>3, <2>4 DEF Working, Joint
  <2> QED BY <1>1, <2>2, <2>5, SameSound
<1> QED BY <1>3, <1>4

(* cartTeleop_cb reads the joints.                                            *)
LEMMA BeginSound ==
  ASSUME Sound, CartBegin
  PROVE  Sound'
<1> USE DEF Sound
<1>1. /\ pc = "cartBegin" /\ pc' = "cartStep" /\ seed' = pos
      /\ UNCHANGED <<inbox, cur, tmp, points, tries, wire, pos, goal, speed, scene>>
  BY DEF CartBegin, out, arm, config, world
<1>2. NodeType'
  BY <1>1 DEF NodeType
<1>3. points' = <<>> /\ Smooth("cart", speed', seed', points')
  BY <1>1, NoPoints DEF Working
<1>4. inbox'[cur'].arg \in Int /\ Joint(inbox'[cur'].arg) \in Joints
  BY <1>1 DEF Working
<1>5. CartWork'
  BY <1>3, <1>4 DEF CartWork, Joint
<1>6. Working'
  BY <1>1, <1>5 DEF Working
<1> QED BY <1>1, <1>2, <1>6, SameSound

(* cartTeleop_cb, one turn of its loop.                                       *)
LEMMA CartStepSound ==
  ASSUME Sound, CartStep
  PROVE  Sound'
<1> USE DEF Sound
<1> PICK n : n = inbox[cur].arg
  OBVIOUS
<1> PICK j : j = Joint(n)
  OBVIOUS
<1>1. /\ pc = "cartStep" /\ tmp' = Moved(tmp, n, 1) /\ Len(points) = tries /\ tries' = tries + 1
      /\ UNCHANGED <<inbox, pc, cur, seed, wire, pos, goal, speed, scene>>
  BY DEF CartStep, out, arm, config, world
<1>2. CartWork /\ n \in Int /\ j \in Joints /\ tmp \in Vectors /\ seed \in Vectors /\ points \in Seq(Points) /\ tries \in Nat
  BY <1>1 DEF Working, CartWork, NodeType
<1>3. tmp' \in Vectors
  <2>1. 1 \in Nat
    OBVIOUS
  <2> QED BY <1>1, <1>2, <2>1, MovedBy
<1> PICK q \in Solutions(tmp') :
       /\ Farthest(IF tries = 0 THEN seed ELSE Last(points).at_pos, q) * speed <= Reach
       /\ points' = Append(points, Point(tries + 1, q))
  BY DEF CartStep
<1>4. q \in Vectors
  <2>1. q \in {tmp', [k \in Joints |-> -tmp'[k]]}
    BY Zenon DEF Solutions
  <2> QED BY <2>1, <1>3 DEF Vectors
<1> PICK e : e = Point(tries + 1, q)
  OBVIOUS
<1>5. e \in Points /\ e.at = tries + 1 /\ e.at_pos = q
  BY <1>2, <1>4 DEF Point, Points
<1>6. End.at = tries /\ End.at_pos = IF tries = 0 THEN seed ELSE Last(points).at_pos
  <2>1. CASE points = <<>>
    BY <2>1, <1>1 DEF End, Point
  <2>2. CASE points # <<>>
    BY <2>2, <1>1, <1>2 DEF End, CartWork, Last
  <2> QED BY <2>1, <2>2
<1>7. Near("cart", speed, End, e)
  BY <1>2, <1>5, <1>6 DEF Near, Allowed
<1>8. Smooth("cart", speed, seed, points')
  BY <1>2, <1>5, <1>7, SmoothOn DEF CartWork
<1>9. points' \in Seq(Points) /\ Len(points') = tries + 1 /\ End' = e
  BY <1>1, <1>2, <1>5, Grow DEF End
<1>10. CartWork'
  <2>1. inbox'[cur'].arg = n /\ inbox'[cur'].arg \in Int /\ Joint(inbox'[cur'].arg) \in Joints
    BY <1>1, <1>2
  <2> QED BY <2>1, <1>1, <1>5, <1>8, <1>9 DEF CartWork, Joint
<1>11. NodeType'
  BY <1>1, <1>2, <1>3, <1>9 DEF NodeType
<1>12. Working'
  BY <1>1, <1>10 DEF Working
<1> QED BY <1>1, <1>11, <1>12, SameSound

(* What is asked of the other motions.                                        *)
LEMMA AskedOther ==
  ASSUME NEW g, g.op \notin {"joint", "home", "stop"}, g.points # <<>>
  PROVE  AsAsked(g)
BY DEF AsAsked

(* cartTeleop_cb ends.                                                        *)
LEMMA CartEndSound ==
  ASSUME Sound, CartEnd
  PROVE  Sound'
<1> USE DEF Sound
<1>1. pc = "cartStep" /\ Return(cur) /\ UNCHANGED <<pos, goal, speed, scene>>
  BY DEF CartEnd, arm, config, world
<1>2. CASE points = <<>>
  BY <1>1, <1>2, Ends DEF CartEnd, out, NodeType
<1>3. CASE points # <<>>
  <2>1. Send(cur, "cart", seed, points)
    BY <1>3 DEF CartEnd
  <2>2. Smooth("cart", speed, seed, points) /\ seed \in Vectors /\ points \in Seq(Points)
    BY <1>1, SpeedNat DEF Working, CartWork, NodeType
  <2>3. AsAsked([op |-> "cart", from |-> seed, speed |-> speed, points |-> points])
    BY <1>3, AskedOther
  <2> QED BY <1>1, <2>1, <2>2, <2>3, Sends DEF Motions
<1> QED BY <1>2, <1>3

(* A joint scaled towards zero.                                              *)
LEMMA TowardIs ==
  ASSUME NodeType, Biggest \in Nat \ {0}
  PROVE  /\ Toward(Biggest) = seed /\ Toward(0) = Zero
         /\ \A r \in Nat : Toward(r) \in Vectors
         /\ \A r \in Nat : \A s \in 0 .. r : Farthest(Toward(r), Toward(r - s)) <= s
<1> PICK B : B = Biggest
  OBVIOUS
<1>1. B \in Nat \ {0} /\ seed \in Vectors /\ Zero \in Vectors
  BY ZeroPoint DEF NodeType
<1>2. \A k \in Joints : seed[k] \in Int /\ Joint(seed[k]) \in 0 .. B
  <2> TAKE k \in Joints
  <2>1. seed[k] \in Int /\ Dist(seed[k], 0) <= B
    <3>1. Dist(seed[k], Zero[k]) <= B
      BY <1>1, FarthestIs DEF Biggest
    <3> QED BY <1>1, <3>1 DEF Vectors, Zero
  <2> QED BY <2>1, <1>1 DEF Joint, Dist
<1>3. \A r : Toward(r) = [k \in Joints |-> Sign(seed[k]) * ((Joint(seed[k]) * r) \div B)]
  BY DEF Toward
<1>4. \A r \in Nat : Toward(r) \in Vectors
  <2> TAKE r \in Nat
  <2>1. \A k \in Joints : Sign(seed[k]) * ((Joint(seed[k]) * r) \div B) \in Int
    <3> TAKE k \in Joints
    <3> PICK a \in 0 .. B : a = Joint(seed[k])
      BY <1>2
    <3>1. a * r \in Nat
      BY <1>1
    <3>2. (a * r) \div B \in Nat
      BY <1>1, <3>1, DivBounds
    <3>3. Sign(seed[k]) \in {-1, 1}
      BY DEF Sign
    <3> QED BY <3>2, <3>3
  <2> QED BY <2>1, <1>3 DEF Vectors
<1>5. Toward(B) = seed
  <2>1. \A k \in Joints : Sign(seed[k]) * ((Joint(seed[k]) * B) \div B) = seed[k]
    <3> TAKE k \in Joints
    <3>1. Joint(seed[k]) \in Nat /\ seed[k] \in Int
      BY <1>1, <1>2
    <3>2. (Joint(seed[k]) * B) \div B = Joint(seed[k])
      BY <1>1, <3>1, ScaledWhole
    <3> QED BY <3>1, <3>2 DEF Joint, Sign
  <2>2. seed = [k \in Joints |-> seed[k]]
    BY <1>1 DEF Vectors
  <2> QED BY <2>1, <2>2, <1>3
<1>6. Toward(0) = Zero
  <2>1. \A k \in Joints : Sign(seed[k]) * ((Joint(seed[k]) * 0) \div B) = 0
    <3> TAKE k \in Joints
    <3> PICK a \in 0 .. B : a = Joint(seed[k])
      BY <1>2
    <3>1. a * 0 = 0
      BY <1>1
    <3>2. 0 \div B = 0
      BY <1>1
    <3>3. Sign(seed[k]) \in {-1, 1}
      BY DEF Sign
    <3> QED BY <3>1, <3>2, <3>3
  <2> QED BY <2>1, <1>3 DEF Zero
<1>7. ASSUME NEW r \in Nat, NEW s \in 0 .. r
      PROVE  Farthest(Toward(r), Toward(r - s)) <= s
  <2> PICK v : v = Toward(r)
    OBVIOUS
  <2> PICK w : w = Toward(r - s)
    OBVIOUS
  <2>1. v \in Vectors /\ w \in Vectors /\ s \in Int
    BY <1>4
  <2>2. \A k \in Joints : Dist(v[k], w[k]) <= s
    <3> TAKE k \in Joints
    <3> PICK a \in 0 .. B : a = Joint(seed[k])
      BY <1>2
    <3> PICK q : q = (a * r) \div B
      OBVIOUS
    <3> PICK p : p = (a * (r - s)) \div B
      OBVIOUS
    <3>1. q \in Nat /\ p \in Nat /\ p <= q /\ q <= p + s
      BY <1>1, ScaledStep
    <3>2. v[k] = Sign(seed[k]) * q /\ w[k] = Sign(seed[k]) * p
      BY <1>3
    <3>3. \/ v[k] = q /\ w[k] = p
          \/ v[k] = -q /\ w[k] = -p
      BY <3>1, <3>2 DEF Sign
    <3> QED BY <3>1, <3>3 DEF Dist
  <2> QED BY <2>1, <2>2, FarthestWithin
<1> QED BY <1>4, <1>5, <1>6, <1>7

(* A homing as it was asked for.                                              *)
LEMMA AskedHome ==
  ASSUME NEW g, g.op = "home", g.points # <<>>, \A i \in DOMAIN g.points : g.points[i].at_pos \notin scene
  PROVE  AsAsked(g)
BY DEF AsAsked

(* homeTeleop_cb begins, or is home already.                                  *)
LEMMA HomeBegins ==
  ASSUME Sound, NEW c \in Callers, HomeTeleop(c)
  PROVE  Sound'
<1> USE DEF Sound
<1>1. points = <<>>
  BY DEF HomeTeleop, Serving, Working
<1>2. UNCHANGED <<pos, goal, speed, scene, points, wire>>
  BY DEF HomeTeleop, arm, config, world, out
<1>3. CASE pos = Zero
  <2>1. Return(c)
    BY <1>3 DEF HomeTeleop
  <2> QED BY <1>1, <1>2, <2>1, Ends DEF NodeType
<1>4. CASE pos # Zero
  <2>1. pc' = "home" /\ seed' = pos /\ tries' = Farthest(pos, Zero) /\ tmp' = tmp
    BY <1>4 DEF HomeTeleop, Enter
  <2>2. Farthest(pos, Zero) \in Nat /\ pos \in Vectors /\ Zero \in Vectors
    BY ZeroPoint, FarthestIs DEF NodeType
  <2>3. Farthest(pos, Zero) # 0
    <3> SUFFICES ASSUME Farthest(pos, Zero) = 0 PROVE FALSE
      OBVIOUS
    <3>1. \A k \in Joints : pos[k] \in Int /\ Dist(pos[k], Zero[k]) <= 0 /\ Zero[k] = 0
      BY <2>2, FarthestIs DEF Vectors, Zero
    <3>2. \A k \in Joints : pos[k] = Zero[k]
      BY <3>1 DEF Dist
    <3> QED BY <1>4, <2>2, <3>2 DEF Vectors
  <2>4. NodeType'
    BY <1>2, <2>1, <2>2 DEF NodeType
  <2>5. Biggest' = Farthest(pos, Zero)
    BY <2>1 DEF Biggest
  <2>6. Toward(Biggest)' = seed'
    <3>1. (Biggest \in Nat \ {0})'
      BY <2>2, <2>3, <2>5
    <3>2. (Toward(Biggest) = seed)'
      BY <3>1, <2>4, TowardIs, PTL
    <3> QED BY <3>2
  <2>7. HomeWork'
    <3>1. (Biggest \in Nat \ {0} /\ tries \in 1 .. Biggest)'
      BY <2>1, <2>2, <2>3, <2>5
    <3>2. points' = <<>> /\ Smooth("home", speed', seed', points') /\ tries' = Biggest'
      BY <1>1, <1>2, <2>1, <2>5, NoPoints
    <3>3. End' = Point(0, seed')
      BY <3>2 DEF End
    <3>4. Toward(tries)' = seed'
      BY <2>6, <3>2 DEF Toward
    <3>5. (End = Point(Biggest - tries, Toward(tries)))'
      <4>1. Biggest' - tries' = 0
        BY <2>2, <2>5, <3>2
      <4> QED BY <3>3, <3>4, <4>1
    <3> QED BY <3>1, <3>2, <3>5 DEF HomeWork
  <2> QED BY <1>2, <2>1, <2>4, <2>7, SameSound DEF Working
<1> QED BY <1>3, <1>4

(* homeTeleop_cb, one turn of its loop: on, or out of it before a             *)
(* collision.                                                                 *)
LEMMA HomeStepSound ==
  ASSUME Sound, HomeStep
  PROVE  Sound'
<1> USE DEF Sound
<1> PICK B : B = Biggest
  OBVIOUS
<1>1. pc = "home" /\ tries > speed /\ HomeWork /\ UNCHANGED <<pos, goal, speed, scene>>
  BY DEF HomeStep, arm, config, world, Working
<1>2. B \in Nat \ {0} /\ tries \in 1 .. B /\ speed \in Nat /\ points \in Seq(Points) /\ seed \in Vectors
  BY <1>1, SpeedNat DEF HomeWork, NodeType
<1>3. CASE Toward(tries - speed) \notin scene
  <2> PICK t : t = tries - speed
    OBVIOUS
  <2> PICK v : v = Toward(t)
    OBVIOUS
  <2> PICK e : e = Point(B - t, v)
    OBVIOUS
  <2>1. t \in 1 .. B /\ speed \in 0 .. tries /\ tries \in Nat
    BY <1>1, <1>2
  <2>2. /\ tries' = t /\ points' = Append(points, Point(Biggest - tries', Toward(tries')))
        /\ UNCHANGED <<inbox, pc, cur, seed, tmp, wire>>
    BY <1>3 DEF HomeStep, out
  <2>3. points' = Append(points, e)
    BY <2>2
  <2>4. Biggest' = B /\ \A r : Toward(r)' = Toward(r)
    BY <2>2 DEF Biggest, Toward
  <2>5. v \in Vectors /\ Farthest(Toward(tries), v) <= speed /\ Toward(B) = seed
    <3>1. Biggest \in Nat \ {0} /\ t \in Nat
      BY <1>2, <2>1
    <3> QED BY <3>1, <2>1, TowardIs
  <2>6. e \in Points /\ e.at = B - t /\ e.at_pos = v
    BY <1>2, <2>1, <2>5 DEF Point, Points
  <2>7. points' \in Seq(Points) /\ points' # <<>> /\ End' = e
    BY <1>2, <2>3, <2>6, Grow DEF End
  <2>8. \A i \in DOMAIN points' : points'[i].at_pos \notin scene
    <3>1. \A i \in DOMAIN points' : points'[i] = e \/ (i \in DOMAIN points /\ points'[i] = points[i])
      BY <1>2, <2>3, <2>6, Grow
    <3>2. v \notin scene
      BY <1>3
    <3> QED BY <1>1, <2>6, <3>1, <3>2 DEF HomeWork
  <2>9. End.at = B - tries /\ End.at_pos = Toward(tries)
    BY <1>1 DEF HomeWork, Point
  <2>10. ASSUME speed > 0 PROVE Smooth("home", speed, seed, points') /\ tries' # B
    <3>1. Near("home", speed, End, e)
      BY <1>2, <2>1, <2>5, <2>6, <2>9, <2>10 DEF Near, Allowed
    <3>2. Smooth("home", speed, seed, points)
      BY <1>1, <2>10 DEF HomeWork
    <3> QED BY <1>2, <2>1, <2>2, <2>3, <2>6, <2>10, <3>1, <3>2, SmoothOn
  <2>11. ASSUME speed = 0 PROVE tries' = B /\ Toward(B) \notin scene
    <3>1. tries = B
      BY <1>1, <2>11 DEF HomeWork
    <3>2. t = B
      BY <3>1, <2>11, <1>2
    <3> QED BY <2>2, <3>2, <1>3
  <2>12. HomeWork'
    <3>1. (Biggest \in Nat \ {0} /\ tries \in 1 .. Biggest)'
      BY <1>2, <2>1, <2>2, <2>4
    <3>2. (End = Point(Biggest - tries, Toward(tries)))'
      <4>1. Toward(tries)' = v
        BY <2>2 DEF Toward, Biggest
      <4> QED BY <2>2, <2>4, <2>7, <4>1
    <3>3. (\A i \in DOMAIN points : points[i].at_pos \notin scene)'
      BY <1>1, <2>8
    <3>4. (speed > 0 => Smooth("home", speed, seed, points) /\ (points = <<>> <=> tries = Biggest))'
      BY <1>1, <2>2, <2>4, <2>7, <2>10
    <3>5. (speed = 0 => tries = Biggest /\ (points # <<>> => Toward(Biggest) \notin scene))'
      <4>1. Toward(Biggest)' = Toward(Biggest)
        BY <2>2 DEF Toward, Biggest
      <4> QED BY <1>1, <2>4, <2>11, <4>1
    <3> QED BY <3>1, <3>2, <3>3, <3>4, <3>5 DEF HomeWork
  <2>13. NodeType'
    BY <1>1, <2>1, <2>2, <2>7 DEF NodeType
  <2>14. Working'
    BY <1>1, <2>2, <2>12 DEF Working
  <2> QED BY <1>1, <2>2, <2>13, <2>14, SameSound
<1>4. CASE Toward(tries - speed) \in scene
  <2>1. Return(cur)
    BY <1>4 DEF HomeStep
  <2>2. CASE tries = B
    <3>1. UNCHANGED <<wire, points>>
      BY <1>4, <2>2 DEF HomeStep, out
    <3>2. points = <<>>
      <4>1. CASE speed > 0
        BY <4>1, <1>1, <2>2 DEF HomeWork
      <4>2. CASE speed = 0
        <5>1. Toward(B) \in scene
          BY <1>4, <2>2, <4>2, <1>2
        <5> QED BY <5>1, <4>2, <1>1 DEF HomeWork
      <4> QED BY <4>1, <4>2, <1>2
    <3> QED BY <1>1, <2>1, <3>1, <3>2, Ends DEF NodeType
  <2>3. CASE tries # B
    <3>1. Send(cur, "home", seed, points)
      BY <1>4, <2>3 DEF HomeStep
    <3>2. speed > 0
      BY <1>1, <1>2, <2>3 DEF HomeWork
    <3>3. Smooth("home", speed, seed, points) /\ points # <<>> /\ \A i \in DOMAIN points : points[i].at_pos \notin scene
      BY <3>2, <1>1, <2>3 DEF HomeWork
    <3>4. AsAsked([op |-> "home", from |-> seed, speed |-> speed, points |-> points])
      BY <3>3, AskedHome
    <3> QED BY <1>1, <1>2, <2>1, <3>1, <3>3, <3>4, Sends DEF Motions
  <2> QED BY <2>2, <2>3
<1> QED BY <1>3, <1>4

(* homeTeleop_cb ends at home, or before it.                                  *)
LEMMA HomeEndSound ==
  ASSUME Sound, HomeEnd
  PROVE  Sound'
<1> USE DEF Sound
<1> PICK B : B = Biggest
  OBVIOUS
<1>1. /\ pc = "home" /\ tries <= speed /\ HomeWork /\ Return(cur) /\ UNCHANGED <<pos, goal, speed, scene>>
  BY DEF HomeEnd, arm, config, world, Working
<1>2. /\ B \in Nat \ {0} /\ tries \in 1 .. B /\ speed \in Nat /\ speed > 0
      /\ points \in Seq(Points) /\ seed \in Vectors /\ Zero \in Vectors
  BY <1>1, SpeedNat, ZeroPoint DEF HomeWork, NodeType
<1>3. Smooth("home", speed, seed, points) /\ (points = <<>> <=> tries = B) /\ \A i \in DOMAIN points : points[i].at_pos \notin scene
  BY <1>1, <1>2 DEF HomeWork
<1>4. CASE Zero \in scene /\ tries = B
  <2>1. UNCHANGED <<wire, points>>
    BY <1>4 DEF HomeEnd, out
  <2> QED BY <1>1, <1>3, <1>4, <2>1, Ends DEF NodeType
<1>5. CASE Zero \in scene /\ tries # B
  <2>1. Send(cur, "home", seed, points)
    BY <1>5 DEF HomeEnd
  <2>2. AsAsked([op |-> "home", from |-> seed, speed |-> speed, points |-> points])
    BY <1>3, <1>5, AskedHome
  <2> QED BY <1>1, <1>2, <1>3, <2>1, <2>2, Sends DEF Motions
<1>6. CASE Zero \notin scene
  <2> PICK e : e = Point(B, Zero)
    OBVIOUS
  <2> PICK ps : ps = Append(points, e)
    OBVIOUS
  <2>1. Send(cur, "home", seed, ps)
    BY <1>6 DEF HomeEnd
  <2>2. e \in Points /\ e.at = B /\ e.at_pos = Zero
    BY <1>2 DEF Point, Points
  <2>3. End.at = B - tries /\ End.at_pos = Toward(tries)
    BY <1>1 DEF HomeWork, Point
  <2>4. Farthest(Toward(tries), Zero) <= tries
    <3>1. Biggest \in Nat \ {0} /\ tries \in Nat /\ tries \in 0 .. tries /\ tries - tries = 0
      BY <1>2
    <3>2. Farthest(Toward(tries), Toward(tries - tries)) <= tries /\ Toward(0) = Zero
      BY <3>1, TowardIs
    <3> QED BY <3>1, <3>2
  <2>5. Farthest(Toward(tries), Zero) \in Nat
    <3>1. Toward(tries) \in Vectors
      BY <1>2, TowardIs
    <3> QED BY <3>1, <1>2, FarthestIs
  <2>6. Near("home", speed, End, e)
    <3>1. End.at < e.at /\ Farthest(End.at_pos, e.at_pos) <= speed
      BY <1>1, <1>2, <2>2, <2>3, <2>4, <2>5
    <3> QED BY <3>1 DEF Near, Allowed
  <2>7. Smooth("home", speed, seed, ps)
    BY <1>3, <2>2, <2>6, SmoothOn
  <2>8. ps \in Seq(Points) /\ ps # <<>> /\ \A i \in DOMAIN ps : ps[i].at_pos \notin scene
    <3>1. ps \in Seq(Points) /\ ps # <<>> /\ \A i \in DOMAIN ps : ps[i] = e \/ (i \in DOMAIN points /\ ps[i] = points[i])
      BY <1>2, <2>2, Grow
    <3> QED BY <3>1, <1>3, <1>6, <2>2
  <2>9. AsAsked([op |-> "home", from |-> seed, speed |-> speed, points |-> ps])
    BY <2>8, AskedHome
  <2> QED BY <1>1, <1>2, <2>1, <2>7, <2>8, <2>9, Sends DEF Motions
<1> QED BY <1>4, <1>5, <1>6

(* A callback that is blocked for good, or looks transforms up.               *)
LEMMA GoesOn ==
  ASSUME NodeType, GoalsSound, points = <<>>, pc' \in {"blocked", "moveRoot"}, tries' \in Nat,
         UNCHANGED <<pos, seed, tmp, points, goal, wire, speed, scene>>
  PROVE  Sound'
<1>1. NodeType'
  BY DEF NodeType
<1>2. Working'
  BY DEF Working
<1> QED BY <1>1, <1>2, SameSound DEF Sound

(* Every callback that begins.                                                *)
LEMMA ServeSound ==
  ASSUME Sound, NEW c \in Callers, inbox[c] # None => Typed(inbox[c]), Serve(c)
  PROVE  Sound'
<1>1. pc = "spin" /\ inbox[c] # None /\ NodeType /\ GoalsSound /\ points = <<>> /\ speed \in Speeds /\ tries \in Nat
  <2>1. pc = "spin" /\ inbox[c] # None
    BY DEF Serve, SetVelocity, SetLink, EnableRobot, DisableRobot, TeleopJointCmdNoLimit, JointTeleop,
         CartTeleop, HomeTeleop, TeleopStop, JointGoal, CartGoal, GetLink, Serving
  <2> QED BY <2>1 DEF Sound, Working, NodeType
<1>2. CASE SetVelocity(c)
  <2>1. speed' \in Speeds
    BY <1>1, <1>2 DEF SetVelocity, Serving, Typed
  <2> QED BY <1>1, <1>2, <2>1, Ends DEF SetVelocity, out, arm, world
<1>3. CASE SetLink(c)
  BY <1>1, <1>3, Ends DEF SetLink, out, arm, world
<1>4. CASE EnableRobot(c)
  <2>1. UNCHANGED <<pos, points, goal, wire, speed, scene>>
    BY <1>4 DEF EnableRobot, arm, config, world
  <2>2. CASE Return(c)
    BY <1>1, <2>1, <2>2, Ends
  <2>3. CASE ~Return(c)
    BY <1>1, <1>4, <2>1, <2>3, GoesOn DEF EnableRobot, Enter
  <2> QED BY <2>2, <2>3
<1>5. CASE DisableRobot(c)
  <2>1. UNCHANGED <<pos, points, goal, wire, speed, scene>>
    BY <1>5 DEF DisableRobot, arm, config, world
  <2>2. CASE Return(c)
    BY <1>1, <2>1, <2>2, Ends
  <2>3. CASE ~Return(c)
    BY <1>1, <1>5, <2>1, <2>3, GoesOn DEF DisableRobot, Enter
  <2> QED BY <2>2, <2>3
<1>6. CASE JointGoal(c)
  BY <1>1, <1>6, Ends DEF JointGoal, out, config, world
<1>7. CASE CartGoal(c)
  BY <1>1, <1>7, GoesOn DEF CartGoal, Enter, out, arm, config, world
<1>8. CASE GetLink(c)
  BY <1>1, <1>8, Ends DEF GetLink, out, arm, config, world
<1> QED
  BY <1>1, <1>2, <1>3, <1>4, <1>5, <1>6, <1>7, <1>8,
     NoLimitSound, JointSound, CartSound, HomeBegins, StopSound DEF Serve

(* cart_goal and cart_path_goal send no goal of their own.                    *)
LEMMA MoveSound ==
  ASSUME Sound, Move
  PROVE  Sound'
<1>1. NodeType /\ GoalsSound /\ points = <<>> /\ speed \in Speeds /\ Return(cur)
      /\ UNCHANGED <<pos, points, goal, wire, scene, speed>>
  BY DEF Move, Sound, Working, NodeType, out, config, world
<1> QED BY <1>1, Ends

(* Every callback that goes on.                                               *)
LEMMA RunningSound ==
  ASSUME Sound, Running
  PROVE  Sound'
BY JointStepSound, JointSendSound, FoundSound, MissingSound, BeginSound, CartStepSound, CartEndSound,
   HomeStepSound, HomeEndSound, MoveSound DEF Running

(* A step that leaves the node alone.                                        *)
LEMMA WorkSame ==
  ASSUME Working, UNCHANGED <<pc, cur, seed, tmp, points, tries, speed, scene>>,
         pc \in DOMAIN KindOf => inbox'[cur] = inbox[cur]
  PROVE  Working'
<1>1. CASE pc = "joint"
  <2>1. inbox'[cur'].arg = inbox[cur].arg
    BY <1>1 DEF KindOf
  <2> PICK n : n = inbox[cur].arg
    OBVIOUS
  <2> PICK j : j = Joint(n)
    OBVIOUS
  <2>2. n \in Int /\ j \in Joints /\ (JointRun(n, j) \/ Astray(n, j))
    BY <1>1 DEF Working, JointWork
  <2>3. (JointRun(n, j) => JointRun(n, j)') /\ (Astray(n, j) => Astray(n, j)')
    BY DEF JointRun, Straight, Astray, End
  <2>4. JointWork'
    BY <2>1, <2>2, <2>3 DEF JointWork, Joint
  <2> QED BY <1>1, <2>4 DEF Working
<1>2. CASE pc = "cartStep"
  <2>1. inbox'[cur'].arg = inbox[cur].arg
    BY <1>2 DEF KindOf
  <2>2. CartWork'
    BY <1>2, <2>1 DEF Working, CartWork, Joint, End
  <2> QED BY <1>2, <2>2 DEF Working
<1>3. CASE pc = "home"
  <2>1. HomeWork
    BY <1>3 DEF Working
  <2>2. HomeWork'
    BY <2>1 DEF HomeWork, End, Biggest, Toward
  <2> QED BY <1>3, <2>2 DEF Working
<1>4. CASE pc \in {"cartRoot", "cartTip", "cartBegin"}
  <2>1. inbox'[cur'].arg = inbox[cur].arg
    BY <1>4 DEF KindOf
  <2>2. inbox'[cur'].arg \in Int /\ Joint(inbox'[cur'].arg) \in Joints
    BY <2>1, <1>4 DEF Working
  <2> QED BY <1>4, <2>2 DEF Working, Joint
<1>5. CASE pc \notin {"joint", "cartStep", "home", "cartRoot", "cartTip", "cartBegin"}
  BY <1>5 DEF Working
<1> QED BY <1>1, <1>2, <1>3, <1>4, <1>5

(* The arm, its controller and move_group.                                    *)
LEMMA ArmSound ==
  ASSUME Sound, Arm
  PROVE  Sound'
<1> USE DEF Sound
<1>1. UNCHANGED <<inbox, pc, cur, seed, tmp, points, tries, speed, scene>>
  BY DEF Arm, ControllerTakes, ArmMoves, PlanExecuted, work, config, world
<1>2. Working'
  BY <1>1, WorkSame
<1>3. CASE ControllerTakes
  <2>1. wire # <<>> /\ goal' = Head(wire).points /\ wire' = Tail(wire) /\ pos' = pos /\ wire \in Seq(Goals)
    BY <1>3 DEF ControllerTakes, NodeType
  <2>2. Head(wire) \in Goals /\ wire' \in Seq(Goals) /\ \A i \in DOMAIN wire' : i + 1 \in DOMAIN wire /\ wire'[i] = wire[i + 1]
    BY <2>1
  <2>3. NodeType'
    BY <1>1, <2>1, <2>2 DEF NodeType, Goals
  <2>4. GoalsSound'
    <3>1. \A h : AsAsked(h)' <=> AsAsked(h)
      BY <1>1 DEF AsAsked
    <3>2. \A h : Gentle(h)' <=> Gentle(h)
      BY DEF Gentle
    <3> QED BY <2>2, <3>1, <3>2 DEF GoalsSound
  <2> QED BY <1>2, <2>3, <2>4
<1>4. CASE ArmMoves
  <2>1. goal # <<>> /\ pos' = Head(goal).at_pos /\ goal' = Tail(goal) /\ wire' = wire /\ goal \in Seq(Points)
    BY <1>4 DEF ArmMoves, NodeType, out
  <2>2. Head(goal) \in Points /\ goal' \in Seq(Points)
    BY <2>1
  <2>3. NodeType'
    BY <1>1, <2>1, <2>2 DEF NodeType, Points
  <2> QED BY <1>1, <1>2, <2>1, <2>3, SameSound
<1>5. CASE PlanExecuted
  <2>1. goal' = <<Point(1, Zero)>> /\ UNCHANGED <<pos, wire>>
    BY <1>5 DEF PlanExecuted, out
  <2>2. goal' \in Seq(Points)
    BY <2>1, ZeroPoint DEF Point, Points
  <2>3. NodeType'
    BY <1>1, <2>1, <2>2 DEF NodeType
  <2> QED BY <1>1, <1>2, <2>1, <2>3, SameSound
<1> QED BY <1>3, <1>4, <1>5 DEF Arm
-----------------------------------------------------------------------------
(* The panel and the other programs                                          *)

(* Nothing of the node changes but a request that comes in.                  *)
LEMMA CallsSound ==
  ASSUME Sound, Inv, UNCHANGED <<pc, cur, out, arm, work, config, world>>,
         inbox' = inbox \/ \E c : inbox[c] = None /\ \E r : inbox' = [inbox EXCEPT ![c] = r]
  PROVE  Sound'
<1>1. UNCHANGED <<pc, cur, seed, tmp, points, tries, speed, scene, pos, goal, wire>>
  BY DEF out, arm, work, config, world
<1>2. pc \in DOMAIN KindOf => inbox'[cur] = inbox[cur]
  <2> SUFFICES ASSUME pc \in DOMAIN KindOf PROVE inbox'[cur] = inbox[cur]
    OBVIOUS
  <2>1. cur \in Callers /\ inbox[cur] # None /\ DOMAIN inbox = Callers
    BY DEF Inv, PanelType, Serviced, KindOf
  <2> QED BY <2>1
<1>3. Working'
  BY <1>1, <1>2, WorkSame DEF Sound
<1>4. NodeType'
  BY <1>1 DEF Sound, NodeType
<1> QED BY <1>1, <1>3, <1>4, SameSound DEF Sound

Requested ==
  /\ \A c \in Callers : inbox'[c] # None => inbox'[c] = inbox[c] \/ Typed(inbox'[c])
  /\ \A i \in DOMAIN events' : (\E k \in DOMAIN events : events'[i] = events[k]) \/ Typed(events'[i])
  /\ \A t \in {"main", "bg"} : at'[t].at # "idle" => (at[t].at # "idle" /\ at'[t].req = at[t].req) \/ Typed(at'[t].req)
(* Requests stay what they are, and new ones are typed.                       *)
LEMMA AsksOn ==
  ASSUME Asks, Requested
  PROVE  Asks'
<1>1. \A r : Typed(r)' <=> Typed(r)
  BY DEF Typed
<1> QED BY <1>1 DEF Asks, Requested

(* The node asks for nothing.                                                 *)
LEMMA NodeAsks ==
  ASSUME Inv, Asks, Node, UNCHANGED panel
  PROVE  Asks'
<1>1. Boxes /\ Histories /\ Serviced
  BY DEF Inv, PanelType, Boxes, Histories
<1>2. Untouched \/ \E c \in Callers : Answers(c)
  BY <1>1, GuiAssumption, RunningAnswers, ServeAnswers DEF Node
<1>3. \A c \in Callers : inbox'[c] # None => inbox'[c] = inbox[c]
  BY <1>1, <1>2 DEF Untouched, Answers, Boxes
<1>4. Requested
  BY <1>3 DEF Requested, panel, Asks
<1> QED BY <1>4, AsksOn

(* A queue that is emptied at its head.                                      *)
LEMMA Dequeues ==
  ASSUME NEW S, NEW q \in Seq(S), q # <<>>
  PROVE  /\ \E k \in DOMAIN q : Head(q) = q[k]
         /\ \A i \in DOMAIN Tail(q) : \E k \in DOMAIN q : Tail(q)[i] = q[k]
<1>1. 1 \in DOMAIN q /\ Head(q) = q[1]
  OBVIOUS
<1>2. \A i \in DOMAIN Tail(q) : i + 1 \in DOMAIN q /\ Tail(q)[i] = q[i + 1]
  OBVIOUS
<1> QED BY <1>1, <1>2

(* A queue that is filled at its end.                                         *)
LEMMA Queues ==
  ASSUME NEW S, NEW q \in Seq(S), NEW r
  PROVE  \A i \in DOMAIN Append(q, r) : Append(q, r)[i] = r \/ \E k \in DOMAIN q : Append(q, r)[i] = q[k]
OBVIOUS

(* A step that leaves the node alone.                                         *)
LEMMA ApiSound ==
  ASSUME Sound, Inv, UNCHANGED api
  PROVE  Sound'
<1>1. UNCHANGED <<inbox, pc, cur, out, arm, work, config, world>>
  BY DEF api, vars, out, arm, work, config, world
<1> QED BY <1>1, CallsSound

(* A request that comes in.                                                   *)
LEMMA CallSound ==
  ASSUME Sound, Inv, NEW c, NEW op, NEW arg, Call(c, op, arg)
  PROVE  Sound'
BY CallsSound DEF Call

(* A call asks for what its caller wanted.                                   *)
LEMMA CallAsks ==
  ASSUME Inv, NEW c \in Callers, NEW op, NEW arg, Call(c, op, arg), Typed([op |-> op, arg |-> arg])
  PROVE  \A d \in Callers : inbox'[d] # None => inbox'[d] = inbox[d] \/ Typed(inbox'[d])
<1>1. DOMAIN inbox = Callers /\ inbox' = [inbox EXCEPT ![c] = [op |-> op, arg |-> arg]]
  BY DEF Inv, PanelType, Call
<1> QED BY <1>1

(* The operator.                                                              *)
LEMMA OperatorSound ==
  ASSUME Sound, Inv, Asks, Operator
  PROVE  Sound' /\ Asks'
<1>1. UNCHANGED api /\ at' = at /\ events \in Seq(Requests)
  BY DEF Operator, Press, Release, Click, Inv, PanelType
<1>2. \E r : events' = Append(events, r) /\ Typed(r)
  <2>1. Typed(StopReq)
    BY DEF Typed, StopReq
  <2> QED BY <2>1, RequestAssumption DEF Operator, Press, Release, Click
<1>3. Requested
  <2>1. inbox' = inbox
    BY <1>1 DEF api, vars
  <2> QED BY <1>1, <1>2, <2>1, Queues DEF Requested
<1> QED BY <1>1, <1>3, ApiSound, AsksOn

(* Another program.                                                           *)
LEMMA OtherSound ==
  ASSUME Sound, Inv, Asks, OtherCalls
  PROVE  Sound' /\ Asks'
<1> PICK r \in Others : Call("other", r.op, r.arg)
  BY DEF OtherCalls
<1>1. UNCHANGED <<events, at>> /\ "other" \in Callers
  BY GuiAssumption DEF OtherCalls
<1>2. Typed([op |-> r.op, arg |-> r.arg])
  BY RequestAssumption DEF Typed
<1>3. Requested
  BY <1>1, <1>2, CallAsks DEF Requested
<1> QED BY <1>3, CallSound, AsksOn

(* The threads of the panel, and its timer.                                   *)
LEMMA ThreadsSound ==
  ASSUME Sound, Inv, Asks,
         ServoClicked \/ MainHandles \/ BgStart \/ (\E t \in {"main", "bg"} : Threads(t))
           \/ MonitorStarts \/ MonitorEnds
  PROVE  Sound' /\ Asks'
<1>1. /\ events \in Seq(Requests) /\ "async" \in Callers /\ {"main", "bg"} \subseteq Callers
      /\ at \in [{"main", "bg"} -> [at : Places, req : Requests]]
  BY GuiAssumption DEF Inv, PanelType
<1>2. CASE ServoClicked
  <2>1. /\ UNCHANGED api /\ events # <<>> /\ events' = Tail(events)
        /\ at' = at \/ at' = [at EXCEPT !["bg"] = [at |-> "start", req |-> Head(events)]]
    BY <1>2 DEF ServoClicked
  <2>2. inbox' = inbox
    BY <2>1 DEF api, vars
  <2>3. Typed(Head(events))
    BY <1>1, <2>1, Dequeues DEF Asks
  <2>4. \A i \in DOMAIN events' : \E k \in DOMAIN events : events'[i] = events[k]
    BY <1>1, <2>1, Dequeues
  <2>5. Requested
    BY <1>1, <2>1, <2>2, <2>3, <2>4 DEF Requested
  <2> QED BY <2>1, <2>5, ApiSound, AsksOn
<1>3. CASE MainHandles
  <2> PICK p : at' = [at EXCEPT !["main"] = [at |-> p, req |-> Head(events)]]
    BY <1>3 DEF MainHandles
  <2>1. UNCHANGED api /\ events # <<>> /\ events' = Tail(events)
    BY <1>3 DEF MainHandles
  <2>2. inbox' = inbox
    BY <2>1 DEF api, vars
  <2>3. Typed(Head(events))
    BY <1>1, <2>1, Dequeues DEF Asks
  <2>4. \A i \in DOMAIN events' : \E k \in DOMAIN events : events'[i] = events[k]
    BY <1>1, <2>1, Dequeues
  <2>5. Requested
    BY <1>1, <2>1, <2>2, <2>3, <2>4 DEF Requested
  <2> QED BY <2>1, <2>5, ApiSound, AsksOn
<1>4. CASE BgStart
  <2>1. /\ at["bg"].at = "start" /\ at' = [at EXCEPT !["bg"].at = "acquire"] /\ events' = events
        /\ UNCHANGED api \/ Call("async", "stop", TRUE)
    BY <1>4 DEF BgStart
  <2>2. \A c \in Callers : inbox'[c] # None => inbox'[c] = inbox[c] \/ Typed(inbox'[c])
    <3>1. CASE UNCHANGED api
      BY <3>1 DEF api, vars
    <3>2. CASE Call("async", "stop", TRUE)
      <4>1. Typed([op |-> "stop", arg |-> TRUE])
        BY DEF Typed
      <4> QED BY <3>2, <4>1, <1>1, CallAsks
    <3> QED BY <2>1, <3>1, <3>2
  <2>3. Requested
    BY <1>1, <2>1, <2>2 DEF Requested
  <2>4. Sound'
    BY <2>1, ApiSound, CallSound
  <2> QED BY <2>3, <2>4, AsksOn
<1>5. ASSUME NEW t \in {"main", "bg"}, Acquire(t) PROVE Sound' /\ Asks'
  <2>1. /\ at[t].at = "acquire" /\ at' = [at EXCEPT ![t].at = "call"] /\ events' = events /\ UNCHANGED api
    BY <1>5 DEF Acquire
  <2>2. inbox' = inbox
    BY <2>1 DEF api, vars
  <2>3. Requested
    BY <1>1, <2>1, <2>2 DEF Requested
  <2> QED BY <2>1, <2>3, ApiSound, AsksOn
<1>6. ASSUME NEW t \in {"main", "bg"}, AskService(t) PROVE Sound' /\ Asks'
  <2>1. /\ at[t].at = "call" /\ at' = [at EXCEPT ![t].at = "wait"] /\ events' = events
        /\ UNCHANGED api \/ Call(t, at[t].req.op, at[t].req.arg)
    BY <1>6 DEF AskService
  <2>2. \A c \in Callers : inbox'[c] # None => inbox'[c] = inbox[c] \/ Typed(inbox'[c])
    <3>1. CASE UNCHANGED api
      BY <3>1 DEF api, vars
    <3>2. CASE Call(t, at[t].req.op, at[t].req.arg)
      <4>1. Typed(at[t].req)
        BY <2>1 DEF Asks
      <4>2. Typed([op |-> at[t].req.op, arg |-> at[t].req.arg])
        BY <4>1 DEF Typed
      <4>3. t \in Callers
        BY <1>1
      <4> QED BY <3>2, <4>2, <4>3, CallAsks
    <3> QED BY <2>1, <3>1, <3>2
  <2>3. Requested
    BY <1>1, <2>1, <2>2 DEF Requested
  <2>4. Sound'
    BY <2>1, ApiSound, CallSound
  <2> QED BY <2>3, <2>4, AsksOn
<1>7. ASSUME NEW t \in {"main", "bg"}, Answered(t) PROVE Sound' /\ Asks'
  <2>1. at' = [at EXCEPT ![t] = Idle] /\ events' = events /\ UNCHANGED api
    BY <1>7 DEF Answered
  <2>2. inbox' = inbox
    BY <2>1 DEF api, vars
  <2>3. Requested
    BY <1>1, <2>1, <2>2 DEF Requested, Idle
  <2> QED BY <2>1, <2>3, ApiSound, AsksOn
<1>8. CASE MonitorStarts \/ MonitorEnds
  <2>1. UNCHANGED <<events, at>> /\ UNCHANGED api
    BY <1>8 DEF MonitorStarts, MonitorEnds
  <2>2. inbox' = inbox
    BY <2>1 DEF api, vars
  <2>3. Requested
    BY <2>1, <2>2 DEF Requested
  <2> QED BY <2>1, <2>3, ApiSound, AsksOn
<1> QED BY <1>2, <1>3, <1>4, <1>5, <1>6, <1>7, <1>8 DEF Threads

(* At the start.                                                              *)
LEMMA SoundAtFirst ==
  ASSUME GuiInit
  PROVE  Sound /\ Asks
<1>1. Init /\ events = <<>> /\ at = [t \in {"main", "bg"} |-> Idle]
  BY DEF GuiInit
<1>2. pos \in Vectors /\ seed \in Vectors /\ tmp \in Vectors
  BY <1>1, ApiAssumption, ZeroPoint DEF Init, Vectors
<1>3. speed \in Speeds
  <2>1. \E x \in Speeds \ {0} : \A y \in Speeds \ {0} : x <= y
    BY Least, ApiAssumption
  <2>2. Min(Speeds \ {0}) \in Speeds
    BY <2>1 DEF Min
  <2> QED BY <1>1, <2>2 DEF Init
<1>4. NodeType
  BY <1>1, <1>2, <1>3 DEF Init, NodeType
<1>5. Working /\ GoalsSound
  BY <1>1 DEF Init, Working, GoalsSound
<1>6. Asks
  BY <1>1 DEF Init, Asks, Idle
<1> QED BY <1>4, <1>5, <1>6 DEF Sound

(* Every step.                                                                *)
LEMMA SoundOn ==
  ASSUME Inv, Sound, Asks, [GuiNext]_gvars
  PROVE  Sound' /\ Asks'
<1>1. CASE (Node \/ Arm) /\ UNCHANGED panel
  <2>1. CASE Node
    <3>1. Sound'
      BY <2>1, ServeSound, RunningSound DEF Node, Asks
    <3>2. Asks'
      BY <1>1, <2>1, NodeAsks
    <3> QED BY <3>1, <3>2
  <2>2. CASE Arm
    <3>1. inbox' = inbox
      BY <2>2 DEF Arm, ControllerTakes, ArmMoves, PlanExecuted
    <3>2. Requested
      BY <1>1, <3>1 DEF Requested, panel
    <3> QED BY <2>2, <3>2, ArmSound, AsksOn
  <2> QED BY <1>1, <2>1, <2>2
<1>2. CASE UNCHANGED gvars
  <2>1. UNCHANGED api /\ inbox' = inbox /\ UNCHANGED <<events, at>>
    BY <1>2 DEF gvars, api, vars, panel
  <2>2. Requested
    BY <2>1 DEF Requested
  <2> QED BY <2>1, <2>2, ApiSound, AsksOn
<1> QED BY <1>1, <1>2, OperatorSound, OtherSound, ThreadsSound DEF GuiNext

(* Every goal the node sends is gentle and as was asked, wherever the arm    *)
(* is and whatever speed is set.                                             *)
THEOREM GoalsAreSound == GuiSpec => []GoalsSound
<1>1. GuiInit => Sound /\ Asks
  BY SoundAtFirst
<1>2. Inv /\ Sound /\ Asks /\ [GuiNext]_gvars => (Sound /\ Asks)'
  BY SoundOn
<1>3. Sound => GoalsSound
  BY DEF Sound
<1> QED BY <1>1, <1>2, <1>3, PanelInvariant, PTL DEF GuiSpec
=============================================================================
