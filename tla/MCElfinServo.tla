---------------------------- MODULE MCElfinServo ----------------------------
(* Instances of ElfinServo for TLC. *)
EXTENDS ElfinServo, TLC

CONSTANTS m1, m2, p0, p1

OneModule  == {m1}
TwoModules == {m1, m2}
NoAxes     == {}
FirstAxes  == Modules \X {1}
ModuleOps  == {"enable", "disable", "clear", "recognize"}
LiveOps    == {"enable", "enable1", "recognize", "reset1"}
SwitchOps  == {"enable", "disable"}
ResetOps   == {"clear", "recognize"}
RobotOps   == {"enable", "disable", "clear"}
Symmetry   == Permutations(Modules)
=============================================================================
