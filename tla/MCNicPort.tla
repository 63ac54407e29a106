----------------------------- MODULE MCNicPort -----------------------------
(* Instances of NicPort for TLC. *)
EXTENDS NicPort

CONSTANTS cycle, sdo

(* One frame with the clocks, as the robot has it, or two without LRW.     *)
TwoLayouts == {[cmds |-> <<"LRW">>, dc |-> TRUE], [cmds |-> <<"LRD", "LWR">>, dc |-> FALSE]}

(* Nothing is claimed once an index has been shared.                       *)
Clean == clean
=============================================================================
