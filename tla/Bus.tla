--------------------------------- MODULE Bus ---------------------------------
(***************************************************************************)
(* The start of the master as the driver's initSoem runs it: the slaves    *)
(* are found, their data is mapped, their clocks are measured.             *)
(***************************************************************************)
EXTENDS BusMap, BusClock

busVars == <<scanVars, mapVars, clockVars>>

BusInit == ScanInit /\ MapInit /\ ClockInit
BusNext ==
  \/ Scan  /\ UNCHANGED <<mapVars, clockVars>>
  \/ Map   /\ UNCHANGED clockVars
  \/ Clock /\ UNCHANGED mapVars
BusSpec == BusInit /\ [][BusNext]_busVars
=============================================================================
