--------------------------- MODULE MailboxServices ---------------------------
(***************************************************************************)
(* All services over the one mailbox of a slave: CoE, FoE, SoE and EoE.    *)
(***************************************************************************)
EXTENDS CoE, BulkServices

vars == <<program, box, coeVars, bulkVars>>

Init == BoxInit /\ CoeInit /\ BulkInit

Line     == UNCHANGED <<program, coeVars, bulkVars>>
Program  == (CoeClient /\ UNCHANGED bulkVars) \/ (BulkClient /\ UNCHANGED coeVars)
External == (CoeServer /\ UNCHANGED bulkVars) \/ ((BulkServer \/ SlaveFrame) /\ UNCHANGED coeVars)

Next == (Box /\ Line) \/ Program \/ External

(* The program goes on, and so does the slave; a deadline passes while the *)
(* master receives the same message again and again.  SlavePut is strongly *)
(* fair: the master cannot ask for repetitions so fast that a message that *)
(* is ready never gets into SM1.                                           *)
Fairness ==
  /\ WF_vars(MasterStep /\ Line)
  /\ SF_vars(Deadline /\ Line)
  /\ WF_vars((SlaveRepeat \/ Ignore) /\ Line)
  /\ SF_vars(SlavePut /\ Line)
  /\ WF_vars(Program /\ pc # "idle")
  /\ WF_vars((CoeServer /\ UNCHANGED bulkVars) \/ (BulkServer /\ UNCHANGED coeVars))

Spec == Init /\ [][Next]_vars /\ Fairness
-----------------------------------------------------------------------------
(* Every call returns, whatever is lost.                                   *)
CallsReturn == (pc # "idle") ~> (pc = "idle")
=============================================================================
