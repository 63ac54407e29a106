------------------------- MODULE MCMailboxServices -------------------------
(* An instance of MailboxServices for TLC. *)
EXTENDS MailboxServices

Obj(i, s, c) == [idx |-> i, sub |-> s, ca |-> c]
Small  == Obj(1, 1, FALSE)
Other  == Obj(1, 2, FALSE)   \* same index
Medium == Obj(2, 1, FALSE)
Large  == Obj(3, 1, TRUE)

(* With mailboxes of 18 bytes: 2 bytes in an initiating message and 9 in a *)
(* segment.                                                                *)
MCSizes == [o \in {Small, Other, Medium, Large} |->
              IF o = Small THEN 4 ELSE IF o = Other THEN 3 ELSE IF o = Medium THEN 9 ELSE 12]
MCDictionary == << <<11>>, <<12>>, <<13>>, <<14>>, <<15>> >>
CoeCalls == {
  [op |-> "read",  o |-> Small,  n |-> 4],  [op |-> "read",  o |-> Medium, n |-> 8],
  [op |-> "read",  o |-> Large,  n |-> 20], [op |-> "write", o |-> Small,  n |-> 4],
  [op |-> "write", o |-> Large,  n |-> 12], [op |-> "txpdo", o |-> Medium, n |-> 4],
  [op |-> "rxpdo", o |-> Small,  n |-> 3],  [op |-> "odlist", o |-> Small, n |-> 0],
  [op |-> "describe", o |-> Small, n |-> 0]}
EntryCalls == {[op |-> "entries", o |-> Small, n |-> 2]}

(* Packets of 3 bytes, fragments of 5 and blocks of 2.                     *)
C(op, n, known) == [op |-> op, n |-> n, known |-> known]
BulkCalls == <<
  {C("FOEread", 6, TRUE), C("FOEread", 4, TRUE), C("FOEread", 6, FALSE),
   C("FOEwrite", 4, TRUE), C("FOEwrite", 6, TRUE)},
  {C("SoEread", 11, TRUE), C("SoEread", 11, FALSE), C("SoEwrite", 11, TRUE), C("SoEwrite", 4, TRUE)},
  {C("EOEsend", 7, TRUE), C("EOErecv", 10, TRUE), C("EOErecv", 6, TRUE)},
  {C("EOEreadfragment", 10, TRUE)},
  {C("EOEsetIp", 0, TRUE), C("EOEgetIp", 0, TRUE)}>>

(* No answer of a CoE call is late, none of it is mixed with the others:   *)
(* late answers are taken by the next call of the same kind, see README.   *)
MCClients ==
  {[max |-> 2, calls |-> CoeCalls, late |-> 0, emergencies |-> 1, overtakes |-> FALSE],
   [max |-> 1, calls |-> EntryCalls, late |-> 0, emergencies |-> 1, overtakes |-> FALSE]}
    \cup {[max |-> IF k = 4 THEN 4 ELSE 2, calls |-> BulkCalls[k], late |-> 1,
           emergencies |-> 0, overtakes |-> TRUE] : k \in DOMAIN BulkCalls}
=============================================================================
