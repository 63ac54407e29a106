-------------------------- MODULE EcCycle_proofs --------------------------
(* Theorems about EcCycle, for any number of slaves and of drop-outs, with *)
(* datagrams lost or not.                                                  *)
EXTENDS EcCycle, TLAPS

(* The IO slave is neither operational nor asked to be.                    *)
IoKept ==
  main \in {"request", "await", "refresh", "run"} /\ Io \in Slaves => al[Io] # "op" /\ ctrl[Io] # "op"

(* s is below OPERATIONAL and no request under way takes it there.         *)
Sunk(s) == al[s] # "op" /\ (al[s] = "safeop" => err[s] \/ ctrl[s] # "op")

(* What handleErrors does not raise at once.                               *)
Low == {r \in Seen : r[1] \in {"init", "preop", "boot"}} \cup {<<"safeop", TRUE>>}

(* A state read in this pass that makes handleErrors send a request other  *)
(* than OPERATIONAL.                                                       *)
ReadStill(s) ==
  state[s] \notin {<<"op", TRUE>>, <<"none", TRUE>>} /\ (state[s] \in Low => Sunk(s))

Handling == {"check", "rInit", "rPre", "rSafe", "rFmmu", "recheck", "lost", "readdress"}

(* What the cycle thread read of the slaves it has not come to yet is out  *)
(* of date in harmless ways only, and a slave being reconfigured stays     *)
(* where it is put.                                                        *)
Supervision ==
  main = "run" =>
    /\ pc \in Handling => \A s \in Slaves : s > cur => ReadStill(s)
    /\ pc = "check" => ReadStill(cur)
    /\ pc \in {"rInit", "rPre", "rSafe"} => Sunk(cur)

(* The error bit of an operational slave is not set.                       *)
OpClean == \A s \in Slaves : al[s] = "op" => ~err[s]

(* While the constructor runs there is no cycle thread.                    *)
NoThread ==
  /\ main \in {"request", "await", "failed"} => pc = "none"
  /\ main = "refresh" => pc \in {"readB", "readM"}

CycleInv == IoKept /\ OpClean /\ NoThread /\ Supervision

-----------------------------------------------------------------------------
Status == AL \cup {"none", "boot"}

LEMMA FirstSlave == 1 \in Slaves /\ Slaves \subseteq Nat
BY CycleAssumption DEF Slaves

LEMMA SeenPair ==
  ASSUME NEW r \in Seen
  PROVE  r = <<r[1], r[2]>> /\ r[1] \in Status /\ r[2] \in BOOLEAN
BY DEF Seen, Status

LEMMA CodeOf ==
  /\ Code["none"] = 0 /\ Code["init"] = 1 /\ Code["preop"] = 2 /\ Code["boot"] = 3
  /\ Code["safeop"] = 4 /\ Code["op"] = 8
BY DEF Code

LEMMA CodeType ==
  ASSUME NEW v \in Status
  PROVE  Code[v] \in Nat
BY CodeOf DEF Status, AL

(* There is a lowest state among those read.                               *)
LEMMA LeastStatus ==
  ASSUME NEW V \in SUBSET Status, V # {}
  PROVE  \E v \in V : \A w \in V : Code[v] <= Code[w]
<1>1. \A n \in Nat : n <= n
  OBVIOUS
<1>2. \A v \in V : v = "none" \/ v = "init" \/ v = "preop" \/ v = "boot" \/ v = "safeop" \/ v = "op"
  BY DEF Status, AL
<1>3. ASSUME NEW v \in V, \A w \in V : Code[v] <= Code[w]
      PROVE  \E x \in V : \A w \in V : Code[x] <= Code[w]
  BY <1>3, Zenon
<1>4. CASE "none" \in V
  <2>1. \A w \in V : Code["none"] <= Code[w]
    BY <1>2, CodeOf
  <2>2. QED
    BY <1>4, <2>1, <1>3, Zenon
<1>5. CASE "none" \notin V /\ "init" \in V
  <2>1. \A w \in V : Code["init"] <= Code[w]
    BY <1>2, <1>5, CodeOf
  <2>2. QED
    BY <1>5, <2>1, <1>3, Zenon
<1>6. CASE "none" \notin V /\ "init" \notin V /\ "preop" \in V
  <2>1. \A w \in V : Code["preop"] <= Code[w]
    BY <1>2, <1>6, CodeOf
  <2>2. QED
    BY <1>6, <2>1, <1>3, Zenon
<1>7. CASE "none" \notin V /\ "init" \notin V /\ "preop" \notin V /\ "boot" \in V
  <2>1. \A w \in V : Code["boot"] <= Code[w]
    BY <1>2, <1>7, CodeOf
  <2>2. QED
    BY <1>7, <2>1, <1>3, Zenon
<1>8. CASE "none" \notin V /\ "init" \notin V /\ "preop" \notin V /\ "boot" \notin V
  <2>1. CASE "safeop" \in V
    <3>1. \A w \in V : Code["safeop"] <= Code[w]
      BY <1>2, <1>8, CodeOf
    <3>2. QED
      BY <2>1, <3>1, <1>3, Zenon
  <2>2. CASE "safeop" \notin V
    <3>1. V = {"op"}
      BY <1>2, <1>8, <2>2
    <3>2. \A w \in V : Code["op"] <= Code[w]
      BY <3>1, CodeOf
    <3>3. QED
      BY <3>1, <3>2, <1>3
  <2>3. QED
    BY <2>1, <2>2
<1>9. QED
  BY <1>4, <1>5, <1>6, <1>7, <1>8

LEMMA LowestType ==
  ASSUME NEW f \in [Slaves -> Seen]
  PROVE  Lowest(f) \in Status
<1> DEFINE V == {f[s][1] : s \in Slaves}
<1>1. V \subseteq Status /\ V # {}
  BY FirstSlave, SeenPair
<1>2. \E v \in V : \A w \in V : Code[v] <= Code[w]
  <2> HIDE DEF V
  <2> QED
    BY <1>1, LeastStatus
<1>3. \E v \in V : \A s \in Slaves : Code[v] <= Code[f[s][1]]
  BY <1>2
<1>4. Lowest(f) \in V
  BY <1>3, Zenon DEF Lowest
<1>5. QED
  BY <1>1, <1>4

LEMMA OredType == Ored \in Status
<1> DEFINE A == {al[s] : s \in {x \in Slaves : on[x]}}
<1>1. CASE A # {"init", "preop"} /\ \E v \in AL : A = {v}
  <2>1. (CHOOSE v \in AL : A = {v}) \in AL
    BY <1>1, Zenon
  <2>2. QED
    BY <1>1, <2>1 DEF Ored, Status
<1>2. CASE ~(A # {"init", "preop"} /\ \E v \in AL : A = {v})
  BY <1>2 DEF Ored, Status
<1>3. QED
  BY <1>1, <1>2

LEMMA ReadsType ==
  ASSUME NEW s, NEW v
  PROVE  statecheck(s, v) \subseteq Seen
BY DEF statecheck, Reads

LEMMA NextSlaveType ==
  ASSUME TypeOK, NextSlave
  PROVE  cur' \in Slaves /\ pc' \in {"top", "check"}
BY CycleAssumption DEF TypeOK, NextSlave, Slaves

LEMMA AsksType ==
  ASSUME TypeOK, NEW s \in Slaves, NEW v \in Requests, Asks(s, v)
  PROVE  ctrl' \in [Slaves -> Requests]
BY DEF TypeOK, Asks

LEMMA HandleErrorsType ==
  ASSUME TypeOK, handleErrors
  PROVE  TypeOK'
<1>1. cur \in Slaves /\ "op" \in Requests /\ "ack" \in Requests /\ "init" \in Requests
  BY DEF TypeOK, Requests, AL
<1>2. ctrl' \in [Slaves -> Requests]
  BY <1>1, AsksType DEF handleErrors, TypeOK
<1>3. state' \in [Slaves -> Seen] /\ pc' \in CycleLabel
  <2>1. <<"op", FALSE>> \in Seen
    BY DEF Seen, AL
  <2>2. state' = state \/ state' = [state EXCEPT ![cur] = <<"op", FALSE>>]
    BY DEF handleErrors
  <2>3. pc' \in CycleLabel
    BY DEF handleErrors, CycleLabel
  <2>4. QED
    BY <2>1, <2>2, <2>3 DEF TypeOK
<1>4. UNCHANGED <<slaves, state0, islost, cur, owner, upsets>>
  BY DEF handleErrors
<1>5. QED
  BY <1>2, <1>3, <1>4 DEF TypeOK, slaves, owner

LEMMA ReconfigType ==
  ASSUME TypeOK, reconfigInit \/ reconfigPre \/ reconfigSafe \/ reconfigFmmu
  PROVE  TypeOK'
<1>1. cur \in Slaves /\ "preop" \in Requests /\ "safeop" \in Requests
  BY DEF TypeOK, Requests, AL
<1>2. /\ \A r \in Seen : [state EXCEPT ![cur] = r] \in [Slaves -> Seen]
      /\ [islost EXCEPT ![cur] = FALSE] \in [Slaves -> BOOLEAN]
  BY DEF TypeOK
<1>3. CASE reconfigInit
  <2>1. state' \in [Slaves -> Seen]
    BY <1>2, <1>3, ReadsType DEF reconfigInit
  <2>2. ctrl' \in [Slaves -> Requests]
    BY <1>1, <1>3, AsksType DEF reconfigInit, TypeOK
  <2>3. sm' \in [Slaves -> BOOLEAN] /\ islost' \in [Slaves -> BOOLEAN] /\ pc' \in CycleLabel
    BY <1>3 DEF reconfigInit, Programs, Reconfigured, TypeOK, CycleLabel
  <2>4. UNCHANGED <<on, addr, al, err, fmmu, missed, state0, cur, owner, upsets>>
    BY <1>3 DEF reconfigInit
  <2>5. QED
    BY <2>1, <2>2, <2>3, <2>4 DEF TypeOK, owner
<1>4. CASE reconfigPre
  <2>1. state' \in [Slaves -> Seen]
    BY <1>2, <1>4, ReadsType DEF reconfigPre
  <2>2. ctrl' \in [Slaves -> Requests]
    BY <1>1, <1>4, AsksType DEF reconfigPre, TypeOK
  <2>3. islost' \in [Slaves -> BOOLEAN] /\ pc' \in CycleLabel
    BY <1>4 DEF reconfigPre, Reconfigured, TypeOK, CycleLabel
  <2>4. UNCHANGED <<slaves, state0, cur, owner, upsets>>
    BY <1>4 DEF reconfigPre
  <2>5. QED
    BY <2>1, <2>2, <2>3, <2>4 DEF TypeOK, slaves, owner
<1>5. CASE reconfigSafe
  <2>1. state' \in [Slaves -> Seen]
    BY <1>2, <1>5, ReadsType DEF reconfigSafe
  <2>2. QED
    BY <1>5, <2>1 DEF reconfigSafe, TypeOK, CycleLabel, slaves, owner
<1>6. CASE reconfigFmmu
  BY <1>6 DEF reconfigFmmu, Programs, Reconfigured, TypeOK, CycleLabel, owner
<1>7. QED
  BY <1>3, <1>4, <1>5, <1>6

LEMMA LostType ==
  ASSUME TypeOK, recheck \/ handleLost \/ readdress
  PROVE  TypeOK'
<1>1. CASE recheck
  <2>1. state' \in [Slaves -> Seen]
    BY <1>1, ReadsType DEF recheck, TypeOK
  <2>2. QED
    BY <1>1, <2>1 DEF recheck, TypeOK, CycleLabel, slaves, owner
<1>2. CASE handleLost
  <2>1. cur' \in Slaves /\ pc' \in CycleLabel
    BY <1>2, NextSlaveType DEF handleLost, CycleLabel, TypeOK
  <2>2. MakeTemp \in [Slaves -> Address]
    BY DEF MakeTemp, TypeOK, Address
  <2>3. addr' \in [Slaves -> Address] /\ islost' \in [Slaves -> BOOLEAN]
    BY <1>2, <2>2 DEF handleLost, TypeOK
  <2>4. QED
    BY <1>2, <2>1, <2>3 DEF handleLost, TypeOK, owner
<1>3. CASE readdress
  <2>1. cur' \in Slaves /\ pc' \in CycleLabel
    BY <1>3, NextSlaveType DEF readdress, CycleLabel
  <2>2. addr' \in [Slaves -> Address] /\ islost' \in [Slaves -> BOOLEAN]
    BY <1>3 DEF readdress, TypeOK, Address
  <2>3. QED
    BY <1>3, <2>1, <2>2 DEF readdress, TypeOK, owner
<1>4. QED
  BY <1>1, <1>2, <1>3

LEMMA ReadstateType ==
  ASSUME TypeOK, cycleWorker \/ readstateAll \/ readstateEach
  PROVE  TypeOK'
<1>1. CASE cycleWorker
  BY <1>1 DEF cycleWorker, TypeOK, CycleLabel, slaves, table, owner
<1>2. CASE readstateAll
  <2>1. state0' \in Status /\ state' \in [Slaves -> Seen]
    <3>1. [s \in Slaves |-> <<Ored, FALSE>>] \in [Slaves -> Seen]
      BY OredType DEF Seen, Status
    <3>2. QED
      BY <1>2, <3>1, OredType DEF readstateAll, TypeOK, Status
  <2>2. main' \in MainLabel /\ pc' \in CycleLabel /\ cur' \in Slaves
    BY <1>2, FirstSlave DEF readstateAll, ReadDone, TypeOK, MainLabel, CycleLabel
  <2>3. UNCHANGED <<slaves, ctrl, islost, stop, open, upsets>>
    BY <1>2 DEF readstateAll
  <2>4. QED
    BY <2>1, <2>2, <2>3 DEF TypeOK, Status, slaves
<1>3. CASE readstateEach
  <2>1. state' \in [Slaves -> Seen]
    <3>1. \A s \in Slaves : <<al[s], err[s]>> \in Seen /\ None \in Seen
      BY DEF TypeOK, Seen, None
    <3>2. \A s \in Slaves : (IF Reachable(s) THEN <<al[s], err[s]>> ELSE None) \in Seen
      BY <3>1
    <3>3. QED
      BY <1>3, <3>1, <3>2 DEF readstateEach
  <2>2. state0' \in Status
    BY <1>3, <2>1, LowestType DEF readstateEach
  <2>3. main' \in MainLabel /\ pc' \in CycleLabel
    BY <1>3 DEF readstateEach, ReadDone, TypeOK, MainLabel, CycleLabel
  <2>4. UNCHANGED <<slaves, ctrl, islost, cur, stop, open, upsets>>
    BY <1>3 DEF readstateEach
  <2>5. QED
    BY <2>1, <2>2, <2>3, <2>4 DEF TypeOK, Status, slaves
<1>4. QED
  BY <1>1, <1>2, <1>3

LEMMA SlaveType ==
  ASSUME TypeOK, NEW s \in Slaves, Accept(s) \/ Refuse(s) \/ Upset(s)
  PROVE  TypeOK'
<1>1. CASE Accept(s)
  <2>1. Asked(ctrl[s]) \in AL
    BY <1>1 DEF Accept, TypeOK, Asked, Requests, AL
  <2>2. QED
    BY <1>1, <2>1 DEF Accept, TypeOK, Requests, table, owner
<1>2. CASE Refuse(s)
  BY <1>2 DEF Refuse, TypeOK, Requests, table, owner
<1>3. CASE Upset(s)
  <2>1. upsets' \in 0 .. MaxUpsets
    BY <1>3, CycleAssumption DEF Upset, Drop, Unplug, Replug, TypeOK
  <2>2. /\ on' \in [Slaves -> BOOLEAN] /\ addr' \in [Slaves -> Address]
        /\ al' \in [Slaves -> AL] /\ err' \in [Slaves -> BOOLEAN]
        /\ ctrl' \in [Slaves -> Requests] /\ sm' \in [Slaves -> BOOLEAN]
        /\ fmmu' \in [Slaves -> BOOLEAN] /\ missed' \subseteq Slaves
    BY <1>3 DEF Upset, Drop, Unplug, Replug, TypeOK, AL, Requests, Address
  <2>3. UNCHANGED <<table, pc, cur, owner>>
    BY <1>3 DEF Upset, Drop, Unplug, Replug
  <2>4. QED
    BY <2>1, <2>2, <2>3 DEF TypeOK, table, owner
<1>4. QED
  BY <1>1, <1>2, <1>3

LEMMA OwnerType ==
  ASSUME TypeOK, OwnerStep \/ destroy
  PROVE  TypeOK'
<1>1. CASE initSoem
  <2>1. "op" \in Requests /\ <<"op", FALSE>> \in Seen
    BY DEF Requests, Seen, AL
  <2>2. ctrl' \in [Slaves -> Requests] /\ state' \in [Slaves -> Seen]
    BY <1>1, <2>1, AsksType DEF initSoem, TypeOK
  <2>3. cur' \in Slaves /\ main' \in MainLabel /\ pc' \in CycleLabel
    <3>1. \/ main' = "await" /\ UNCHANGED <<pc, cur>>
          \/ main' = "refresh" /\ cur' = 1 /\ pc' = "readB"
          \/ main' = main /\ cur' = cur + 1 /\ pc' = pc /\ cur # N
      BY <1>1 DEF initSoem
    <3>2. cur' \in Slaves
      BY <3>1, CycleAssumption DEF TypeOK, Slaves
    <3>3. QED
      BY <3>1, <3>2 DEF TypeOK, MainLabel, CycleLabel
  <2>4. UNCHANGED <<slaves, state0, islost, stop, open, upsets>>
    BY <1>1 DEF initSoem
  <2>5. QED
    BY <2>2, <2>3, <2>4 DEF TypeOK, slaves
<1>2. CASE initAwait
  <2>1. state' \in [Slaves -> Seen]
    BY <1>2, ReadsType DEF initAwait, TypeOK
  <2>2. cur' \in Slaves /\ main' \in MainLabel /\ pc' \in CycleLabel
    <3>1. \/ main' = "failed" /\ UNCHANGED <<pc, cur>>
          \/ main' = "refresh" /\ cur' = 1 /\ pc' = "readB"
          \/ main' = "request" /\ cur' = cur + 1 /\ pc' = pc /\ cur # N
      BY <1>2 DEF initAwait
    <3>2. cur' \in Slaves
      BY <3>1, CycleAssumption DEF TypeOK, Slaves
    <3>3. QED
      BY <3>1, <3>2 DEF TypeOK, MainLabel, CycleLabel
  <2>3. UNCHANGED <<slaves, ctrl, state0, islost, stop, open, upsets>>
    BY <1>2 DEF initAwait
  <2>4. QED
    BY <2>1, <2>2, <2>3 DEF TypeOK, slaves
<1>3. CASE broadcastState
  <2>1. ctrl' \in [Slaves -> Requests]
    BY <1>3 DEF broadcastState, TypeOK, Requests
  <2>2. QED
    BY <1>3, <2>1 DEF broadcastState, TypeOK, MainLabel, slaves, table
<1>4. CASE markInit
  BY <1>4 DEF markInit, TypeOK, MainLabel, slaves, AL
<1>5. CASE destroy \/ ec_close \/ join
  BY <1>5 DEF destroy, ec_close, join, TypeOK, MainLabel, slaves, table
<1>6. QED
  BY <1>1, <1>2, <1>3, <1>4, <1>5 DEF OwnerStep

(* Every reachable state of threads, slave table and slaves is well typed. *)
THEOREM CycleTypeCorrect == Spec => []TypeOK
<1>1. Init => TypeOK
  <2> SUFFICES ASSUME Init PROVE TypeOK
    OBVIOUS
  <2>1. <<"safeop", FALSE>> \in Seen /\ "safeop" \in AL
    BY DEF Seen, AL
  <2>2. state \in [Slaves -> Seen] /\ al \in [Slaves -> AL]
    BY <2>1 DEF Init
  <2>3. 0 \in 0 .. MaxUpsets /\ cur \in Slaves
    BY FirstSlave, CycleAssumption DEF Init
  <2>4. addr \in [Slaves -> Address] /\ ctrl \in [Slaves -> Requests]
    BY DEF Init, Address, Requests
  <2>5. QED
    BY <2>1, <2>2, <2>3, <2>4 DEF Init, TypeOK, CycleLabel, MainLabel
<1>2. TypeOK /\ [Next]_vars => TypeOK'
  <2> SUFFICES ASSUME TypeOK, [Next]_vars PROVE TypeOK'
    OBVIOUS
  <2>1. CASE CycleStep
    BY <2>1, HandleErrorsType, ReconfigType, LostType, ReadstateType DEF CycleStep
  <2>2. CASE OwnerStep \/ destroy
    BY <2>2, OwnerType
  <2>3. CASE \E s \in Slaves : Accept(s) \/ Refuse(s) \/ Upset(s)
    BY <2>3, SlaveType
  <2>4. CASE UNCHANGED vars
    BY <2>4 DEF vars, slaves, table, owner, TypeOK
  <2>5. QED
    BY <2>1, <2>2, <2>3, <2>4 DEF Next
<1>3. QED
  BY <1>1, <1>2, PTL DEF Spec

-----------------------------------------------------------------------------
(* The slaves' own steps keep OpClean, Sunk and the IO slave's state.      *)

LEMMA StatusOrder ==
  \A v \in AL : Code["op"] <= Code[v] => v = "op"
BY CodeOf DEF AL

LEMMA AcceptKeeps ==
  ASSUME TypeOK, NEW s \in Slaves, Accept(s)
  PROVE  /\ UNCHANGED <<on, addr, sm, fmmu, table, pc, cur, owner>>
         /\ \A t \in Slaves \ {s} : al'[t] = al[t] /\ err'[t] = err[t] /\ ctrl'[t] = ctrl[t]
         /\ ~err'[s] /\ ctrl'[s] = "none"
         /\ al'[s] = "op" => ctrl[s] = "op" /\ (al[s] = "op" \/ (al[s] = "safeop" /\ ~err[s]))
<1>1. /\ UNCHANGED <<on, addr, sm, fmmu, table, pc, cur, owner>>
      /\ \A t \in Slaves \ {s} : al'[t] = al[t] /\ err'[t] = err[t] /\ ctrl'[t] = ctrl[t]
      /\ ~err'[s] /\ ctrl'[s] = "none" /\ al'[s] = Asked(ctrl[s])
  BY DEF Accept, TypeOK
<1>2. ASSUME Asked(ctrl[s]) = "op"
      PROVE  ctrl[s] = "op" /\ (al[s] = "op" \/ (al[s] = "safeop" /\ ~err[s]))
  <2>1. ctrl[s] = "op"
    BY <1>2 DEF Asked
  <2>2. Legal(s, "op")
    BY <2>1 DEF Accept
  <2>3. ~err[s] /\ (Code["op"] <= Code[al[s]] \/ al[s] = "safeop")
    BY <2>2 DEF Legal, Asked
  <2>4. QED
    BY <2>1, <2>3, StatusOrder DEF TypeOK
<1>3. QED
  BY <1>1, <1>2

LEMMA RefuseKeeps ==
  ASSUME TypeOK, NEW s \in Slaves, Refuse(s), OpClean
  PROVE  /\ UNCHANGED <<on, addr, al, sm, fmmu, table, pc, cur, owner>>
         /\ \A t \in Slaves \ {s} : err'[t] = err[t] /\ ctrl'[t] = ctrl[t]
         /\ err'[s] /\ ctrl'[s] = "none" /\ al[s] # "op"
<1>1. /\ UNCHANGED <<on, addr, al, sm, fmmu, table, pc, cur, owner>>
      /\ \A t \in Slaves \ {s} : err'[t] = err[t] /\ ctrl'[t] = ctrl[t]
      /\ err'[s] /\ ctrl'[s] = "none"
  BY DEF Refuse, TypeOK
<1>2. ASSUME al[s] = "op"
      PROVE  FALSE
  <2>1. ~err[s] /\ Asked(ctrl[s]) \in AL
    BY <1>2 DEF OpClean, Refuse, TypeOK, Requests, Asked, AL
  <2>2. Code[Asked(ctrl[s])] <= Code["op"]
    BY <2>1, CodeOf DEF AL
  <2>3. Legal(s, ctrl[s]) /\ ~(Code[Asked(ctrl[s])] > Code[al[s]])
    <3>1. Code[Asked(ctrl[s])] \in Nat /\ Code["op"] \in Nat
      BY <2>1, CodeOf DEF AL
    <3>2. QED
      BY <1>2, <2>1, <2>2, <3>1 DEF Legal
  <2>4. QED
    BY <2>3 DEF Refuse
<1>3. QED
  BY <1>1, <1>2

LEMMA UpsetKeeps ==
  ASSUME TypeOK, NEW s \in Slaves, Upset(s)
  PROVE  /\ UNCHANGED <<table, pc, cur, owner>>
         /\ \A t \in Slaves \ {s} : al'[t] = al[t] /\ err'[t] = err[t] /\ ctrl'[t] = ctrl[t]
         /\ \/ al'[s] = al[s] /\ err'[s] = err[s] /\ ctrl'[s] = ctrl[s]
            \/ al'[s] = "safeop" /\ err'[s] /\ ctrl'[s] = ctrl[s]
            \/ al'[s] = "init" /\ ~err'[s] /\ ctrl'[s] = "none"
BY DEF Upset, Drop, Unplug, Replug, TypeOK

LEMMA SlaveKeeps ==
  ASSUME TypeOK, OpClean, NEW s \in Slaves, Accept(s) \/ Refuse(s) \/ Upset(s)
  PROVE  /\ UNCHANGED <<table, pc, cur, owner>>
         /\ OpClean'
         /\ \A t \in Slaves : Sunk(t) => Sunk(t)'
         /\ \A t \in Slaves : al[t] # "op" /\ ctrl[t] # "op" => al'[t] # "op" /\ ctrl'[t] # "op"
         /\ \A t \in Slaves : ctrl[t] = "none" => ctrl'[t] = "none"
<1>1. CASE Accept(s)
  BY <1>1, AcceptKeeps DEF OpClean, Sunk
<1>2. CASE Refuse(s)
  BY <1>2, RefuseKeeps DEF OpClean, Sunk
<1>3. CASE Upset(s)
  BY <1>3, UpsetKeeps DEF OpClean, Sunk
<1>4. QED
  BY <1>1, <1>2, <1>3

-----------------------------------------------------------------------------
(* The steps of the cycle thread.                                          *)

LEMMA AsksKeeps ==
  ASSUME TypeOK, NEW s \in Slaves, NEW v \in Requests, Asks(s, v)
  PROVE  /\ \A t \in Slaves \ {s} : ctrl'[t] = ctrl[t]
         /\ ctrl'[s] \in {v, ctrl[s]}
BY DEF Asks, TypeOK

(* Nothing a thread does sets the AL state or the error bit of a slave.    *)
LEMMA ThreadsLeaveStates ==
  ASSUME CycleStep \/ OwnerStep \/ destroy
  PROVE  UNCHANGED <<on, al, err>>
BY DEF CycleStep, cycleWorker, readstateAll, readstateEach, handleErrors, reconfigInit, reconfigPre,
       reconfigSafe, reconfigFmmu, recheck, handleLost, readdress, OwnerStep, initSoem, initAwait,
       destroy, markInit, broadcastState, ec_close, join, slaves

(* The owner does not go on running except at the end of initSoem.         *)
LEMMA RunBegins ==
  ASSUME CycleStep \/ OwnerStep \/ destroy
  PROVE  main' = "run" => main = "run" \/ pc' = "top"
<1>1. CASE readstateAll \/ readstateEach
  BY <1>1 DEF readstateAll, readstateEach, ReadDone
<1>2. CASE handleErrors \/ reconfigInit \/ reconfigPre \/ reconfigSafe \/ reconfigFmmu
  BY <1>2 DEF handleErrors, reconfigInit, reconfigPre, reconfigSafe, reconfigFmmu, owner
<1>3. CASE cycleWorker \/ recheck \/ handleLost \/ readdress
  BY <1>3 DEF cycleWorker, recheck, handleLost, readdress, owner
<1>4. CASE OwnerStep \/ destroy
  BY <1>4 DEF OwnerStep, initSoem, initAwait, destroy, markInit, broadcastState, ec_close, join
<1>5. QED
  BY <1>1, <1>2, <1>3, <1>4 DEF CycleStep

(* What ec_readstate finds is true at the end of it.                       *)
LEMMA ReadstateFinds ==
  ASSUME TypeOK, OpClean, readstateAll \/ readstateEach, main = "run", pc' = "check"
  PROVE  \A s \in Slaves : ReadStill(s)'
<1>1. UNCHANGED <<al, err, ctrl>>
  BY DEF readstateAll, readstateEach, slaves
<1>2. CASE readstateAll
  <2>1. Ored # "none" /\ (\A s \in Slaves : on[s]) /\ state' = [s \in Slaves |-> <<Ored, FALSE>>]
    BY <1>2 DEF readstateAll
  <2>2. ASSUME NEW s \in Slaves, Ored \in {"init", "preop", "boot"}
        PROVE  al[s] \in {"init", "preop"}
    <3> DEFINE A == {al[t] : t \in {x \in Slaves : on[x]}}
    <3>1. al[s] \in A
      BY <2>1
    <3>2. A = {"init", "preop"} \/ A = {Ored}
      <4>1. CASE A # {"init", "preop"} /\ \E v \in AL : A = {v}
        <5>1. A = {CHOOSE v \in AL : A = {v}}
          BY <4>1, Zenon
        <5>2. QED
          BY <4>1, <5>1 DEF Ored
      <4>2. CASE A # {"init", "preop"} /\ ~\E v \in AL : A = {v}
        BY <2>1, <4>2 DEF Ored
      <4>3. QED
        BY <4>1, <4>2
    <3>3. QED
      BY <2>2, <3>1, <3>2 DEF TypeOK, AL
  <2>3. ASSUME NEW s \in Slaves PROVE ReadStill(s)'
    <3>1. state'[s] = <<Ored, FALSE>>
      BY <2>1
    <3>2. <<Ored, FALSE>> \in Low => Ored \in {"init", "preop", "boot"}
      BY DEF Low
    <3>3. QED
      BY <1>1, <2>2, <3>1, <3>2 DEF ReadStill, Sunk
  <2>4. QED
    BY <2>3
<1>3. CASE readstateEach
  <2>1. ASSUME NEW s \in Slaves PROVE ReadStill(s)'
    <3>1. state'[s] = None \/ state'[s] = <<al[s], err[s]>>
      BY <1>3 DEF readstateEach
    <3>2. None \notin Low
      BY DEF Low, None
    <3>3. CASE state'[s] = None
      BY <3>2, <3>3 DEF ReadStill, None
    <3>4. CASE state'[s] = <<al[s], err[s]>>
      <4>1. al[s] \in AL /\ err[s] \in BOOLEAN /\ (al[s] = "op" => ~err[s])
        BY DEF TypeOK, OpClean
      <4>2. <<al[s], err[s]>> \notin {<<"op", TRUE>>, <<"none", TRUE>>}
        BY <4>1 DEF AL
      <4>3. ASSUME <<al[s], err[s]>> \in Low
            PROVE  al[s] \in {"init", "preop"} \/ (al[s] = "safeop" /\ err[s])
        <5>1. al[s] \in {"init", "preop", "boot"} \/ <<al[s], err[s]>> = <<"safeop", TRUE>>
          BY <4>3 DEF Low
        <5>2. CASE al[s] \in {"init", "preop", "boot"}
          BY <4>1, <5>2 DEF AL
        <5>3. CASE <<al[s], err[s]>> = <<"safeop", TRUE>>
          <6>1. al[s] = "safeop" /\ err[s] = TRUE
            BY <5>3
          <6>2. QED
            BY <6>1
        <5>4. QED
          BY <5>1, <5>2, <5>3
      <4>4. QED
        BY <1>1, <3>4, <4>2, <4>3 DEF ReadStill, Sunk
    <3>5. QED
      BY <3>1, <3>3, <3>4
  <2>2. QED
    BY <2>1
<1>4. QED
  BY <1>2, <1>3

(* Within handleErrors a step at cur disturbs neither what was read of the *)
(* slaves behind it nor what goes on there.                                *)
LEMMA BehindKept ==
  ASSUME TypeOK, UNCHANGED <<al, err>>, cur' = cur,
         \A t \in Slaves \ {cur} : ctrl'[t] = ctrl[t] /\ state'[t] = state[t],
         \A t \in Slaves : t > cur => ReadStill(t)
  PROVE  \A t \in Slaves : t > cur' => ReadStill(t)'
<1>1. cur \in Nat
  BY FirstSlave DEF TypeOK
<1>2. \A t \in Slaves : t > cur => t \in Slaves \ {cur}
  BY <1>1, FirstSlave
<1>3. QED
  BY <1>2 DEF ReadStill, Sunk

LEMMA NextSlaveKeeps ==
  ASSUME TypeOK, UNCHANGED <<al, err, ctrl, state>>, NextSlave,
         \A t \in Slaves : t > cur => ReadStill(t)
  PROVE  \/ pc' = "top"
         \/ pc' = "check" /\ ReadStill(cur)' /\ \A t \in Slaves : t > cur' => ReadStill(t)'
<1>1. \A t \in Slaves : ReadStill(t) => ReadStill(t)'
  BY DEF ReadStill, Sunk
<1>2. CASE cur = N
  BY <1>2 DEF NextSlave
<1>3. CASE cur # N
  <2>1. pc' = "check" /\ cur' = cur + 1 /\ cur' \in Slaves /\ cur \in Nat
    BY <1>3, NextSlaveType, FirstSlave DEF NextSlave, TypeOK
  <2>2. cur' > cur /\ \A t \in Slaves : t > cur' => t > cur
    BY <2>1, FirstSlave
  <2>3. ReadStill(cur')
    BY <2>1, <2>2
  <2>4. ReadStill(cur)'
    BY <2>1, <2>3 DEF ReadStill, Sunk
  <2>5. QED
    BY <1>1, <2>1, <2>2, <2>4
<1>4. QED
  BY <1>2, <1>3

(* handleErrors at one slave: whom it asks for what.                       *)
LEMMA HandleErrorsAsks ==
  ASSUME TypeOK, handleErrors
  PROVE  /\ cur' = cur /\ main' = main
         /\ \A t \in Slaves \ {cur} : ctrl'[t] = ctrl[t] /\ state'[t] = state[t]
         /\ \/ ctrl' = ctrl /\ pc' \in {"lost", "recheck"}
            \/ /\ state[cur] = <<"safeop", TRUE>> /\ Asks(cur, "ack") /\ ctrl'[cur] \in {"ack", ctrl[cur]}
               /\ pc' = "lost"
            \/ Faulty(cur) /\ ctrl'[cur] \in {"op", ctrl[cur]} /\ pc' = "lost"
            \/ /\ Faulty(cur) /\ state[cur] # None /\ state[cur][1] # "safeop"
               /\ ctrl'[cur] \in {"init", ctrl[cur]}
               /\ pc' \in {"lost", "rInit"}
<1>1. cur \in Slaves /\ "op" \in Requests /\ "ack" \in Requests /\ "init" \in Requests
  BY DEF TypeOK, Requests, AL
<1>2. cur' = cur /\ main' = main
  BY DEF handleErrors, owner
<1>3. CASE UNCHANGED <<ctrl, state>> /\ pc' \in {"lost", "recheck"}
  BY <1>2, <1>3
<1>4. CASE state[cur] = <<"safeop", TRUE>> /\ Asks(cur, "ack") /\ pc' = "lost" /\ UNCHANGED state
  BY <1>1, <1>2, <1>4, AsksKeeps
<1>5. CASE /\ Faulty(cur) /\ state' = [state EXCEPT ![cur] = <<"op", FALSE>>]
           /\ Asks(cur, "op") /\ pc' = "lost"
  <2>1. \A t \in Slaves \ {cur} : state'[t] = state[t]
    BY <1>5 DEF TypeOK
  <2>2. QED
    BY <1>1, <1>2, <1>5, <2>1, AsksKeeps
<1>6. CASE /\ Faulty(cur) /\ state[cur] # None /\ state[cur][1] # "safeop"
           /\ Asks(cur, "init") /\ pc' \in {"lost", "rInit"} /\ UNCHANGED state
  BY <1>1, <1>2, <1>6, AsksKeeps
<1>7. QED
  BY <1>3, <1>4, <1>5, <1>6 DEF handleErrors

(* ec_reconfig_slave: whom it asks for what.                               *)
LEMMA ReconfigAsks ==
  ASSUME TypeOK, reconfigInit \/ reconfigPre \/ reconfigSafe \/ reconfigFmmu
  PROVE  /\ cur' = cur /\ main' = main
         /\ \A t \in Slaves \ {cur} : ctrl'[t] = ctrl[t] /\ state'[t] = state[t]
         /\ \/ ctrl' = ctrl /\ pc' \in {"lost", "rFmmu"}
            \/ /\ pc \in {"rInit", "rPre"} /\ pc' \in {"rPre", "rSafe"}
               /\ ctrl'[cur] \in {"preop", "safeop", ctrl[cur]}
<1>1. cur \in Slaves /\ "preop" \in Requests /\ "safeop" \in Requests
  BY DEF TypeOK, Requests, AL
<1>2. cur' = cur /\ main' = main
  BY DEF reconfigInit, reconfigPre, reconfigSafe, reconfigFmmu, owner
<1>3. \A t \in Slaves \ {cur} : state'[t] = state[t]
  BY DEF reconfigInit, reconfigPre, reconfigSafe, reconfigFmmu, TypeOK
<1>4. CASE ctrl' = ctrl /\ pc' \in {"lost", "rFmmu"}
  BY <1>2, <1>3, <1>4
<1>5. CASE pc = "rInit" /\ pc' = "rPre" /\ Asks(cur, "preop")
  BY <1>1, <1>2, <1>3, <1>5, AsksKeeps
<1>6. CASE pc = "rPre" /\ pc' = "rSafe" /\ Asks(cur, "safeop")
  BY <1>1, <1>2, <1>3, <1>6, AsksKeeps
<1>7. QED
  BY <1>4, <1>5, <1>6 DEF reconfigInit, reconfigPre, reconfigSafe, reconfigFmmu, Reconfigured

(* A slave about to be reconfigured is below OPERATIONAL.                  *)
LEMMA ReconfiguredIsSunk ==
  ASSUME TypeOK, ReadStill(cur), Faulty(cur), state[cur] # None, state[cur][1] # "safeop"
  PROVE  Sunk(cur)
<1>1. cur \in Slaves /\ state[cur] \in Seen
  BY DEF TypeOK
<1>2. /\ state[cur] = <<state[cur][1], state[cur][2]>>
      /\ state[cur][1] \in Status /\ state[cur][2] \in BOOLEAN
  BY <1>1, SeenPair
<1>3. state[cur][1] \in {"none", "op"} => FALSE
  <2>1. state[cur] \notin {<<"op", TRUE>>, <<"none", TRUE>>, <<"op", FALSE>>, <<"none", FALSE>>}
    BY DEF ReadStill, Faulty, None
  <2>2. QED
    BY <1>2, <2>1
<1>4. state[cur][1] \in {"init", "preop", "boot"}
  BY <1>2, <1>3 DEF Status, AL
<1>5. state[cur] \in Low
  BY <1>1, <1>4 DEF Low
<1>6. QED
  BY <1>5 DEF ReadStill

LEMMA SupervisionStep ==
  ASSUME TypeOK, CycleInv, CycleStep, main = "run", main' = "run", pc' # "top"
  PROVE  Supervision'
<1>1. UNCHANGED <<al, err>> /\ cur \in Slaves
  BY ThreadsLeaveStates DEF TypeOK
<1>2. CASE cycleWorker
  <2>1. pc' \in {"top", "end", "readB"}
    BY <1>2 DEF cycleWorker
  <2>2. QED
    BY <2>1 DEF Supervision, Handling
<1>3. CASE readstateAll \/ readstateEach
  <2>1. pc' \in {"readM", "check"}
    BY <1>3 DEF readstateAll, readstateEach, ReadDone
  <2>2. CASE pc' = "check"
    <3>1. cur' \in Slaves
      BY <1>3, ReadstateType DEF TypeOK
    <3>2. \A s \in Slaves : ReadStill(s)'
      BY <1>3, <2>2, ReadstateFinds DEF CycleInv
    <3>3. QED
      BY <2>2, <3>1, <3>2 DEF Supervision, ReadStill, Sunk
  <2>3. CASE pc' = "readM"
    BY <2>3 DEF Supervision, Handling
  <2>4. QED
    BY <2>1, <2>2, <2>3
<1>4. CASE handleErrors
  <2>1. pc = "check" /\ ReadStill(cur) /\ \A t \in Slaves : t > cur => ReadStill(t)
    BY <1>4 DEF handleErrors, CycleInv, Supervision, Handling
  <2>2. cur' = cur /\ \A t \in Slaves : t > cur' => ReadStill(t)'
    BY <1>1, <1>4, <2>1, HandleErrorsAsks, BehindKept
  <2>3. pc' \in {"lost", "recheck", "rInit"}
    BY <1>4, HandleErrorsAsks
  <2>4. pc' = "rInit" => Sunk(cur)'
    <3>1. SUFFICES ASSUME pc' = "rInit" PROVE Sunk(cur)'
      OBVIOUS
    <3>2. /\ Faulty(cur) /\ state[cur] # None /\ state[cur][1] # "safeop"
          /\ ctrl'[cur] \in {"init", ctrl[cur]}
      BY <1>4, <3>1, HandleErrorsAsks
    <3>3. Sunk(cur)
      BY <2>1, <3>2, ReconfiguredIsSunk
    <3>4. QED
      BY <1>1, <2>2, <3>2, <3>3 DEF Sunk
  <2>5. QED
    BY <2>2, <2>3, <2>4 DEF Supervision
<1>5. CASE reconfigInit \/ reconfigPre \/ reconfigSafe \/ reconfigFmmu
  <2>1. pc \in {"rInit", "rPre", "rSafe", "rFmmu"}
    BY <1>5 DEF reconfigInit, reconfigPre, reconfigSafe, reconfigFmmu
  <2>2. \A t \in Slaves : t > cur => ReadStill(t)
    BY <2>1 DEF CycleInv, Supervision, Handling
  <2>3. cur' = cur /\ \A t \in Slaves : t > cur' => ReadStill(t)'
    BY <1>1, <1>5, <2>2, ReconfigAsks, BehindKept
  <2>4. CASE pc' \in {"lost", "rFmmu"}
    BY <2>3, <2>4 DEF Supervision
  <2>5. CASE pc \in {"rInit", "rPre"} /\ ctrl'[cur] \in {"preop", "safeop", ctrl[cur]}
             /\ pc' \in {"rPre", "rSafe"}
    <3>1. Sunk(cur)
      BY <2>5 DEF CycleInv, Supervision
    <3>2. Sunk(cur)'
      BY <1>1, <2>3, <2>5, <3>1 DEF Sunk
    <3>3. QED
      BY <2>3, <2>5, <3>2 DEF Supervision
  <2>6. QED
    BY <1>5, <2>4, <2>5, ReconfigAsks
<1>6. CASE recheck
  <2>1. /\ pc = "recheck" /\ pc' = "lost" /\ cur' = cur /\ ctrl' = ctrl
        /\ \A t \in Slaves \ {cur} : state'[t] = state[t]
    BY <1>6 DEF recheck, TypeOK
  <2>2. \A t \in Slaves : t > cur => ReadStill(t)
    BY <2>1 DEF CycleInv, Supervision, Handling
  <2>3. \A t \in Slaves : t > cur' => ReadStill(t)'
    BY <1>1, <2>1, <2>2, BehindKept
  <2>4. QED
    BY <2>1, <2>3 DEF Supervision
<1>7. CASE handleLost \/ readdress
  <2>1. /\ pc \in {"lost", "readdress"} /\ UNCHANGED <<ctrl, state>>
        /\ NextSlave \/ (pc' = "readdress" /\ cur' = cur)
    BY <1>7 DEF handleLost, readdress
  <2>2. \A t \in Slaves : t > cur => ReadStill(t)
    BY <2>1 DEF CycleInv, Supervision, Handling
  <2>3. CASE NextSlave
    <3>1. pc' = "check" /\ ReadStill(cur)' /\ \A t \in Slaves : t > cur' => ReadStill(t)'
      BY <1>1, <2>1, <2>2, <2>3, NextSlaveKeeps
    <3>2. QED
      BY <3>1 DEF Supervision
  <2>4. CASE pc' = "readdress" /\ cur' = cur
    <3>1. \A t \in Slaves : t > cur' => ReadStill(t)'
      BY <1>1, <2>1, <2>2, <2>4, BehindKept
    <3>2. QED
      BY <2>4, <3>1 DEF Supervision
  <2>5. QED
    BY <2>1, <2>3, <2>4
<1>8. QED
  BY <1>2, <1>3, <1>4, <1>5, <1>6, <1>7 DEF CycleStep

LEMMA IoKeptStep ==
  ASSUME TypeOK, CycleInv, CycleStep \/ OwnerStep \/ destroy
  PROVE  IoKept'
<1> SUFFICES ASSUME main' \in {"request", "await", "refresh", "run"}, Io \in Slaves
             PROVE  al'[Io] # "op" /\ ctrl'[Io] # "op"
  BY DEF IoKept
<1>1. UNCHANGED al
  BY ThreadsLeaveStates
<1>2. CASE CycleStep
  <2>1. main \in {"request", "await", "refresh", "run"}
    <3>1. CASE readstateAll \/ readstateEach
      BY <3>1 DEF readstateAll, readstateEach, ReadDone
    <3>2. CASE handleErrors \/ reconfigInit \/ reconfigPre \/ reconfigSafe \/ reconfigFmmu
      BY <3>2, HandleErrorsAsks, ReconfigAsks
    <3>3. CASE cycleWorker \/ recheck \/ handleLost \/ readdress
      BY <3>3 DEF cycleWorker, recheck, handleLost, readdress, owner
    <3>4. QED
      BY <1>2, <3>1, <3>2, <3>3 DEF CycleStep
  <2>2. al[Io] # "op" /\ ctrl[Io] # "op"
    BY <2>1 DEF CycleInv, IoKept
  <2>3. CASE handleErrors
    BY <1>1, <2>2, <2>3, HandleErrorsAsks DEF Faulty
  <2>4. CASE reconfigInit \/ reconfigPre \/ reconfigSafe \/ reconfigFmmu
    BY <1>1, <2>2, <2>4, ReconfigAsks
  <2>5. CASE cycleWorker \/ readstateAll \/ readstateEach \/ recheck \/ handleLost \/ readdress
    BY <1>1, <2>2, <2>5 DEF cycleWorker, readstateAll, readstateEach, recheck, handleLost, readdress
  <2>6. QED
    BY <1>2, <2>3, <2>4, <2>5 DEF CycleStep
<1>3. CASE initSoem
  <2>1. al[Io] # "op" /\ ctrl[Io] # "op"
    BY <1>3 DEF CycleInv, IoKept, initSoem
  <2>2. ctrl'[Io] = ctrl[Io]
    <3>1. CASE cur \in Drives
      BY <1>3, <3>1, AsksKeeps DEF initSoem, Drives, Requests, AL
    <3>2. CASE cur \notin Drives
      BY <1>3, <3>2 DEF initSoem
    <3>3. QED
      BY <3>1, <3>2
  <2>3. QED
    BY <1>1, <2>1, <2>2
<1>4. CASE initAwait
  BY <1>1, <1>4 DEF CycleInv, IoKept, initAwait
<1>5. CASE destroy \/ markInit \/ broadcastState \/ ec_close \/ join
  BY <1>5 DEF destroy, markInit, broadcastState, ec_close, join
<1>6. QED
  BY <1>2, <1>3, <1>4, <1>5 DEF OwnerStep

LEMMA NoThreadStep ==
  ASSUME TypeOK, CycleInv, CycleStep \/ OwnerStep \/ destroy
  PROVE  NoThread'
<1>1. CASE readstateAll \/ readstateEach
  BY <1>1 DEF readstateAll, readstateEach, ReadDone, CycleInv, NoThread
<1>2. CASE handleErrors \/ reconfigInit \/ reconfigPre \/ reconfigSafe \/ reconfigFmmu
  <2>1. pc \in Handling /\ main' = main
    BY <1>2 DEF handleErrors, reconfigInit, reconfigPre, reconfigSafe, reconfigFmmu, Handling, owner
  <2>2. QED
    BY <2>1 DEF CycleInv, NoThread, Handling
<1>3. CASE cycleWorker \/ recheck \/ handleLost \/ readdress
  BY <1>3 DEF cycleWorker, recheck, handleLost, readdress, owner, CycleInv, NoThread
<1>4. CASE initSoem \/ initAwait
  BY <1>4 DEF initSoem, initAwait, CycleInv, NoThread
<1>5. CASE destroy \/ markInit \/ broadcastState \/ ec_close \/ join
  BY <1>5 DEF destroy, markInit, broadcastState, ec_close, join, NoThread
<1>6. QED
  BY <1>1, <1>2, <1>3, <1>4, <1>5 DEF CycleStep, OwnerStep

LEMMA ThreadsInv ==
  ASSUME TypeOK, CycleInv, CycleStep \/ OwnerStep \/ destroy
  PROVE  CycleInv'
<1>1. IoKept' /\ NoThread'
  BY IoKeptStep, NoThreadStep
<1>2. OpClean'
  BY ThreadsLeaveStates DEF CycleInv, OpClean
<1>3. Supervision'
  <2>1. CASE main' # "run"
    BY <2>1 DEF Supervision
  <2>2. CASE pc' = "top"
    BY <2>2 DEF Supervision, Handling
  <2>3. CASE main' = "run" /\ pc' # "top" /\ CycleStep
    BY <2>3, RunBegins, SupervisionStep
  <2>4. CASE main' = "run" /\ (OwnerStep \/ destroy)
    <3>1. main # "run" \/ main' = "mark"
      BY <2>4 DEF OwnerStep, initSoem, initAwait, destroy, markInit, broadcastState, ec_close, join
    <3>2. main = "run" \/ pc' = "top"
      BY <2>4, RunBegins
    <3>3. QED
      BY <2>2, <2>4, <3>1, <3>2
  <2>5. QED
    BY <2>1, <2>2, <2>3, <2>4
<1>4. QED
  BY <1>1, <1>2, <1>3 DEF CycleInv

LEMMA SlaveInv ==
  ASSUME TypeOK, CycleInv, NEW s \in Slaves, Accept(s) \/ Refuse(s) \/ Upset(s)
  PROVE  CycleInv'
<1>1. /\ UNCHANGED <<table, pc, cur, owner>>
      /\ OpClean'
      /\ \A t \in Slaves : Sunk(t) => Sunk(t)'
      /\ \A t \in Slaves : al[t] # "op" /\ ctrl[t] # "op" => al'[t] # "op" /\ ctrl'[t] # "op"
  BY SlaveKeeps DEF CycleInv
<1>2. UNCHANGED <<state, pc, cur, main>> /\ cur \in Slaves
  BY <1>1 DEF table, owner, TypeOK
<1>3. \A t \in Slaves : ReadStill(t) => ReadStill(t)'
  BY <1>1, <1>2 DEF ReadStill
<1>4. IoKept' /\ NoThread'
  BY <1>1, <1>2 DEF CycleInv, IoKept, NoThread
<1>5. Sunk(cur) => Sunk(cur)'
  BY <1>1, <1>2 DEF Sunk
<1>6. ReadStill(cur) => ReadStill(cur)'
  BY <1>2, <1>3 DEF ReadStill, Sunk
<1>7. Supervision'
  BY <1>2, <1>3, <1>5, <1>6 DEF CycleInv, Supervision
<1>8. QED
  BY <1>1, <1>4, <1>7 DEF CycleInv

(* While the manager lives, what the cycle thread has read of the slaves   *)
(* is out of date in harmless ways only, a slave being reconfigured stays  *)
(* below OPERATIONAL, and nobody has asked the IO slave to be operational. *)
THEOREM CycleInvariant == Spec => []CycleInv
<1>1. Init => CycleInv
  BY DEF Init, CycleInv, IoKept, OpClean, NoThread, Supervision
<1>2. TypeOK /\ CycleInv /\ [Next]_vars => CycleInv'
  <2> SUFFICES ASSUME TypeOK, CycleInv, [Next]_vars PROVE CycleInv'
    OBVIOUS
  <2>1. CASE CycleStep \/ OwnerStep \/ destroy
    BY <2>1, ThreadsInv
  <2>2. CASE \E s \in Slaves : Accept(s) \/ Refuse(s) \/ Upset(s)
    BY <2>2, SlaveInv
  <2>3. CASE UNCHANGED vars
    BY <2>3 DEF vars, slaves, table, owner, CycleInv, IoKept, OpClean, NoThread, Supervision,
                ReadStill, Sunk
  <2>4. QED
    BY <2>1, <2>2, <2>3 DEF Next
<1>3. QED
  BY <1>1, <1>2, CycleTypeCorrect, PTL DEF Spec

(* As long as the manager lives the IO slave is not operational (initSoem  *)
(* and handleErrors leave slave 4 out).                                    *)
THEOREM IoStaysOut == Spec => []IoNotOperational
<1>1. CycleInv => IoNotOperational
  BY DEF CycleInv, IoKept, IoNotOperational
<1>2. QED
  BY <1>1, CycleInvariant, PTL

(* handleErrors never sends an operational slave away, however late and    *)
(* incomplete what it has read, and however late the slaves.               *)
THEOREM SupervisionDisturbsNot == Spec => Undisturbed
<1> DEFINE Asking(s) == al[s] = "op" /\ ctrl[s] = "none" /\ main = "run" => ctrl'[s] \in {"none", "op"}
<1>1. TypeOK /\ CycleInv /\ [Next]_vars => [\A s \in Slaves : Asking(s)]_vars
  <2> SUFFICES ASSUME TypeOK, CycleInv, Next, NEW s \in Slaves,
                      al[s] = "op", ctrl[s] = "none", main = "run"
               PROVE  ctrl'[s] \in {"none", "op"}
    OBVIOUS
  <2>1. CASE handleErrors
    <3>1. ReadStill(cur) /\ cur \in Slaves
      BY <2>1 DEF handleErrors, CycleInv, Supervision, TypeOK
    <3>2. <<"safeop", TRUE>> \in Low
      BY DEF Low
    <3>3. state[cur] = <<"safeop", TRUE>> => s # cur
      BY <3>1, <3>2 DEF ReadStill, Sunk
    <3>4. Faulty(cur) /\ state[cur] # None /\ state[cur][1] # "safeop" => s # cur
      BY <3>1, ReconfiguredIsSunk DEF Sunk
    <3>5. QED
      BY <2>1, <3>1, <3>3, <3>4, HandleErrorsAsks
  <2>2. CASE reconfigInit \/ reconfigPre \/ reconfigSafe \/ reconfigFmmu
    <3>1. pc \in {"rInit", "rPre"} => s # cur
      BY DEF CycleInv, Supervision, Sunk
    <3>2. QED
      BY <2>2, <3>1, ReconfigAsks
  <2>3. CASE cycleWorker \/ readstateAll \/ readstateEach \/ recheck \/ handleLost \/ readdress
    BY <2>3 DEF cycleWorker, readstateAll, readstateEach, recheck, handleLost, readdress
  <2>4. CASE OwnerStep \/ destroy
    BY <2>4 DEF OwnerStep, initSoem, initAwait, destroy, markInit, broadcastState, ec_close, join
  <2>5. CASE \E t \in Slaves : Accept(t) \/ Refuse(t) \/ Upset(t)
    BY <2>5, SlaveKeeps DEF CycleInv
  <2>6. QED
    BY <2>1, <2>2, <2>3, <2>4, <2>5 DEF Next, CycleStep
<1>2. QED
  BY <1>1, CycleTypeCorrect, CycleInvariant, PTL DEF Spec, Undisturbed

-----------------------------------------------------------------------------
(* OperationalMapped.  No step of ec_reconfig_slave looks at whether the   *)
(* FMMUs were written, so what is proved is that this is the only way.     *)

Gone == main \in {"close", "join", "dead"}

(* s has no FMMUs, and no write of them was tried in vain.                 *)
Bare(s) == ~fmmu[s] /\ s \notin missed

(* The cycle thread has yet to come to s in this pass.                     *)
Ahead(s) == pc \in Handling /\ (cur < s \/ (cur = s /\ pc = "check"))

(* Such a slave is in SAFE_OP, or asked to be, only between the request of *)
(* ec_reconfig_slave and its write of the FMMUs; nobody asks for           *)
(* OPERATIONAL, and what the cycle thread has read of it gives no reason   *)
(* to.                                                                     *)
Held(s) ==
  /\ al[s] # "op" /\ ctrl[s] # "op"
  /\ al[s] = "safeop" \/ ctrl[s] \in {"safeop", "ack"} => cur = s /\ pc \in {"rSafe", "rFmmu"}
  /\ addr[s] = "own" => pc # "none" /\ (Ahead(s) => state[s][1] # "safeop")

MappingInv ==
  \A s \in Slaves :
    /\ al[s] \in {"safeop", "op"} => sm[s]
    /\ ~Gone /\ Bare(s) => Held(s)

(* A slave comes into SAFE_OP with sync managers only.                     *)
LEMMA SlaveSm ==
  ASSUME TypeOK, NEW s \in Slaves, NEW t \in Slaves, Accept(t) \/ Refuse(t) \/ Upset(t),
         al[s] \in {"safeop", "op"} => sm[s]
  PROVE  al'[s] \in {"safeop", "op"} => sm'[s]
<1>1. CASE s # t \/ Refuse(s) \/ Upset(s)
  BY <1>1 DEF Accept, Refuse, Upset, Drop, Unplug, Replug, TypeOK
<1>2. CASE Accept(s)
  <2>1. al'[s] = Asked(ctrl[s]) /\ sm' = sm /\ Legal(s, ctrl[s])
    BY <1>2 DEF Accept, TypeOK
  <2>2. ASSUME Code[Asked(ctrl[s])] <= Code[al[s]], al[s] \notin {"safeop", "op"}
        PROVE  Asked(ctrl[s]) \notin {"safeop", "op"}
    BY <2>2, CodeOf DEF TypeOK, AL
  <2>3. QED
    BY <2>1, <2>2 DEF Legal, Asked
<1>3. QED
  BY <1>1, <1>2

(* Nothing a slave does takes a bare one above where it is held.           *)
LEMMA SlaveHolds ==
  ASSUME TypeOK, NEW s \in Slaves, NEW t \in Slaves, Accept(t) \/ Refuse(t) \/ Upset(t),
         Bare(s) => Held(s), Bare(s)'
  PROVE  Held(s)'
<1>1. UNCHANGED <<state, pc, cur>>
  BY DEF Accept, Refuse, Upset, Drop, Unplug, Replug, table
<1>2. CASE s # t
  <2>1. UNCHANGED <<addr[s], al[s], ctrl[s], fmmu[s], s \in missed>>
    BY <1>2 DEF Accept, Refuse, Upset, Drop, Unplug, Replug, TypeOK
  <2>2. QED
    BY <1>1, <2>1 DEF Bare, Held, Ahead
<1>3. CASE Accept(s)
  <2>1. al'[s] = Asked(ctrl[s]) /\ ctrl'[s] = "none" /\ UNCHANGED <<addr, fmmu, missed>>
    BY <1>3 DEF Accept, TypeOK
  <2>2. QED
    BY <1>1, <2>1 DEF Bare, Held, Asked, Ahead
<1>4. CASE Refuse(s)
  BY <1>1, <1>4 DEF Refuse, Bare, Held, Ahead, TypeOK
<1>5. CASE Upset(s)
  <2>1. \/ UNCHANGED <<addr[s], al[s], ctrl[s], fmmu[s], missed>>
        \/ al[s] = "op" /\ al'[s] = "safeop" /\ UNCHANGED <<addr, ctrl, fmmu, missed>>
        \/ al'[s] = "init" /\ ctrl'[s] = "none" /\ addr'[s] = "zero"
    BY <1>5 DEF Upset, Drop, Unplug, Replug, TypeOK
  <2>2. QED
    BY <1>1, <2>1 DEF Bare, Held, Ahead
<1>6. QED
  BY <1>2, <1>3, <1>4, <1>5

(* Threads take nothing from a slave but its address, and give it back in  *)
(* readdress only.                                                         *)
LEMMA ThreadsLeave ==
  ASSUME TypeOK, NEW s \in Slaves, CycleStep \/ OwnerStep \/ destroy
  PROVE  /\ UNCHANGED <<on, al, err>>
         /\ sm[s] => sm'[s]
         /\ Bare(s)' => Bare(s)
         /\ reconfigFmmu /\ cur = s => ~Bare(s)'
         /\ addr'[s] = "own" => addr[s] = "own" \/ (readdress /\ cur = s)
<1>1. UNCHANGED <<on, al, err>>
  BY ThreadsLeaveStates
<1>2. CASE reconfigInit
  BY <1>1, <1>2 DEF reconfigInit, reconfigFmmu, Programs, TypeOK, Bare
<1>3. CASE reconfigFmmu
  <2>1. UNCHANGED <<addr, sm>> /\ cur \in Slaves /\ Programs(fmmu, cur)
    BY <1>3 DEF reconfigFmmu, TypeOK
  <2>2. fmmu[s] => fmmu'[s]
    BY <2>1 DEF Programs, TypeOK
  <2>3. missed' = IF fmmu'[cur] THEN missed \ {cur} ELSE missed \cup {cur}
    BY <1>3 DEF reconfigFmmu
  <2>4. Bare(s)' => Bare(s) /\ cur # s
    BY <2>2, <2>3 DEF Bare
  <2>5. QED
    BY <1>1, <2>1, <2>4
<1>4. CASE handleLost
  <2>1. addr' = addr \/ addr' = MakeTemp
    BY <1>4 DEF handleLost
  <2>2. addr' = MakeTemp => addr'[s] \in {"temp", "zero", addr[s]}
    BY DEF MakeTemp
  <2>3. UNCHANGED <<sm, fmmu, missed>> /\ pc = "lost"
    BY <1>4 DEF handleLost
  <2>4. QED
    BY <1>1, <2>1, <2>2, <2>3 DEF Bare, reconfigFmmu
<1>5. CASE readdress
  <2>1. addr' = addr \/ \E a \in {"own", "zero"} : addr' = [addr EXCEPT ![cur] = a]
    BY <1>5 DEF readdress
  <2>2. UNCHANGED <<sm, fmmu, missed>> /\ pc = "readdress"
    BY <1>5 DEF readdress
  <2>3. QED
    BY <1>1, <1>5, <2>1, <2>2 DEF Bare, reconfigFmmu, TypeOK
<1>6. CASE cycleWorker \/ readstateAll \/ readstateEach \/ handleErrors \/ reconfigPre
           \/ reconfigSafe \/ recheck
  <2>1. UNCHANGED slaves /\ pc # "rFmmu"
    BY <1>6 DEF cycleWorker, readstateAll, readstateEach, handleErrors, reconfigPre, reconfigSafe,
                recheck
  <2>2. QED
    BY <2>1 DEF slaves, Bare, reconfigFmmu
<1>7. CASE OwnerStep \/ destroy
  <2>1. UNCHANGED slaves /\ (main' # main \/ pc' = pc)
    BY <1>7 DEF OwnerStep, initSoem, initAwait, destroy, markInit, broadcastState, ec_close, join
  <2>2. reconfigFmmu => main' = main /\ pc' # pc
    BY DEF reconfigFmmu, Reconfigured, owner
  <2>3. QED
    BY <2>1, <2>2 DEF slaves, Bare
<1>8. QED
  BY <1>2, <1>3, <1>4, <1>5, <1>6, <1>7 DEF CycleStep

(* What ec_readstate stores of a slave that is bare is not SAFE_OP.        *)
LEMMA BareReads ==
  ASSUME TypeOK, NEW s \in Slaves, readstateAll \/ readstateEach, al[s] # "safeop", pc' = "check"
  PROVE  state'[s][1] # "safeop"
<1>1. CASE readstateAll
  <2>1. Ored # "none" /\ on[s] /\ state' = [t \in Slaves |-> <<Ored, FALSE>>]
    BY <1>1 DEF readstateAll
  <2>2. al[s] \in {al[t] : t \in {x \in Slaves : on[x]}}
    BY <2>1
  <2>3. Ored # "safeop"
    BY <2>2 DEF Ored
  <2>4. state'[s] = <<Ored, FALSE>>
    BY <2>1
  <2>5. QED
    BY <2>3, <2>4
<1>2. CASE readstateEach
  <2>1. state'[s] = <<al[s], err[s]>> \/ state'[s] = <<"none", FALSE>>
    BY <1>2 DEF readstateEach, None
  <2>2. \A v, b : <<v, b>>[1] = v
    OBVIOUS
  <2>3. QED
    BY <2>1, <2>2, Zenon
<1>3. QED
  BY <1>1, <1>2

(* The steps of a pass: only ec_reconfig_slave asks a bare slave for       *)
(* SAFE_OP, and no step asks one for OPERATIONAL.                          *)
LEMMA CycleHolds ==
  ASSUME TypeOK, NEW s \in Slaves, CycleStep, Held(s), Bare(s)'
  PROVE  Held(s)'
<1>0. /\ UNCHANGED al /\ ~(reconfigFmmu /\ cur = s) /\ cur \in Slaves
      /\ addr'[s] = "own" => addr[s] = "own" \/ (readdress /\ cur = s)
  BY ThreadsLeave DEF TypeOK
<1>1. CASE cycleWorker
  BY <1>0, <1>1 DEF cycleWorker, slaves, table, Held, Ahead, Handling
<1>2. CASE readstateAll \/ readstateEach
  <2>1. UNCHANGED <<slaves, ctrl>> /\ pc \in {"readB", "readM"} /\ pc' \in {"check", "top", "readM"}
    BY <1>2 DEF readstateAll, readstateEach, ReadDone
  <2>2. al[s] # "safeop"
    BY <2>1 DEF Held
  <2>3. pc' = "check" => state'[s][1] # "safeop"
    BY <1>2, <2>2, BareReads
  <2>4. QED
    BY <2>1, <2>2, <2>3 DEF Held, Ahead, Handling, slaves
<1>3. CASE handleErrors
  <2>1. UNCHANGED <<slaves, cur>> /\ pc = "check" /\ pc' \in Handling \ {"check"}
    BY <1>3 DEF handleErrors, Handling
  <2>2. state'[s] = state[s] \/ s = cur
    BY <1>3 DEF handleErrors, TypeOK
  <2>3. ctrl'[s] = ctrl[s] \/ (s = cur /\ addr[s] = "own" /\ (state[s][1] = "safeop" \/ ctrl'[s] = "init"))
    <3>1. \/ ctrl' = ctrl
          \/ state[cur] = <<"safeop", TRUE>> /\ Asks(cur, "ack")
          \/ state[cur] = <<"safeop", FALSE>> /\ Asks(cur, "op")
          \/ Asks(cur, "init")
      BY <1>3 DEF handleErrors
    <3>2. ASSUME NEW v, Asks(cur, v)
          PROVE  ctrl'[s] = ctrl[s] \/ (s = cur /\ addr[s] = "own" /\ ctrl'[s] = v)
      BY <1>0, <3>2 DEF Asks, Reachable, TypeOK
    <3>3. \A b \in BOOLEAN : <<"safeop", b>>[1] = "safeop"
      OBVIOUS
    <3>4. QED
      BY <3>1, <3>2, <3>3
  <2>4. s = cur /\ addr[s] = "own" => state[s][1] # "safeop"
    BY <1>0, <2>1 DEF Held, Ahead, Handling
  <2>5. ctrl'[s] \in {ctrl[s], "init"}
    BY <2>3, <2>4
  <2>6. Ahead(s)' => Ahead(s) /\ s # cur
    BY <1>0, <2>1, FirstSlave DEF Ahead, Handling
  <2>7. al[s] # "safeop" /\ ctrl[s] \notin {"safeop", "ack"}
    BY <2>1 DEF Held
  <2>8. addr'[s] = addr[s] /\ pc' # "none"
    BY <2>1 DEF slaves, Handling
  <2>9. QED
    BY <1>0, <2>2, <2>5, <2>6, <2>7, <2>8 DEF Held
<1>4. CASE reconfigInit \/ reconfigPre \/ reconfigSafe \/ reconfigFmmu
  <2>1. UNCHANGED <<addr, cur>> /\ pc' \in {"rPre", "rSafe", "rFmmu", "lost"} /\ pc \in Handling \ {"check"}
    BY <1>4 DEF reconfigInit, reconfigPre, reconfigSafe, reconfigFmmu, Reconfigured, slaves, Handling
  <2>2. state'[s] = state[s] \/ s = cur
    BY <1>4 DEF reconfigInit, reconfigPre, reconfigSafe, reconfigFmmu, TypeOK
  <2>3. ctrl'[s] \in {ctrl[s], "preop"} \/ (s = cur /\ ctrl'[s] = "safeop" /\ pc' = "rSafe")
    BY <1>0, <1>4, AsksKeeps DEF reconfigInit, reconfigPre, reconfigSafe, reconfigFmmu, Requests, AL
  <2>4. pc \in {"rSafe", "rFmmu"} /\ cur = s => pc' = "rFmmu"
    BY <1>0, <1>4 DEF reconfigInit, reconfigPre, reconfigSafe
  <2>5. Ahead(s)' => Ahead(s) /\ s # cur
    BY <2>1 DEF Ahead, Handling, Slaves, TypeOK
  <2>6. QED
    BY <1>0, <2>1, <2>2, <2>3, <2>4, <2>5 DEF Held
<1>5. CASE recheck \/ handleLost \/ readdress
  <2>1. UNCHANGED ctrl /\ pc \in {"recheck", "lost", "readdress"} /\ pc' \in {"top", "check", "lost", "readdress"}
    BY <1>5 DEF recheck, handleLost, readdress, NextSlave
  <2>2. state'[s] = state[s] \/ s = cur
    BY <1>5 DEF recheck, handleLost, readdress, TypeOK
  <2>3. Ahead(s)' => Ahead(s) /\ s # cur
    <3>1. (cur' = cur /\ pc' # "check") \/ pc' = "top" \/ cur' = cur + 1
      BY <1>5 DEF recheck, handleLost, readdress, NextSlave
    <3>2. cur \in Nat /\ s \in Nat
      BY <1>0, FirstSlave
    <3>3. QED
      BY <2>1, <3>1, <3>2 DEF Ahead, Handling
  <2>4. al[s] # "safeop" /\ ctrl[s] \notin {"safeop", "ack"}
    BY <2>1 DEF Held
  <2>5. QED
    BY <1>0, <2>1, <2>2, <2>3, <2>4 DEF Held
<1>6. QED
  BY <1>1, <1>2, <1>3, <1>4, <1>5 DEF CycleStep

(* initSoem can ask no bare slave: none has its address before the cycle   *)
(* thread starts.                                                          *)
LEMMA OwnerHolds ==
  ASSUME TypeOK, NoThread, NEW s \in Slaves, OwnerStep \/ destroy, ~Gone', Held(s), Bare(s)'
  PROVE  Held(s)'
<1>1. UNCHANGED slaves
  BY ThreadsLeaveStates DEF OwnerStep, initSoem, initAwait, destroy, markInit, broadcastState, ec_close, join
<1>2. CASE initSoem \/ initAwait
  <2>1. pc = "none" /\ pc' \in {"none", "readB"}
    BY <1>2 DEF initSoem, initAwait, NoThread
  <2>2. addr[s] # "own" /\ al[s] # "safeop" /\ ctrl[s] \notin {"safeop", "ack"}
    BY <2>1 DEF Held
  <2>3. ctrl'[s] = ctrl[s]
    BY <1>2, <2>2 DEF initSoem, initAwait, Asks, Reachable, TypeOK
  <2>4. QED
    BY <1>1, <2>1, <2>2, <2>3 DEF Held, slaves
<1>3. CASE destroy \/ markInit
  BY <1>1, <1>3 DEF destroy, markInit, slaves, table, Held, Ahead
<1>4. CASE broadcastState \/ ec_close \/ join
  BY <1>4 DEF broadcastState, ec_close, join, Gone
<1>5. QED
  BY <1>2, <1>3, <1>4 DEF OwnerStep

(* Once the destructor has broadcast it stays so.                          *)
LEMMA GoneStays ==
  ASSUME NoThread, Gone, CycleStep \/ OwnerStep \/ destroy
  PROVE  Gone'
<1>1. CASE CycleStep
  BY <1>1 DEF CycleStep, cycleWorker, readstateAll, readstateEach, ReadDone, handleErrors,
              reconfigInit, reconfigPre, reconfigSafe, reconfigFmmu, recheck, handleLost, readdress,
              owner, Gone
<1>2. CASE OwnerStep \/ destroy
  BY <1>2 DEF OwnerStep, initSoem, initAwait, destroy, markInit, broadcastState, ec_close, join, Gone
<1>3. QED
  BY <1>1, <1>2

LEMMA MappingStep ==
  ASSUME TypeOK, CycleInv, MappingInv, Next
  PROVE  MappingInv'
<1> SUFFICES ASSUME NEW s \in Slaves
             PROVE  /\ al'[s] \in {"safeop", "op"} => sm'[s]
                    /\ ~Gone' /\ Bare(s)' => Held(s)'
  BY DEF MappingInv
<1>1. CASE CycleStep \/ OwnerStep \/ destroy
  <2>1. al'[s] = al[s] /\ (sm[s] => sm'[s]) /\ (Bare(s)' => Bare(s))
    BY <1>1, ThreadsLeave
  <2>2. ASSUME ~Gone', Bare(s)'
        PROVE  Held(s)'
    <3>1. Held(s)
      BY <1>1, <2>1, <2>2, GoneStays DEF MappingInv, CycleInv
    <3>2. QED
      BY <1>1, <2>2, <3>1, CycleHolds, OwnerHolds DEF CycleInv
  <2>3. QED
    BY <2>1, <2>2 DEF MappingInv
<1>2. CASE \E t \in Slaves : Accept(t) \/ Refuse(t) \/ Upset(t)
  <2>1. PICK t \in Slaves : Accept(t) \/ Refuse(t) \/ Upset(t)
    BY <1>2
  <2>2. Gone' = Gone
    BY <2>1, SlaveKeeps DEF CycleInv, owner, Gone
  <2>3. al'[s] \in {"safeop", "op"} => sm'[s]
    BY <2>1, SlaveSm DEF MappingInv
  <2>4. ASSUME ~Gone', Bare(s)'
        PROVE  Held(s)'
    BY <2>1, <2>2, <2>4, SlaveHolds DEF MappingInv
  <2>5. QED
    BY <2>3, <2>4
<1>3. QED
  BY <1>1, <1>2 DEF Next

(* Whatever datagrams are lost, slaves drop out, lose their power or obey  *)
(* late, and as often as they do: until the destructor's broadcast a slave *)
(* is operational only with its sync managers programmed, and its FMMUs as *)
(* well unless the last write of them since it had power did not arrive.   *)
THEOREM OperationalIsMapped == Spec => []OperationalMapped
<1>1. Init => MappingInv
  BY DEF Init, MappingInv, Bare
<1>2. TypeOK /\ CycleInv /\ MappingInv /\ [Next]_vars => MappingInv'
  <2> SUFFICES ASSUME TypeOK, CycleInv, MappingInv, [Next]_vars PROVE MappingInv'
    OBVIOUS
  <2>1. CASE Next
    BY <2>1, MappingStep
  <2>2. CASE UNCHANGED vars
    BY <2>2 DEF vars, slaves, table, owner, MappingInv, Bare, Held, Ahead, Gone
  <2>3. QED
    BY <2>1, <2>2
<1>3. MappingInv => OperationalMapped
  BY DEF MappingInv, Bare, Held, Gone, OperationalMapped
<1>4. QED
  BY <1>1, <1>2, <1>3, CycleTypeCorrect, CycleInvariant, PTL DEF Spec
=============================================================================
