---------------------------- MODULE Eeprom_proofs ----------------------------
(***************************************************************************)
(* Why the byte cache holds what is in the EEPROM, and why a look-up       *)
(* leaves the control over it to whom it belonged.                         *)
(***************************************************************************)
EXTENDS Eeprom, TLAPS

RegFields == {"busy", "nack", "op", "word", "value", "out"}

RegTyped ==
  /\ reg = [s \in Slaves |-> reg[s]]
  /\ \A s \in Slaves : reg[s] = [f \in RegFields |-> reg[s][f]] /\ reg[s].busy \in BOOLEAN /\ reg[s].nack \in BOOLEAN
                     /\ reg[s].word \in Nat

Typed ==
  /\ slave \in Slaves /\ word \in Nat
  /\ pdi \in [Slaves -> BOOLEAN] /\ eectl \in BOOLEAN /\ trouble \in BOOLEAN
  /\ owner = [s \in Slaves |-> owner[s]] /\ eeprom = [s \in Slaves |-> eeprom[s]]
  /\ RegTyped
  /\ esimap \subseteq DOMAIN esibuf /\ esimap \subseteq Nat

(* Who has the control is what eep_pdi says, but while it is handed over;  *)
(* a command is given by a master that has taken it.                       *)
InHand == pc \in {"force", "set", "restore"}
Owners == \A s \in Slaves : (s = slave /\ InHand) \/ owner[s] = IF pdi[s] THEN "pdi" ELSE "master"
Held   == pc \in {"wait", "clear", "value", "command", "wait again"} \cup
                 (IF call.op = "ident" THEN {} ELSE {"data", "store"}) => ~pdi[slave]

(* A look-up waits until the EEPROM has no command of somebody else before *)
(* it gives its own; from then on only that one can be in progress, so     *)
(* what is read is the word it asked for and stays it until it is stored.  *)
Matches(b) == \A k \in 1 .. Width : b[k] = ByteAt(eeprom[slave], 2 * word + k - 1)
Own        == reg[slave].op = "read" /\ reg[slave].word = word
Reading    == {"force", "set", "wait", "clear", "command", "wait again", "data", "store"}

Lookup ==
  call.op \in LookupOps =>
    /\ pc # "value"
    /\ pc \in Reading => walk # << >> /\ esislave = slave
    /\ pc \in {"clear", "data", "store"} => ~reg[slave].busy
    /\ pc \in {"command", "wait again"} /\ reg[slave].busy => Own
    /\ pc = "wait again" /\ ~reg[slave].busy /\ ~reg[slave].nack => Matches(reg[slave].out)
    /\ pc = "data" => Matches(reg[slave].out)
    /\ pc = "store" => Matches(edat)

Idents == pc \in {"next", "collect"} => call.op = "ident"

(* What a look-up still owes the PDI.                                      *)
Owed ==
  call.op \in LookupOps \cup {"dump"} =>
    /\ pdi[slave] => eectl
    /\ pc = "restore" => eectl
    /\ pc = "bytes" /\ walk = << >> => pdi[slave] = eectl

Honest == \A a \in esimap \ stale : esibuf[a] = ByteAt(eeprom[esislave], a)

Inv == Typed /\ (~trouble => Owners /\ Held /\ Lookup /\ Idents /\ Owed /\ Honest)
-----------------------------------------------------------------------------
(* Types.                                                                  *)

LEMMA Positions ==
  /\ \E n \in Nat \ {0} : Slaves = 1 .. n /\ Cardinality(Slaves) = n
  /\ \A c \in Lookups : c.s \in Slaves
  /\ \A c \in Lookups : (IF c.op \in Writes THEN c.arg.word ELSE c.arg) \in Nat
  /\ SiiStart \in Nat
<1>1. \E n \in Nat \ {0} : Slaves = 1 .. n /\ Cardinality(Slaves) = n
  BY SlavesAssumption
<1>2. Writes = {"write", "writeAP"}
  BY DEF Writes, WriteAP
<1>3. SiiStart \in Nat /\ \A c \in Lookups : c.s \in Slaves /\ (IF c.op \in Writes THEN c.arg.word ELSE c.arg) \in Nat
  BY <1>2, LookupsAssumption
<1> QED
  BY <1>1, <1>3

LEMMA NextSlave ==
  /\ 1 \in Slaves
  /\ \A s \in Slaves : s # Cardinality(Slaves) => s + 1 \in Slaves
<1>1. PICK n \in Nat \ {0} : Slaves = 1 .. n /\ Cardinality(Slaves) = n
  BY Positions
<1>2. QED
  BY <1>1

(* Only the EEPROM itself and the master's commands touch its interface.   *)
LEMMA TypedFrame ==
  ASSUME Typed, UNCHANGED <<reg, eeprom>>, word' \in Nat, slave' \in Slaves, pdi' \in [Slaves -> BOOLEAN], eectl' \in BOOLEAN,
         trouble' \in BOOLEAN, owner' = [s \in Slaves |-> owner'[s]],
         esimap' \subseteq DOMAIN esibuf', esimap' \subseteq Nat
  PROVE  Typed'
BY DEF Typed, RegTyped

(* The registers of a slave are changed one by one.                        *)
LEMMA RegField ==
  ASSUME RegTyped, NEW s \in Slaves,
         \/ reg' = [reg EXCEPT ![s].nack = FALSE]
         \/ \E v : reg' = [reg EXCEPT ![s].value = v]
         \/ reg' = [reg EXCEPT ![s].busy = FALSE, ![s].nack = TRUE]
         \/ \E v : reg' = [reg EXCEPT ![s].busy = FALSE, ![s].out = v]
         \/ reg' = [reg EXCEPT ![s].busy = FALSE]
  PROVE  RegTyped'
<1>1. CASE reg' = [reg EXCEPT ![s].nack = FALSE]
  BY ONLY RegTyped, s \in Slaves, <1>1 DEF RegTyped, RegFields
<1>2. ASSUME NEW v, reg' = [reg EXCEPT ![s].value = v] PROVE RegTyped'
  BY ONLY RegTyped, s \in Slaves, <1>2 DEF RegTyped, RegFields
<1>3. CASE reg' = [reg EXCEPT ![s].busy = FALSE, ![s].nack = TRUE]
  BY ONLY RegTyped, s \in Slaves, <1>3 DEF RegTyped, RegFields
<1>4. ASSUME NEW v, reg' = [reg EXCEPT ![s].busy = FALSE, ![s].out = v] PROVE RegTyped'
  BY ONLY RegTyped, s \in Slaves, <1>4 DEF RegTyped, RegFields
<1>5. CASE reg' = [reg EXCEPT ![s].busy = FALSE]
  BY ONLY RegTyped, s \in Slaves, <1>5 DEF RegTyped, RegFields
<1> QED
  BY <1>1, <1>2, <1>3, <1>4, <1>5

LEMMA RegStarted ==
  ASSUME RegTyped, NEW s \in Slaves, NEW w \in Nat, NEW o,
         reg' = [reg EXCEPT ![s] = [@ EXCEPT !.busy = TRUE, !.nack = FALSE, !.word = w, !.op = o]]
  PROVE  RegTyped'
BY DEF RegTyped, RegFields

LEMMA CommandTyped ==
  ASSUME Typed, UNCHANGED <<call, word, pdi, eectl, owner, eeprom, esibuf, esimap>>, RegTyped',
         trouble' = trouble \/ trouble' = TRUE
  PROVE  Typed'
BY DEF Typed, slave

LEMMA StillTyped ==
  ASSUME Typed, UNCHANGED <<reg, eeprom, call, pdi, eectl, owner, esibuf>>, word' = word \/ word' \in Nat, esimap' = esimap \/ esimap' = {},
         trouble' \in BOOLEAN
  PROVE  Typed'
BY DEF Typed, RegTyped, slave

(* The word of a missing byte.                                            *)
LEMMA WordRead == GetByte => word' \in Nat
<1> SUFFICES ASSUME GetByte PROVE word' \in Nat
  OBVIOUS
<1>1. PICK a \in Missing : word' = a \div 2
  BY DEF GetByte
<1>2. a \in 0 .. MaxEepBuf - 1
  BY <1>1 DEF Missing
<1>3. a \in Nat
  BY <1>2
<1> QED BY <1>1, <1>3

LEMMA InitTyped == Init => Typed
<1> SUFFICES ASSUME Init PROVE Typed
  OBVIOUS
<1>1. slave = 1 /\ 1 \in Slaves
  <2>1. slave = 1
    BY DEF Init, slave, NoCall
  <2> QED BY <2>1, NextSlave
<1>2. RegTyped
  BY DEF Init, RegTyped, RegFields
<1>3. pdi \in [Slaves -> BOOLEAN] /\ owner = [s \in Slaves |-> owner[s]]
  BY DEF Init
<1>4. eeprom = [s \in Slaves |-> eeprom[s]]
  BY DEF Init
<1> QED
  BY <1>1, <1>2, <1>3, <1>4 DEF Init, Typed

LEMMA TypedStep == Typed /\ [Next]_vars => Typed'
<1> SUFFICES ASSUME Typed, [Next]_vars PROVE Typed'
  OBVIOUS
<1>1. CASE Begin
  <2>1. PICK c \in Lookups : call' = c /\ eectl' = pdi[c.s]
    BY <1>1 DEF Begin
  <2>2. c.s \in Slaves /\ word' \in Nat
    BY <1>1, Positions DEF Begin
  <2>3. UNCHANGED <<cache, chip, pdi, trouble>>
    BY <1>1 DEF Begin
  <2> QED BY <2>1, <2>2, <2>3 DEF Typed, RegTyped, slave, cache, chip
<1>2. CASE GetByte
  <2>1. word' \in Nat
    BY <1>2, WordRead
  <2>2. UNCHANGED <<reg, eeprom, call, pdi, eectl, owner, esibuf, trouble>> /\ (esimap' = esimap \/ esimap' = {})
    BY <1>2 DEF GetByte, chip
  <2> QED BY <2>1, <2>2, StillTyped DEF Typed
<1>3. CASE PassDone \/ Return
  BY <1>3, StillTyped DEF PassDone, Return, cache, chip, Typed
<1>4. CASE Hand
  <2>1. /\ UNCHANGED <<reg, eeprom, call, word, eectl, esibuf, esimap>>
        /\ trouble' = trouble \/ trouble' = TRUE
        /\ \/ UNCHANGED owner
           \/ \E by : owner' = [owner EXCEPT ![slave] = by]
        /\ \/ UNCHANGED pdi
           \/ \E b \in BOOLEAN : pdi' = [pdi EXCEPT ![slave] = b]
    BY <1>4 DEF Hand, Owned, Try, cache, job
  <2>2. owner' = [s \in Slaves |-> owner'[s]] /\ pdi' \in [Slaves -> BOOLEAN]
    BY <2>1 DEF Typed
  <2>3. trouble' \in BOOLEAN /\ eectl' \in BOOLEAN /\ slave' \in Slaves /\ word' \in Nat
        /\ esimap' \subseteq DOMAIN esibuf' /\ esimap' \subseteq Nat
    BY <2>1 DEF Typed, slave
  <2> QED BY <2>1, <2>2, <2>3, TypedFrame
<1>5. CASE Wait \/ Collect \/ WaitAgain
  <2>1. CASE Wait
    <3>1. trouble' \in BOOLEAN
      BY <2>1 DEF Wait, Abandon, End, Typed
    <3>2. UNCHANGED <<reg, eeprom, call, word, pdi, eectl, owner, esibuf, esimap>>
      BY <2>1 DEF Wait, cache, chip
    <3> QED BY <3>1, <3>2, StillTyped
  <2>2. CASE Collect
    <3>1. trouble' \in BOOLEAN
      BY <2>2 DEF Collect, Typed
    <3>2. UNCHANGED <<reg, eeprom, call, word, pdi, eectl, owner, esibuf, esimap>>
      BY <2>2 DEF Collect, cache, chip
    <3> QED BY <3>1, <3>2, StillTyped
  <2>3. CASE WaitAgain
    BY <2>3, StillTyped DEF WaitAgain, Abandon, End, cache, chip, Typed
  <2> QED BY <1>5, <2>1, <2>2, <2>3
<1>s. RegTyped /\ slave \in Slaves /\ word \in Nat
  BY DEF Typed
<1>6. CASE Clear
  <2>1. RegTyped'
    BY <1>6, <1>s, RegField DEF Clear, RegTyped
  <2> QED BY <1>6, <2>1, CommandTyped DEF Clear, cache, job
<1>7. CASE Value
  <2>1. RegTyped'
    BY <1>7, <1>s, RegField DEF Value, Try, RegTyped
  <2> QED BY <1>7, <2>1, CommandTyped DEF Value, Try, cache, job
<1>8. CASE Command
  <2>1. CASE UNCHANGED reg
    BY <1>8, <2>1, CommandTyped DEF Command, Try, Typed, RegTyped, cache, job
  <2>2. CASE reg' = [reg EXCEPT ![slave] = [@ EXCEPT !.busy = TRUE, !.nack = FALSE, !.word = word,
                                              !.op = IF call.op \in Writes THEN "write" ELSE "read"]]
    <3>1. RegTyped'
      BY <1>s, <2>2, RegStarted
    <3> QED BY <1>8, <3>1, CommandTyped DEF Command, Try, cache, job
  <2> QED BY <1>8, <2>1, <2>2 DEF Command, Try, Started
<1>9. CASE Data
  BY <1>9, StillTyped DEF Data, Try, cache, chip, Typed
<1>10. CASE Store
  <2>1. slave' \in Slaves
    BY <1>10, NextSlave DEF Store, Typed, slave, Of
  <2>2. UNCHANGED <<reg, eeprom, owner, pdi, eectl, trouble>>
    BY <1>10 DEF Store, chip
  <2>3. word' \in Nat
    BY <1>10 DEF Store, Typed, Width, End
  <2>4. esimap' \subseteq DOMAIN esibuf' /\ esimap' \subseteq Nat
    <3>1. CASE esimap' = esimap \cup Bytes /\ esibuf' = [a \in DOMAIN esibuf \cup Bytes |-> IF a \in Bytes THEN edat[a - 2 * word + 1] ELSE esibuf[a]]
      <4>1. Bytes \subseteq Nat
        BY DEF Bytes, Typed, Width
      <4> QED BY <3>1, <4>1 DEF Typed
    <3>2. CASE UNCHANGED cache
      BY <3>2 DEF Typed, cache
    <3> QED BY <1>10, <3>1, <3>2 DEF Store, cache
  <2>5. trouble' \in BOOLEAN /\ eectl' \in BOOLEAN /\ pdi' \in [Slaves -> BOOLEAN] /\ owner' = [s \in Slaves |-> owner'[s]]
    BY <2>2 DEF Typed
  <2> QED BY <2>1, <2>2, <2>3, <2>4, <2>5, TypedFrame
<1>11. CASE NextIdent
  BY <1>11, NextSlave DEF NextIdent, Typed, RegTyped, slave, Of, cache, chip
<1>12. ASSUME NEW s \in Slaves, Chip(s) PROVE Typed'
  <2>1. RegTyped'
    BY <1>12, <1>s, RegField DEF Chip
  <2>2. UNCHANGED <<call, word, pdi, eectl, owner, esibuf, esimap, trouble>>
    BY <1>12 DEF Chip, cache, job
  <2>3. CASE UNCHANGED eeprom
    BY <2>1, <2>2, <2>3, CommandTyped
  <2>4. CASE eeprom' = [eeprom EXCEPT ![s] = Written(s, reg[s].word, reg[s].value)]
    <3>1. eeprom' = [r \in Slaves |-> eeprom'[r]]
      BY <2>4 DEF Typed
    <3> QED BY <2>1, <2>2, <3>1 DEF Typed, slave
  <2> QED BY <1>12, <2>3, <2>4 DEF Chip
<1>13. CASE UNCHANGED vars
  BY <1>13 DEF vars, Typed, RegTyped, slave, cache, job, chip
<1> QED
  BY <1>1, <1>2, <1>3, <1>4, <1>5, <1>6, <1>7, <1>8, <1>9, <1>10, <1>11, <1>12, <1>13 DEF Next
-----------------------------------------------------------------------------
(* Nothing takes trouble back.                                             *)
LEMMA TroubleStays == [Next]_vars /\ trouble => trouble'
<1> SUFFICES ASSUME [Next]_vars, trouble PROVE trouble'
  OBVIOUS
<1>1. CASE Begin \/ GetByte \/ PassDone \/ Return \/ Clear \/ Store \/ NextIdent
  BY <1>1 DEF Begin, GetByte, PassDone, Return, Clear, Store, NextIdent
<1>2. CASE Wait \/ Collect
  BY <1>2 DEF Wait, Collect, Abandon
<1>3. CASE WaitAgain
  BY <1>3 DEF WaitAgain, Abandon
<1>4. CASE Hand \/ Value \/ Command \/ Data
  BY <1>4 DEF Hand, Owned, Value, Command, Data, Try
<1>5. ASSUME NEW s \in Slaves, Chip(s) PROVE trouble'
  BY <1>5 DEF Chip
<1>6. CASE UNCHANGED vars
  BY <1>6 DEF vars
<1> QED BY <1>1, <1>2, <1>3, <1>4, <1>5, <1>6 DEF Next

(* What happens to the control over the EEPROMs.                           *)
Sound == Owners /\ Held /\ Lookup /\ Idents /\ Owed /\ Honest

LEMMA InitSound == Init => Sound
<1> SUFFICES ASSUME Init PROVE Sound
  OBVIOUS
<1>1. call.op = "none" /\ pc = "idle"
  BY DEF Init, NoCall
<1>2. Owners
  BY <1>1 DEF Init, Owners
<1>3. Held /\ Lookup /\ Idents /\ Owed /\ Honest
  BY <1>1 DEF Init, Held, Lookup, Idents, Owed, Honest, LookupOps
<1> QED BY <1>2, <1>3 DEF Sound

(* A slave's control changes in the hand-over only.                        *)
LEMMA OwnersFrame ==
  ASSUME Owners, UNCHANGED <<pdi, owner>>, ~InHand
  PROVE  Owners'
BY DEF Owners

LEMMA BeginSound ==
  ASSUME Typed, Sound, Begin
  PROVE  Sound'
<1> USE DEF Begin, Go, Sound
<1>1. PICK c \in Lookups :
        /\ c.op \in ReadAP \cup WriteAP => owner[c.s] = "master"
        /\ call' = c /\ eectl' = pdi[c.s]
        /\ walk' = IF c.op \in LookupOps THEN <<FindReads(eeprom[c.s], Category(c)), SectionReads(eeprom[c.s], c)>> ELSE << >>
        /\ pc' = IF c.op \in LookupOps THEN "bytes" ELSE IF c.op \in ReadAP \cup WriteAP THEN "wait" ELSE Take(c.s)
  OBVIOUS
<1>2. c.s \in Slaves /\ slave' = c.s
  BY <1>1, Positions DEF slave
<1>3. Owners'
  BY OwnersFrame DEF InHand, chip
<1>4. ~InHand /\ UNCHANGED <<pdi, owner, esimap, stale, esibuf, eeprom, esislave>>
  BY DEF InHand, cache, chip
<1>5. owner[c.s] = IF pdi[c.s] THEN "pdi" ELSE "master"
  BY <1>2, <1>4 DEF Owners
<1>6. pc' = "wait" => ~pdi[c.s]
  BY <1>1, <1>5 DEF Take, ReadAP, WriteAP, LookupOps
<1>7. Held'
  BY <1>1, <1>2, <1>4, <1>6 DEF Held, Take
<1>8. Lookup'
  BY <1>1 DEF Lookup, Reading
<1>9. Idents' /\ Owed'
  BY <1>1, <1>2, <1>4 DEF Idents, Owed, Take, LookupOps, ReadAP, WriteAP
<1>10. Honest'
  BY <1>4 DEF Honest, ByteAt
<1> QED BY <1>3, <1>7, <1>8, <1>9, <1>10

LEMMA HonestFrame ==
  ASSUME Honest, UNCHANGED <<esibuf, eeprom, esislave>>, esimap' \ stale' \subseteq esimap \ stale
  PROVE  Honest'
BY DEF Honest

(* The call stays what it is, and so does the slave.                       *)
LEMMA SameCall ==
  ASSUME UNCHANGED call
  PROVE  slave' = slave /\ Width' = Width
BY DEF slave, Width

LEMMA GetByteSound ==
  ASSUME Typed, Sound, GetByte
  PROVE  Sound'
<1> USE DEF GetByte, Go, Sound
<1>1. /\ pc = "bytes" /\ walk # << >> /\ slave' = slave /\ esislave' = slave
      /\ UNCHANGED <<call, eectl, walk, pdi, owner, esibuf, eeprom>>
      /\ pc' = IF pdi[slave] THEN "force" ELSE "wait"
  BY SameCall DEF Take, chip
<1>2. esislave' = slave
  OBVIOUS
<1>3. Owners'
  BY <1>1, OwnersFrame DEF InHand
<1>4. Held' /\ Idents' /\ Owed'
  BY <1>1 DEF Held, Idents, Owed
<1>5. Lookup'
  BY <1>1, <1>2 DEF Lookup, Reading
<1>6. Honest'
  BY <1>1, HonestFrame DEF Honest
<1> QED BY <1>3, <1>4, <1>5, <1>6

LEMMA PassSound ==
  ASSUME Typed, Sound, PassDone \/ Return
  PROVE  Sound'
<1> USE DEF PassDone, Return, Go, Sound
<1>1. /\ pc = "bytes" /\ slave' = slave
      /\ UNCHANGED <<call, eectl, pdi, owner, esimap, stale, esibuf, esislave, eeprom>>
      /\ pc' \in {"restore", "bytes", "idle"}
  BY SameCall DEF chip, cache
<1>2. Owners'
  BY <1>1, OwnersFrame DEF InHand
<1>3. Held' /\ Idents' /\ Lookup'
  BY <1>1 DEF Held, Idents, Lookup, Reading
<1>4. Owed'
  BY <1>1 DEF Owed, Typed
<1>5. Honest'
  BY <1>1, HonestFrame
<1> QED BY <1>2, <1>3, <1>4, <1>5

LEMMA HandSound ==
  ASSUME Typed, Sound, Hand, ~trouble, ~trouble'
  PROVE  Sound'
<1> USE DEF Hand, Sound
<1>1. /\ slave' = slave /\ UNCHANGED <<call, eectl, walk, word, esimap, stale, esibuf, esislave, eeprom, reg, edat>>
      /\ \A s \in Slaves \ {slave} : pdi'[s] = pdi[s] /\ owner'[s] = owner[s]
      /\ slave \in Slaves /\ slave \in DOMAIN pdi /\ slave \in DOMAIN owner
  BY SameCall DEF job, cache, Typed, Owned, Try
<1>2. CASE pc = "force"
  <2>1. pc' \in {"force", "set"} /\ UNCHANGED pdi
    BY <1>2 DEF Owned, Try, Go
  <2>2. Owners' /\ Held' /\ Idents' /\ Owed'
    BY <1>1, <1>2, <2>1 DEF Owners, InHand, Held, Idents, Owed
  <2>3. Lookup'
    BY <1>1, <1>2, <2>1 DEF Lookup, Reading
  <2> QED BY <1>1, <2>2, <2>3, HonestFrame
<1>3. CASE pc = "set"
  <2>1. \/ pc' = "set" /\ UNCHANGED pdi
        \/ pc' = "wait" /\ owner'[slave] = "master" /\ ~pdi'[slave]
    BY <1>1, <1>3 DEF Owned, Try, Go
  <2>2. Owners' /\ Held' /\ Idents' /\ Owed'
    BY <1>1, <1>3, <2>1 DEF Owners, InHand, Held, Idents, Owed
  <2>3. Lookup'
    BY <1>1, <1>3, <2>1 DEF Lookup, Reading
  <2> QED BY <1>1, <2>2, <2>3, HonestFrame
<1>4. CASE pc = "restore"
  <2>1. \/ pc' = "restore" /\ UNCHANGED pdi
        \/ pc' = "bytes" /\ owner'[slave] = "pdi" /\ pdi'[slave] = TRUE
    BY <1>1, <1>4 DEF Owned, Try, Go
  <2>2. Owners' /\ Held' /\ Idents'
    BY <1>1, <1>4, <2>1 DEF Owners, InHand, Held, Idents
  <2>3. Owed'
    BY <1>1, <1>4, <2>1 DEF Owed, Typed
  <2>4. Lookup'
    BY <1>1, <1>4, <2>1 DEF Lookup, Reading
  <2> QED BY <1>1, <2>2, <2>3, <2>4, HonestFrame
<1> QED BY <1>2, <1>3, <1>4

LEMMA WaitSound ==
  ASSUME Typed, Sound, Wait, ~trouble, ~trouble'
  PROVE  Sound'
<1> USE DEF Wait, Sound
<1>1. /\ pc = "wait" /\ slave' = slave
      /\ UNCHANGED <<call, eectl, pdi, owner, esimap, stale, esibuf, esislave, eeprom, reg, walk, word>>
      /\ slave \in Slaves
  BY SameCall DEF chip, cache, Typed
<1>2. \/ ~reg[slave].busy /\ pc' = IF reg[slave].nack THEN "clear" ELSE IF call.op \in Writes THEN "value" ELSE "command"
      \/ pc' = "wait"
      \/ call.op \in Writes /\ pc' = "idle"
  BY <1>1 DEF Go, Abandon, End
<1>3. Owners'
  BY <1>1, OwnersFrame DEF InHand
<1>4. Held' /\ Idents' /\ Owed'
  BY <1>1, <1>2 DEF Held, Idents, Owed
<1>5. Lookup'
  BY <1>1, <1>2 DEF Lookup, Reading, LookupOps, Writes, WriteAP
<1> QED BY <1>1, <1>3, <1>4, <1>5, HonestFrame

LEMMA ClearSound ==
  ASSUME Typed, Sound, Clear
  PROVE  Sound'
<1> USE DEF Clear, Sound, Go
<1>1. /\ pc = "clear" /\ slave' = slave
      /\ UNCHANGED <<call, eectl, pdi, owner, esimap, stale, esibuf, esislave, eeprom, walk, word>>
      /\ slave \in Slaves
  BY SameCall DEF job, cache, Typed
<1>2. pc' = IF call.op \in Writes THEN "value" ELSE "command"
  OBVIOUS
<1>3. reg'[slave].busy = reg[slave].busy
  BY <1>1 DEF Typed, RegTyped, RegFields
<1>4. Owners'
  BY <1>1, OwnersFrame DEF InHand
<1>5. Held' /\ Idents' /\ Owed'
  BY <1>1, <1>2 DEF Held, Idents, Owed
<1>6. Lookup'
  BY <1>1, <1>2, <1>3 DEF Lookup, Reading, LookupOps, Writes, WriteAP
<1> QED BY <1>1, <1>4, <1>5, <1>6, HonestFrame

LEMMA ValueSound ==
  ASSUME Typed, Sound, Value
  PROVE  Sound'
<1> USE DEF Value, Sound, Go, Try
<1>1. /\ pc = "value" /\ slave' = slave
      /\ UNCHANGED <<call, eectl, pdi, owner, esimap, stale, esibuf, esislave, eeprom, walk, word>>
  BY SameCall DEF job, cache
<1>2. pc' \in {"value", "command"}
  BY <1>1
<1>3. Owners'
  BY <1>1, OwnersFrame DEF InHand
<1>4. Held' /\ Idents' /\ Owed'
  BY <1>1, <1>2 DEF Held, Idents, Owed
<1>5. Lookup'
  BY <1>1 DEF Lookup
<1> QED BY <1>1, <1>3, <1>4, <1>5, HonestFrame

LEMMA CommandSound ==
  ASSUME Typed, Sound, Command, ~trouble, ~trouble'
  PROVE  Sound'
<1> USE DEF Sound
<1>1. /\ pc = "command" /\ slave' = slave
      /\ UNCHANGED <<call, eectl, pdi, owner, esimap, stale, esibuf, esislave, eeprom, walk, word>>
      /\ slave \in Slaves /\ ~pdi[slave]
  BY SameCall DEF Command, Try, job, cache, Typed, Held
<1>2. \/ UNCHANGED reg /\ pc' = "command"
      \/ Started /\ pc' \in {"command", IF call.op = "ident" THEN "next" ELSE "wait again"}
  BY <1>1 DEF Command, Try, Go
<1>3. Owners'
  BY <1>1, OwnersFrame DEF InHand
<1>4. Held' /\ Idents' /\ Owed'
  BY <1>1, <1>2 DEF Held, Idents, Owed
<1>5. ASSUME Started PROVE reg'[slave].busy
  <2>1. owner[slave] = "master"
    BY <1>1 DEF Owners, InHand
  <2> QED BY <1>1, <1>5, <2>1 DEF Started, Typed, RegTyped, RegFields
<1>6. ASSUME Started, call.op \in LookupOps PROVE Own'
  <2>1. CASE reg[slave].busy
    BY <1>1, <1>6, <2>1 DEF Started, Lookup, Own
  <2>2. CASE ~reg[slave].busy
    <3>1. owner[slave] = "master" /\ call.op \notin Writes
      BY <1>1, <1>6 DEF Owners, InHand, LookupOps, Writes, WriteAP
    <3>2. reg'[slave].op = "read" /\ reg'[slave].word = word
      BY <1>1, <1>6, <2>2, <3>1 DEF Started, Typed, RegTyped, RegFields
    <3> QED BY <1>1, <3>2 DEF Own
  <2> QED BY <2>1, <2>2
<1>7. Lookup'
  <2> SUFFICES ASSUME call.op \in LookupOps PROVE Lookup'
    BY <1>1 DEF Lookup
  <2>1. CASE UNCHANGED reg /\ pc' = "command"
    BY <1>1, <2>1 DEF Lookup, Reading, Own
  <2>2. CASE Started
    <3>1. pc' \in {"command", "wait again"}
      BY <1>2, <1>1 DEF LookupOps
    <3>2. walk # << >> /\ esislave = slave
      BY <1>1 DEF Lookup, Reading
    <3> QED BY <1>1, <1>5, <1>6, <2>2, <3>1, <3>2 DEF Lookup
  <2> QED BY <1>2, <2>1, <2>2
<1> QED BY <1>1, <1>3, <1>4, <1>7, HonestFrame

LEMMA WaitAgainSound ==
  ASSUME Typed, Sound, WaitAgain, ~trouble, ~trouble'
  PROVE  Sound'
<1> USE DEF Sound
<1>1. /\ pc = "wait again" /\ slave' = slave /\ Width' = Width
      /\ UNCHANGED <<call, eectl, pdi, owner, esimap, stale, esibuf, esislave, eeprom, reg, walk, word>>
      /\ slave \in Slaves
  BY SameCall DEF WaitAgain, chip, cache, Typed
<1>2. \/ ~reg[slave].busy /\ ~reg[slave].nack /\ pc' = IF call.op \in Writes THEN "idle" ELSE "data"
      \/ pc' = IF call.op \in Writes THEN "value" ELSE "command"
      \/ pc' = "wait again"
      \/ call.op \in Writes /\ pc' = "idle"
  BY <1>1 DEF WaitAgain, Go, Abandon, End
<1>3. Owners'
  BY <1>1, OwnersFrame DEF InHand
<1>4. Held' /\ Idents' /\ Owed'
  BY <1>1, <1>2 DEF Held, Idents, Owed
<1>5. Lookup'
  <2> SUFFICES ASSUME call.op \in LookupOps PROVE Lookup'
    BY <1>1 DEF Lookup
  <2>1. call.op \notin Writes
    BY DEF LookupOps, Writes, WriteAP
  <2>2. walk # << >> /\ esislave = slave
    BY <1>1 DEF Lookup, Reading
  <2>3. Own' = Own /\ (reg[slave].busy => Own) /\ (~reg[slave].busy /\ ~reg[slave].nack => Matches(reg[slave].out))
    BY <1>1 DEF Lookup, Own
  <2>4. Matches(reg[slave].out)' = Matches(reg[slave].out)
    BY <1>1 DEF Matches, ByteAt
  <2> QED BY <1>1, <1>2, <2>1, <2>2, <2>3, <2>4 DEF Lookup
<1> QED BY <1>1, <1>3, <1>4, <1>5, HonestFrame

LEMMA DataSound ==
  ASSUME Typed, Sound, Data, ~trouble, ~trouble'
  PROVE  Sound'
<1> USE DEF Data, Sound
<1>1. /\ pc = "data" /\ slave' = slave /\ Width' = Width
      /\ UNCHANGED <<call, eectl, pdi, owner, esimap, stale, esibuf, esislave, eeprom, reg, walk, word>>
      /\ slave \in Slaves
  BY SameCall DEF chip, cache, Typed
<1>2. \/ pc' = "data"
      \/ pc' = "store" /\ edat' = [k \in 1 .. Width |-> reg[slave].out[k]]
  BY <1>1 DEF Go, Try
<1>3. Owners'
  BY <1>1, OwnersFrame DEF InHand
<1>4. Held' /\ Idents' /\ Owed'
  <2>1. Held'
    BY <1>1, <1>2 DEF Held
  <2>2. Idents' /\ Owed'
    BY <1>1, <1>2 DEF Idents, Owed
  <2> QED BY <2>1, <2>2
<1>5. Lookup'
  <2> SUFFICES ASSUME call.op \in LookupOps PROVE Lookup'
    BY <1>1 DEF Lookup
  <2>1. walk # << >> /\ esislave = slave /\ ~reg[slave].busy /\ Matches(reg[slave].out)
    BY <1>1 DEF Lookup, Reading
  <2>2. Matches(reg[slave].out)'
    BY <1>1, <2>1 DEF Matches, ByteAt
  <2>3. ASSUME pc' = "store" PROVE Matches(edat)'
    BY <1>1, <1>2, <2>1, <2>3 DEF Matches, ByteAt
  <2> QED BY <1>1, <1>2, <2>1, <2>2, <2>3 DEF Lookup
<1> QED BY <1>1, <1>3, <1>4, <1>5, HonestFrame

LEMMA CollectSound ==
  ASSUME Typed, Sound, Collect, ~trouble, ~trouble'
  PROVE  Sound'
<1> USE DEF Collect, Sound
<1>1. /\ pc = "collect" /\ call.op = "ident" /\ slave' = slave
      /\ UNCHANGED <<call, eectl, pdi, owner, esimap, stale, esibuf, esislave, eeprom, reg, walk, word>>
  BY SameCall DEF chip, cache, Idents
<1>2. pc' \in {"collect", "data"}
  BY <1>1 DEF Go
<1>3. Owners'
  BY <1>1, OwnersFrame DEF InHand
<1>4. Held' /\ Idents' /\ Owed' /\ Lookup'
  BY <1>1, <1>2 DEF Held, Idents, Owed, Lookup, LookupOps
<1> QED BY <1>1, <1>3, <1>4, HonestFrame

LEMMA NextIdentSound ==
  ASSUME Typed, Sound, NextIdent, ~trouble, ~trouble'
  PROVE  Sound'
<1> USE DEF NextIdent, Sound, Go
<1>1. /\ pc = "next" /\ call.op = "ident"
      /\ UNCHANGED <<eectl, pdi, owner, esimap, stale, esibuf, esislave, eeprom>>
  BY DEF chip, cache, Idents
<1>2. PICK s : call' = Of(s) /\ pc' = (IF s = 1 THEN "collect" ELSE Take(s))
  OBVIOUS
<1>3. call'.op = "ident" /\ slave' = s
  BY <1>1, <1>2 DEF Of, slave
<1>4. Owners'
  BY <1>1, OwnersFrame DEF InHand
<1>5. Held' /\ Idents' /\ Owed' /\ Lookup'
  BY <1>1, <1>2, <1>3 DEF Held, Idents, Owed, Lookup, LookupOps, Take
<1> QED BY <1>1, <1>4, <1>5, HonestFrame

LEMMA HonestNext ==
  ASSUME UNCHANGED <<eeprom, esislave>>, \A a \in esimap' \ stale' : esibuf'[a] = ByteAt(eeprom[esislave], a)
  PROVE  Honest'
BY DEF Honest, ByteAt

LEMMA StoreSound ==
  ASSUME Typed, Sound, Store, ~trouble, ~trouble'
  PROVE  Sound'
<1> USE DEF Store, Sound, Go, End
<1>1. /\ pc = "store"
      /\ UNCHANGED <<pdi, eectl, walk, owner, eeprom, reg>>
      /\ slave \in Slaves
  BY DEF chip, Typed
<1>2. Owners'
  BY <1>1, OwnersFrame DEF InHand
<1>3. CASE call.op \in LookupOps
  <2>1. /\ esimap' = esimap \cup Bytes /\ stale' = stale \ Bytes
        /\ esibuf' = [a \in DOMAIN esibuf \cup Bytes |-> IF a \in Bytes THEN edat[a - 2 * word + 1] ELSE esibuf[a]]
        /\ pc' = "bytes" /\ UNCHANGED <<esislave, call, word>>
    BY <1>3 DEF LookupOps, ReadAP
  <2>2. esislave = slave /\ walk # << >> /\ word \in Nat /\ Matches(edat)
    BY <1>1, <1>3 DEF Lookup, Reading, Typed
  <2>3. Held' /\ Idents' /\ Owed' /\ Lookup'
    BY <1>1, <1>3, <2>1, <2>2, SameCall DEF Held, Idents, Owed, Lookup, Reading
  <2>4. Honest'
    <3> SUFFICES ASSUME NEW a \in esimap' \ stale' PROVE esibuf'[a] = ByteAt(eeprom[esislave], a)
      BY <1>1, <2>1, HonestNext
    <3>1. CASE a \in Bytes
      <4>1. PICK k \in 0 .. Width - 1 : a = 2 * word + k
        BY <3>1 DEF Bytes
      <4>2. Width \in Nat
        BY DEF Width
      <4>3. k + 1 \in 1 .. Width /\ a - 2 * word + 1 = k + 1 /\ 2 * word + (k + 1) - 1 = a
        BY <2>2, <4>1, <4>2
      <4>4. edat[k + 1] = ByteAt(eeprom[slave], 2 * word + (k + 1) - 1)
        BY <2>2, <4>3 DEF Matches
      <4>5. esibuf'[a] = edat[a - 2 * word + 1]
        BY <2>1, <3>1
      <4> QED BY <2>2, <4>3, <4>4, <4>5
    <3>2. CASE a \notin Bytes
      <4>1. a \in esimap \ stale /\ a \in DOMAIN esibuf
        BY <2>1, <3>2 DEF Typed
      <4>2. esibuf'[a] = esibuf[a]
        BY <2>1, <3>2, <4>1
      <4> QED BY <4>1, <4>2 DEF Honest
    <3> QED BY <3>1, <3>2
  <2> QED BY <1>2, <2>3, <2>4
<1>4. CASE call.op \in {"read"} \cup ReadAP
  <2>1. pc' = "idle" /\ UNCHANGED <<esislave, esimap, esibuf, call, stale>>
    BY <1>4 DEF LookupOps, ReadAP, cache
  <2>2. Held' /\ Idents' /\ Owed' /\ Lookup'
    BY <1>1, <1>4, <2>1 DEF Held, Idents, Owed, Lookup, LookupOps, ReadAP
  <2> QED BY <1>1, <1>2, <2>1, <2>2, HonestFrame
<1>5. CASE call.op = "dump"
  <2>1. /\ UNCHANGED <<esislave, esimap, esibuf, call, stale>>
        /\ pc' \in {"wait", IF eectl THEN "restore" ELSE "bytes"}
    BY <1>5 DEF LookupOps, ReadAP, cache
  <2>2. ~pdi[slave] /\ slave' = slave
    BY <1>1, <1>5, <2>1, SameCall DEF Held
  <2>3. Held' /\ Idents' /\ Lookup'
    BY <1>1, <1>5, <2>1, <2>2 DEF Held, Idents, Lookup, LookupOps
  <2>4. Owed'
    BY <1>1, <1>5, <2>1, <2>2 DEF Owed, Typed
  <2> QED BY <1>1, <1>2, <2>1, <2>3, <2>4, HonestFrame
<1>6. CASE call.op = "ident"
  <2>1. /\ UNCHANGED <<esislave, esimap, esibuf, stale>> /\ call'.op = "ident"
        /\ pc' \in {"idle", "collect"}
    BY <1>6 DEF LookupOps, ReadAP, cache, Of
  <2>2. Held' /\ Idents' /\ Owed' /\ Lookup'
    BY <1>1, <1>6, <2>1 DEF Held, Idents, Owed, Lookup, LookupOps
  <2> QED BY <1>1, <1>2, <2>1, <2>2, HonestFrame
<1> QED BY <1>3, <1>4, <1>5, <1>6

(* What the EEPROM does with a command.  A write changes the two bytes of  *)
(* its word.                                                               *)
LEMMA WrittenBytes ==
  ASSUME NEW s \in Slaves, RegTyped, eeprom = [r \in Slaves |-> eeprom[r]],
         eeprom' = [eeprom EXCEPT ![s] = Written(s, reg[s].word, reg[s].value)],
         NEW a \in Nat, a \notin {2 * reg[s].word, 2 * reg[s].word + 1}
  PROVE  ByteAt(eeprom'[s], a) = ByteAt(eeprom[s], a)
<1> DEFINE w == reg[s].word
<1>1. w \in Nat
  BY DEF RegTyped
<1>2. eeprom'[s] = [eeprom[s] EXCEPT ![2 * w + 1] = reg[s].value[1], ![2 * w + 2] = reg[s].value[2]]
  BY DEF Written
<1>3. DOMAIN (eeprom'[s]) = DOMAIN (eeprom[s])
  BY <1>2
<1>4. a + 1 # 2 * w + 1 /\ a + 1 # 2 * w + 2
  BY <1>1
<1>5. a + 1 \in DOMAIN (eeprom[s]) => eeprom'[s][a + 1] = eeprom[s][a + 1]
  BY <1>2, <1>4
<1> QED
  BY <1>3, <1>5 DEF ByteAt

LEMMA ReadOut ==
  ASSUME RegTyped, NEW s \in Slaves, NEW v, reg' = [reg EXCEPT ![s].busy = FALSE, ![s].out = v]
  PROVE  reg'[s].out = v
BY DEF RegTyped, RegFields

LEMMA Refused ==
  ASSUME RegTyped, NEW s \in Slaves, reg' = [reg EXCEPT ![s].busy = FALSE, ![s].nack = TRUE]
  PROVE  reg'[s].nack
BY DEF RegTyped, RegFields

LEMMA MatchesNext ==
  ASSUME UNCHANGED <<slave, Width, word, eeprom>>,
         \A k \in 1 .. Width : reg'[slave].out[k] = ByteAt(eeprom[slave], 2 * word + k - 1)
  PROVE  Matches(reg[slave].out)'
BY DEF Matches, ByteAt

LEMMA ChipSound ==
  ASSUME Typed, Sound, NEW s \in Slaves, Chip(s)
  PROVE  Sound'
<1> USE DEF Sound
<1>1. /\ slave' = slave /\ Width' = Width
      /\ UNCHANGED <<pc, call, eectl, pdi, owner, esimap, esibuf, esislave, walk, word, edat>>
      /\ slave \in Slaves
  BY SameCall DEF Chip, job, cache, Typed
<1>2. Owners' /\ Held' /\ Idents' /\ Owed'
  <2>1. Owners'
    BY <1>1 DEF Owners, InHand
  <2>2. Held'
    BY <1>1 DEF Held
  <2>3. Idents' /\ Owed'
    BY <1>1 DEF Idents, Owed
  <2> QED BY <2>1, <2>2, <2>3
<1>3. Honest'
  <2>1. CASE UNCHANGED <<eeprom, stale>>
    BY <1>1, <2>1, HonestFrame
  <2>2. CASE /\ eeprom' = [eeprom EXCEPT ![s] = Written(s, reg[s].word, reg[s].value)]
             /\ stale' = IF esislave = s THEN stale \cup (esimap \cap {2 * reg[s].word, 2 * reg[s].word + 1}) ELSE stale
    <3> SUFFICES ASSUME NEW a \in esimap \ stale' PROVE esibuf[a] = ByteAt(eeprom'[esislave], a)
      BY <1>1 DEF Honest, ByteAt
    <3>1. a \in esimap \ stale /\ a \in Nat
      BY <2>2 DEF Typed
    <3>2. esibuf[a] = ByteAt(eeprom[esislave], a)
      BY <3>1 DEF Honest
    <3>3. CASE esislave = s
      <4>1. a \notin {2 * reg[s].word, 2 * reg[s].word + 1}
        BY <2>2, <3>1, <3>3
      <4> QED BY <2>2, <3>1, <3>2, <3>3, <4>1, WrittenBytes DEF Typed
    <3>4. CASE esislave # s
      BY <2>2, <3>2, <3>4 DEF Typed
    <3> QED BY <3>3, <3>4
  <2> QED BY <2>1, <2>2 DEF Chip
<1>4. Lookup'
  <2> SUFFICES ASSUME call.op \in LookupOps PROVE Lookup'
    BY <1>1 DEF Lookup
  <2>1. pc # "value" /\ (pc \in Reading => walk # << >> /\ esislave = slave)
    BY DEF Lookup
  <2>2. CASE s # slave
    <3>1. reg'[slave] = reg[slave] /\ eeprom'[slave] = eeprom[slave]
      BY <1>1, <2>2 DEF Chip, Typed, RegTyped
    <3>2. Own' = Own /\ Matches(reg[slave].out)' = Matches(reg[slave].out) /\ Matches(edat)' = Matches(edat)
      BY <1>1, <3>1 DEF Own, Matches, ByteAt
    <3> QED BY <1>1, <3>1, <3>2 DEF Lookup
  <2>3. CASE s = slave
    <3>1. reg[slave].busy /\ pc \notin {"clear", "data", "store"} /\ (pc \in {"command", "wait again"} => Own)
      BY <2>3 DEF Chip, Lookup
    <3>2. ~reg'[slave].busy
      BY <1>1, <2>3 DEF Chip, Typed, RegTyped, RegFields
    <3>3. ASSUME pc = "wait again" PROVE reg'[slave].nack \/ Matches(reg[slave].out)'
      <4>1. CASE reg' = [reg EXCEPT ![s].busy = FALSE, ![s].nack = TRUE]
        BY <2>3, <4>1, Refused DEF Typed
      <4>2. CASE /\ reg[s].op = "read"
                 /\ reg' = [reg EXCEPT ![s].busy = FALSE,
                     ![s].out = [k \in 1 .. (IF s \in Wide THEN 8 ELSE 4) |-> ByteAt(eeprom[s], 2 * reg[s].word + k - 1)]]
                 /\ UNCHANGED <<faults, eeprom, stale>>
        <5>1. reg'[s].out = [k \in 1 .. (IF s \in Wide THEN 8 ELSE 4) |-> ByteAt(eeprom[s], 2 * reg[s].word + k - 1)]
          BY <4>2, ReadOut DEF Typed
        <5>2. Width = (IF s \in Wide THEN 8 ELSE 4) /\ reg[s].word = word
          BY <2>3, <3>1, <3>3 DEF Own, Width
        <5>3. \A k \in 1 .. Width : reg'[slave].out[k] = ByteAt(eeprom[slave], 2 * word + k - 1)
          BY ONLY <2>3, <5>1, <5>2
        <5>4. UNCHANGED <<slave, Width, word, eeprom>>
          BY <1>1, <4>2
        <5> QED BY <5>3, <5>4, MatchesNext
      <4>3. CASE reg[s].op = "write"
        BY <2>3, <3>1, <3>3, <4>3 DEF Own
      <4>4. \/ reg' = [reg EXCEPT ![s].busy = FALSE, ![s].nack = TRUE]
            \/ /\ reg[s].op = "read"
               /\ reg' = [reg EXCEPT ![s].busy = FALSE,
                     ![s].out = [k \in 1 .. (IF s \in Wide THEN 8 ELSE 4) |-> ByteAt(eeprom[s], 2 * reg[s].word + k - 1)]]
               /\ UNCHANGED <<faults, eeprom, stale>>
            \/ reg[s].op = "write"
        BY Zenon DEF Chip
      <4> QED BY Zenon, <4>1, <4>2, <4>3, <4>4
    <3> QED BY <1>1, <2>1, <3>1, <3>2, <3>3 DEF Lookup
  <2> QED BY <2>2, <2>3
<1> QED BY <1>2, <1>3, <1>4

LEMMA StillSound ==
  ASSUME Sound, UNCHANGED vars
  PROVE  Sound'
<1>1. UNCHANGED <<pc, call, eectl, pdi, owner, esimap, esibuf, esislave, walk, word, edat, reg, eeprom, stale>>
  BY DEF vars, job, cache, chip
<1>2. slave' = slave /\ Width' = Width
  BY <1>1, SameCall
<1>3. Owners' /\ Idents' /\ Owed'
  BY <1>1, <1>2 DEF Sound, Owners, InHand, Idents, Owed
<1>4. Held'
  BY <1>1, <1>2 DEF Sound, Held
<1>5. Honest'
  BY <1>1, HonestFrame DEF Sound
<1>6. Own' = Own /\ Matches(reg[slave].out)' = Matches(reg[slave].out) /\ Matches(edat)' = Matches(edat)
  BY <1>1, <1>2 DEF Own, Matches, ByteAt
<1>7. Lookup'
  BY <1>1, <1>2, <1>6 DEF Sound, Lookup
<1> QED BY <1>3, <1>4, <1>5, <1>7 DEF Sound
-----------------------------------------------------------------------------
(* Where a call ends: a look-up and a dump end with their last pass.       *)
LEMMA Endings ==
  ASSUME [Next]_vars, Returns, ~trouble'
  PROVE  /\ UNCHANGED pdi /\ ~InHand
         /\ call.op \in LookupOps \cup {"dump"} => pc = "bytes" /\ walk = << >>
<1> USE DEF Returns, InHand, LookupOps
<1>1. CASE Begin
  BY <1>1 DEF Begin
<1>2. CASE GetByte \/ PassDone
  BY <1>2 DEF GetByte, PassDone, Go, Take
<1>3. CASE Return
  BY <1>3 DEF Return
<1>4. CASE Hand
  BY <1>4 DEF Hand, Owned, Try, Go
<1>5. CASE Wait
  BY <1>5 DEF Wait, Go, Abandon, End, Writes, WriteAP
<1>6. CASE Clear \/ Value
  BY <1>6 DEF Clear, Value, Try, Go
<1>7. CASE Command \/ Data
  BY <1>7 DEF Command, Data, Try, Go
<1>8. CASE WaitAgain
  BY <1>8 DEF WaitAgain, Go, Abandon, End, Writes, WriteAP
<1>9. CASE Store
  BY <1>9 DEF Store, Go, End, ReadAP
<1>10. CASE NextIdent \/ Collect
  BY <1>10 DEF NextIdent, Collect, Go, Take
<1>11. ASSUME NEW s \in Slaves, Chip(s) PROVE FALSE
  BY <1>11 DEF Chip
<1>12. CASE UNCHANGED vars
  BY <1>12 DEF vars
<1> QED
  BY <1>1, <1>2, <1>3, <1>4, <1>5, <1>6, <1>7, <1>8, <1>9, <1>10, <1>11, <1>12 DEF Next

(* Retries that ran out, or an EEPROM that refused three times, are        *)
(* trouble, and trouble is not forgotten: what happened before it counts.  *)
LEMMA SoundStep ==
  ASSUME Typed, Sound, [Next]_vars, ~trouble, ~trouble'
  PROVE  Sound'
<1>1. CASE Begin \/ GetByte \/ PassDone \/ Return
  BY <1>1, BeginSound, GetByteSound, PassSound
<1>2. CASE Hand \/ Wait \/ Clear \/ Value
  BY <1>2, HandSound, WaitSound, ClearSound, ValueSound
<1>3. CASE Command \/ WaitAgain \/ Data \/ Store
  BY <1>3, CommandSound, WaitAgainSound, DataSound, StoreSound
<1>4. CASE NextIdent \/ Collect
  BY <1>4, NextIdentSound, CollectSound
<1>5. ASSUME NEW s \in Slaves, Chip(s) PROVE Sound'
  BY <1>5, ChipSound
<1>6. CASE UNCHANGED vars
  BY <1>6, StillSound
<1> QED BY <1>1, <1>2, <1>3, <1>4, <1>5, <1>6 DEF Next

(* What the cache, the control and the commands always satisfy, until      *)
(* retries run out.                                                        *)
THEOREM EepromInvariant == Spec => []Inv
<1>1. Init => Inv
  BY InitTyped, InitSound DEF Inv, Sound
<1>2. Inv /\ [Next]_vars => Inv'
  <2> SUFFICES ASSUME Inv, [Next]_vars PROVE Inv'
    OBVIOUS
  <2>1. Typed'
    BY TypedStep DEF Inv
  <2>2. ASSUME ~trouble' PROVE Sound'
    <3>1. ~trouble
      BY <2>2, TroubleStays
    <3> QED BY <2>2, <3>1, SoundStep DEF Inv, Sound
  <2> QED BY <2>1, <2>2 DEF Inv, Sound
<1> QED
  BY <1>1, <1>2, PTL DEF Spec

(* The cache of ecx_siigetbyte holds what is in the EEPROM of its slave,   *)
(* other than the words written past it: it belongs to one slave, and the  *)
(* command that fills it is the one it was filled for.                     *)
THEOREM CacheIsHonest == Spec => []CacheHonest
<1>1. Inv => CacheHonest
  BY DEF Inv, Honest, CacheHonest
<1> QED
  BY <1>1, EepromInvariant, PTL

(* A look-up, or a dump, leaves the control over the EEPROM to whom it     *)
(* belonged, and eep_pdi says of every slave who has it.                   *)
THEOREM ControlIsReturned == Spec => ControlReturned
<1>1. Inv /\ [Next]_vars =>
        [Returns /\ ~trouble' => /\ call.op \in LookupOps \cup {"dump"} => pdi'[slave] = eectl
                                 /\ \A s \in Slaves : pdi'[s] = (owner[s] = "pdi")]_vars
  <2> SUFFICES ASSUME Inv, [Next]_vars, Returns, ~trouble'
               PROVE  /\ call.op \in LookupOps \cup {"dump"} => pdi'[slave] = eectl
                      /\ \A s \in Slaves : pdi'[s] = (owner[s] = "pdi")
    OBVIOUS
  <2>1. ~trouble /\ Typed /\ Owners /\ Held /\ Lookup /\ Owed
    BY TroubleStays DEF Inv
  <2>2. UNCHANGED pdi /\ ~InHand /\ (call.op \in LookupOps \cup {"dump"} => pc = "bytes" /\ walk = << >>)
    BY <2>1, Endings
  <2>3. \A s \in Slaves : pdi[s] = (owner[s] = "pdi")
    BY <2>1, <2>2 DEF Owners, Typed
  <2> QED BY <2>1, <2>2, <2>3 DEF Owed
<1> QED
  BY <1>1, EepromInvariant, PTL DEF Spec, ControlReturned
=============================================================================
