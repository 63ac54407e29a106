---------------------------- MODULE ProcessImage ----------------------------
(***************************************************************************)
(* The process image: EtherCatManager's IO map, exchanged with the slaves  *)
(* by the cycle thread, read and written by ElfinEtherCATClient.           *)
(*                                                                         *)
(* A value of the image is a word of Width bytes (4: readInput_unit and    *)
(* writeOutput_unit, 2: the half units).  The client takes iomap_mutex_    *)
(* anew for each byte, the cycle thread for each exchange, so an exchange  *)
(* can come between any two bytes of one word.  One input word and one     *)
(* output word of one slave are modelled: the words of the image are       *)
(* accessed independently, and those of a module by one thread at a time.  *)
(***************************************************************************)
EXTENDS Naturals

CONSTANTS
  Width,      (* bytes of a word                                             *)
  Byte,       (* values of a byte                                            *)
  Zero,       (* the byte the manager's constructor writes everywhere        *)
  Commands,   (* words the client writes                                     *)
  Readings    (* words the slave reports                                     *)

Word == [1 .. Width -> Byte]

ZeroWord == [k \in 1 .. Width |-> Zero]

ASSUME ImageAssumption ==
  /\ Width \in Nat \ {0}
  /\ Zero \in Byte
  /\ Commands \subseteq Word
  /\ Readings \subseteq Word

VARIABLES
  outputs,    (* the output word in the IO map                               *)
  inputs,     (* the input word in the IO map                                *)
  command,    (* the output word the slave holds                             *)
  reading,    (* the input word the slave puts into the next frame           *)
  op,         (* the accessor the client is in                               *)
  i,          (* the byte it accesses next                                   *)
  map,        (* the word it writes, or the bytes it has read                *)
  last,       (* history: the last word written to the end                   *)
  since       (* history: the input words since the read began               *)

client == <<op, i, map>>
vars   == <<outputs, inputs, command, reading, client, last, since>>

TypeOK ==
  /\ outputs \in Word
  /\ inputs  \in Word
  /\ command \in Word
  /\ reading \in Word
  /\ op      \in {"idle", "write", "readInput", "readOutput"}
  /\ i       \in 1 .. Width
  /\ map     \in Word
  /\ last    \in Word
  /\ since   \subseteq Word

Init ==
  /\ outputs = ZeroWord
  /\ inputs  = ZeroWord
  /\ command = ZeroWord
  /\ reading \in Readings
  /\ op      = "idle"
  /\ i       = 1
  /\ map     = ZeroWord
  /\ last    = ZeroWord
  /\ since   = {}

-----------------------------------------------------------------------------
(* The client: one loop over the bytes of a word, lowest first.            *)

(* Mutant: the index is not reset.                                         *)
Next_past == i' = i + 1 /\ op' = IF i = Width THEN "idle" ELSE op

(* Mutant: the loop ends one byte early.                                   *)
Next_short ==
  IF i + 1 >= Width
  THEN i' = 1 /\ op' = "idle"
  ELSE i' = i + 1 /\ op' = op

NextByte ==
  IF i = Width
  THEN i' = 1 /\ op' = "idle"
  ELSE i' = i + 1 /\ op' = op

writeOutput_unit ==
  /\ op = "idle"
  /\ \E w \in Commands : map' = w
  /\ op' = "write"
  /\ UNCHANGED <<outputs, inputs, command, reading, i, last, since>>

(* Mutant: the second byte of a half unit goes to the wrong offset.        *)
write_offset ==
  /\ op = "write"
  /\ outputs' = [outputs EXCEPT ![Width + 1 - i] = map[i]]
  /\ NextByte
  /\ last' = IF i = Width THEN map ELSE last
  /\ UNCHANGED <<inputs, command, reading, map, since>>

write ==
  /\ op = "write"
  /\ outputs' = [outputs EXCEPT ![i] = map[i]]
  /\ NextByte
  /\ last' = IF i = Width THEN map ELSE last
  /\ UNCHANGED <<inputs, command, reading, map, since>>

(* The buffer of a read is a local array without an initial value.         *)
readInput_unit ==
  /\ op = "idle"
  /\ op' = "readInput"
  /\ map' \in Word
  /\ since' = {inputs}
  /\ UNCHANGED <<outputs, inputs, command, reading, i, last>>

readOutput_unit ==
  /\ op = "idle"
  /\ op' = "readOutput"
  /\ map' \in Word
  /\ UNCHANGED <<outputs, inputs, command, reading, i, last, since>>

readInput ==
  /\ op = "readInput"
  /\ map' = [map EXCEPT ![i] = inputs[i]]
  /\ NextByte
  /\ UNCHANGED <<outputs, inputs, command, reading, last, since>>

(* Mutant: the read back takes its bytes from the input image.             *)
readOutput_input ==
  /\ op = "readOutput"
  /\ map' = [map EXCEPT ![i] = inputs[i]]
  /\ NextByte
  /\ UNCHANGED <<outputs, inputs, command, reading, last, since>>

readOutput ==
  /\ op = "readOutput"
  /\ map' = [map EXCEPT ![i] = outputs[i]]
  /\ NextByte
  /\ UNCHANGED <<outputs, inputs, command, reading, last, since>>

-----------------------------------------------------------------------------
(* The cycle thread sends the outputs and receives the inputs in one       *)
(* critical section.  The frame may get lost on its way to the slave, or   *)
(* on its way back, when the slave has already taken the outputs.          *)
Exchange(taken, returned) ==
  /\ returned => taken
  /\ command' = IF taken THEN outputs ELSE command
  /\ inputs' = IF returned THEN reading ELSE inputs
  /\ since' = IF returned /\ op = "readInput" THEN since \cup {reading} ELSE since
  /\ UNCHANGED <<outputs, reading, client, last>>

cycleWorker == \E taken, returned \in BOOLEAN : Exchange(taken, returned)

(* The slave measures anew.                                                *)
Measure ==
  /\ reading' \in Readings
  /\ UNCHANGED <<outputs, inputs, command, client, last, since>>

-----------------------------------------------------------------------------
Access == writeOutput_unit \/ write \/ readInput_unit \/ readInput \/ readOutput_unit \/ readOutput

Next == Access \/ cycleWorker \/ Measure

Spec == Init /\ [][Next]_vars

-----------------------------------------------------------------------------
(* The lower bytes of b with the higher bytes of a.                        *)
Splice(a, b, k) == [j \in 1 .. Width |-> IF j < k THEN b[j] ELSE a[j]]

(* The inductive invariant: the output word is the last word written, with *)
(* the bytes already overwritten by a write in progress; the bytes read so *)
(* far are those of words received since the read began.                   *)
ImageInv ==
  /\ op # "idle" \/ i = 1
  /\ outputs = IF op = "write" THEN Splice(last, map, i) ELSE last
  /\ op = "readInput" =>
       /\ inputs \in since
       /\ \A k \in 1 .. i - 1 : \E f \in since : map[k] = f[k]
  /\ op = "readOutput" => \A k \in 1 .. i - 1 : map[k] = outputs[k]

(* Every byte of a value readInput_unit returns was received while it ran, *)
(* or was in the image when it began.                                      *)
ReadMixesFrames ==
  [][op = "readInput" /\ op' = "idle" => \A k \in 1 .. Width : \E f \in since : map'[k] = f[k]]_vars

(* readOutput_unit returns what was last written: only the client's own    *)
(* thread changes the outputs, whatever the cycle thread does meanwhile.   *)
ReadsBackLastWrite ==
  [][op = "readOutput" /\ op' = "idle" => map' = last]_vars

(* A slave takes the last word written, or what a write in progress has    *)
(* made of it: never bytes of two writes that are both over.               *)
CommandFromLastWrite ==
  [][command' # command =>
       command' \in {last} \cup {Splice(last, map, k) : k \in IF op = "write" THEN 1 .. Width ELSE {}}]_vars

(* A write that changes nothing but the lowest byte is atomic: the slave   *)
(* takes the old word or the new one.  Controlwords (0x00, 0x06, 0x07,     *)
(* 0x0f, 0x1f, 0x86) are written so by writeOutput_half_unit.              *)
SlaveSeesWholeWords ==
  [][command' # command /\ (op = "write" => \A k \in 2 .. Width : map[k] = last[k])
       => command' \in {last, map}]_vars

-----------------------------------------------------------------------------
(* Not so: what the documentation says and TLC refutes (README,            *)
(* Disagreements); no run checks it.                                       *)

(* "the count values of the current joint positions" (the description of   *)
(* get_current_position): a value that is read was the slave's at one time.*)
ReadIsCurrent ==
  [][op = "readInput" /\ op' = "idle" => map' \in since]_vars
=============================================================================
