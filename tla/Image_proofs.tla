---------------------------- MODULE Image_proofs ----------------------------
(***************************************************************************)
(* Theorems about the process image.  How it comes about: the start of the *)
(* master on any tree of slaves (Bus).  What is read and written in it:    *)
(* words of any width over any bytes (ProcessImage).                       *)
(***************************************************************************)
EXTENDS Bus, ProcessImage, TLAPS, FiniteSetTheorems, WellFoundedInduction

-----------------------------------------------------------------------------
(* Words                                                                     *)

LEMMA ZeroIsWord == ZeroWord \in Word
BY ImageAssumption DEF ZeroWord, Word

LEMMA NextByteType ==
  ASSUME TypeOK, NextByte
  PROVE  i' \in 1 .. Width /\ op' \in {"idle", op}
BY ImageAssumption DEF TypeOK, NextByte

(* The image, what the slave holds and the client's buffer are words.      *)
THEOREM ImageTypeCorrect == Spec => []TypeOK
<1>1. Init => TypeOK
  BY ZeroIsWord, ImageAssumption DEF Init, TypeOK
<1>2. TypeOK /\ [Next]_vars => TypeOK'
  <2> SUFFICES ASSUME TypeOK, [Next]_vars PROVE TypeOK'
    OBVIOUS
  <2> USE DEF TypeOK
  <2>1. CASE writeOutput_unit
    BY <2>1, ImageAssumption DEF writeOutput_unit
  <2>2. CASE write
    BY <2>2, NextByteType DEF write, Word
  <2>3. CASE readInput_unit
    BY <2>3 DEF readInput_unit
  <2>4. CASE readInput
    BY <2>4, NextByteType DEF readInput, Word
  <2>5. CASE readOutput_unit
    BY <2>5 DEF readOutput_unit
  <2>6. CASE readOutput
    BY <2>6, NextByteType DEF readOutput, Word
  <2>7. CASE cycleWorker
    BY <2>7 DEF cycleWorker, Exchange, client
  <2>8. CASE Measure
    BY <2>8, ImageAssumption DEF Measure, client
  <2>9. CASE UNCHANGED vars
    BY <2>9 DEF vars, client
  <2>10. QED
    BY <2>1, <2>2, <2>3, <2>4, <2>5, <2>6, <2>7, <2>8, <2>9 DEF Next, Access
<1>3. QED
  BY <1>1, <1>2, PTL DEF Spec

(* What a splice is before its first byte, after one more byte, and at the *)
(* end.                                                                    *)
LEMMA SpliceSteps ==
  ASSUME NEW a \in Word, NEW b \in Word
  PROVE  /\ Splice(a, b, 1) = a
         /\ \A k \in 1 .. Width : [Splice(a, b, k) EXCEPT ![k] = b[k]] = Splice(a, b, k + 1)
         /\ Splice(a, b, Width + 1) = b
<1>1. Splice(a, b, 1) = a
  <2>1. \A j \in 1 .. Width : ~(j < 1)
    BY ImageAssumption
  <2>2. Splice(a, b, 1) = [j \in 1 .. Width |-> a[j]]
    BY <2>1 DEF Splice
  <2>3. QED
    BY <2>2 DEF Word
<1>2. ASSUME NEW k \in 1 .. Width
      PROVE  [Splice(a, b, k) EXCEPT ![k] = b[k]] = Splice(a, b, k + 1)
  <2>1. \A j \in 1 .. Width : j < k + 1 <=> j < k \/ j = k
    BY ImageAssumption
  <2>2. QED
    BY <2>1 DEF Splice
<1>3. Splice(a, b, Width + 1) = b
  <2>1. \A j \in 1 .. Width : j < Width + 1
    BY ImageAssumption
  <2>2. Splice(a, b, Width + 1) = [j \in 1 .. Width |-> b[j]]
    BY <2>1 DEF Splice
  <2>3. QED
    BY <2>2 DEF Word
<1>4. QED
  BY <1>1, <1>2, <1>3

LEMMA WordsEqual ==
  ASSUME NEW a \in Word, NEW b \in Word, \A k \in 1 .. Width : a[k] = b[k]
  PROVE  a = b
<1>1. a = [k \in 1 .. Width |-> a[k]] /\ b = [k \in 1 .. Width |-> b[k]]
  BY DEF Word
<1>2. QED
  BY <1>1

LEMMA InvInit == Init => ImageInv
BY DEF Init, ImageInv

LEMMA WriteInv ==
  ASSUME TypeOK, ImageInv, write
  PROVE  ImageInv'
<1>1. outputs' = Splice(last, map, i + 1)
  <2>1. outputs = Splice(last, map, i) /\ outputs' = [outputs EXCEPT ![i] = map[i]]
    BY DEF write, ImageInv
  <2>2. last \in Word /\ map \in Word /\ i \in 1 .. Width
    BY DEF TypeOK
  <2>3. [Splice(last, map, i) EXCEPT ![i] = map[i]] = Splice(last, map, i + 1)
    BY <2>2, SpliceSteps
  <2>4. QED
    BY <2>1, <2>3
<1>2. CASE i = Width
  BY <1>1, <1>2, SpliceSteps DEF write, NextByte, ImageInv, TypeOK
<1>3. CASE i # Width
  BY <1>1, <1>3 DEF write, NextByte, ImageInv, TypeOK
<1>4. QED
  BY <1>2, <1>3

LEMMA StepInv == TypeOK /\ ImageInv /\ [Next]_vars => ImageInv'
<1> SUFFICES ASSUME TypeOK, ImageInv, [Next]_vars PROVE ImageInv'
  OBVIOUS
<1>1. CASE writeOutput_unit
  <2>1. outputs = Splice(last, map', 1)
    BY <1>1, SpliceSteps, ImageAssumption DEF writeOutput_unit, ImageInv, TypeOK
  <2>2. QED
    BY <1>1, <2>1 DEF writeOutput_unit, ImageInv
<1>2. CASE write
  BY <1>2, WriteInv
<1>3. CASE readInput_unit
  BY <1>3 DEF readInput_unit, ImageInv, TypeOK
<1>4. CASE readInput
  BY <1>4, ImageAssumption DEF readInput, NextByte, ImageInv, TypeOK, Word
<1>5. CASE readOutput_unit
  BY <1>5 DEF readOutput_unit, ImageInv, TypeOK
<1>6. CASE readOutput
  BY <1>6, ImageAssumption DEF readOutput, NextByte, ImageInv, TypeOK, Word
<1>7. CASE cycleWorker
  BY <1>7 DEF cycleWorker, Exchange, client, ImageInv
<1>8. CASE Measure
  BY <1>8 DEF Measure, client, ImageInv
<1>9. CASE UNCHANGED vars
  BY <1>9 DEF vars, client, ImageInv
<1>10. QED
  BY <1>1, <1>2, <1>3, <1>4, <1>5, <1>6, <1>7, <1>8, <1>9 DEF Next, Access

(* The outputs are the last word written, spliced with the write under way;*)
(* the bytes read so far were received since the read began.               *)
THEOREM ImageInvariant == Spec => []ImageInv
BY InvInit, StepInv, ImageTypeCorrect, PTL DEF Spec

(* Every byte of a value read is one the slave sent during the read.       *)
THEOREM ReadsMixFrames == Spec => ReadMixesFrames
<1>1. TypeOK /\ ImageInv /\ [Next]_vars =>
        [op = "readInput" /\ op' = "idle" => \A k \in 1 .. Width : \E f \in since : map'[k] = f[k]]_vars
  <2> SUFFICES ASSUME TypeOK, ImageInv, Next, op = "readInput", op' = "idle", NEW k \in 1 .. Width
               PROVE  \E f \in since : map'[k] = f[k]
    OBVIOUS
  <2>1. readInput
    BY DEF Next, Access, writeOutput_unit, write, readInput_unit, readOutput_unit, readOutput,
           cycleWorker, Exchange, Measure, client
  <2>2. i = Width
    BY <2>1 DEF readInput, NextByte
  <2>3. map' = [map EXCEPT ![Width] = inputs[Width]]
    BY <2>1, <2>2 DEF readInput
  <2>4. CASE k = Width
    BY <2>3, <2>4 DEF ImageInv, TypeOK, Word
  <2>5. CASE k # Width
    BY <2>2, <2>3, <2>5, ImageAssumption DEF ImageInv, TypeOK, Word
  <2>6. QED
    BY <2>4, <2>5
<1>2. QED
  BY <1>1, ImageTypeCorrect, ImageInvariant, PTL DEF Spec, ReadMixesFrames

(* A word read back from the outputs is the last one written.              *)
THEOREM ReadsBack == Spec => ReadsBackLastWrite
<1>1. TypeOK /\ ImageInv /\ [Next]_vars => [op = "readOutput" /\ op' = "idle" => map' = last]_vars
  <2> SUFFICES ASSUME TypeOK, ImageInv, Next, op = "readOutput", op' = "idle"
               PROVE  map' = last
    OBVIOUS
  <2>1. readOutput
    BY DEF Next, Access, writeOutput_unit, write, readInput_unit, readOutput_unit, readInput,
           cycleWorker, Exchange, Measure, client
  <2>2. i = Width /\ map' = [map EXCEPT ![Width] = outputs[Width]]
    BY <2>1 DEF readOutput, NextByte
  <2>3. \A k \in 1 .. Width : map'[k] = outputs[k]
    BY <2>2, ImageAssumption DEF ImageInv, TypeOK, Word
  <2>4. map' \in Word /\ outputs \in Word
    BY <2>2 DEF TypeOK, Word
  <2>5. map' = outputs
    BY <2>3, <2>4, WordsEqual
  <2>6. QED
    BY <2>5 DEF ImageInv
<1>2. QED
  BY <1>1, ImageTypeCorrect, ImageInvariant, PTL DEF Spec, ReadsBackLastWrite

(* What a slave takes is the last word written or a splice of it with the  *)
(* write in progress.                                                      *)
THEOREM CommandsFromLastWrite == Spec => CommandFromLastWrite
<1>1. TypeOK /\ ImageInv /\ [Next]_vars =>
        [command' # command =>
           command' \in {last} \cup {Splice(last, map, k) : k \in IF op = "write" THEN 1 .. Width ELSE {}}]_vars
  <2> SUFFICES ASSUME TypeOK, ImageInv, Next, command' # command
               PROVE  command' \in {last} \cup {Splice(last, map, k) : k \in IF op = "write" THEN 1 .. Width ELSE {}}
    OBVIOUS
  <2>1. command' = outputs
    BY DEF Next, Access, writeOutput_unit, write, readInput_unit, readOutput_unit, readInput, readOutput,
           cycleWorker, Exchange, Measure
  <2>2. QED
    BY <2>1 DEF ImageInv, TypeOK
<1>2. QED
  BY <1>1, ImageTypeCorrect, ImageInvariant, PTL DEF Spec, CommandFromLastWrite

(* A write that changes the lowest byte only is atomic for the slave, for  *)
(* every width, as the writes of controlwords are.                         *)
THEOREM LowByteAtomic == Spec => SlaveSeesWholeWords
<1> DEFINE LowWrite == op = "write" => \A k \in 2 .. Width : map[k] = last[k]
<1>1. TypeOK /\ ImageInv /\ LowWrite => outputs \in {last, map}
  <2> SUFFICES ASSUME TypeOK, ImageInv, op = "write", \A k \in 2 .. Width : map[k] = last[k]
               PROVE  outputs \in {last, map}
    BY DEF ImageInv
  <2>1. outputs = Splice(last, map, i) /\ last \in Word /\ map \in Word /\ i \in 1 .. Width
    BY DEF ImageInv, TypeOK
  <2>2. CASE i = 1
    BY <2>1, <2>2, SpliceSteps
  <2>3. CASE i # 1
    <3>1. \A j \in 1 .. Width : Splice(last, map, i)[j] = map[j]
      <4>1. \A j \in 1 .. Width : j < i \/ j \in 2 .. Width
        BY <2>1, <2>3, ImageAssumption
      <4>2. QED
        BY <4>1 DEF Splice
    <3>2. Splice(last, map, i) \in Word
      BY <2>1 DEF Splice, Word
    <3>3. QED
      BY <2>1, <3>1, <3>2, WordsEqual
  <2>4. QED
    BY <2>2, <2>3
<1>2. TypeOK /\ ImageInv /\ [Next]_vars => [command' # command /\ LowWrite => command' \in {last, map}]_vars
  BY <1>1 DEF Next, Access, writeOutput_unit, write, readInput_unit, readOutput_unit, readInput,
              readOutput, cycleWorker, Exchange, Measure, vars
<1>3. QED
  BY <1>2, ImageTypeCorrect, ImageInvariant, PTL DEF Spec, SlaveSeesWholeWords

-----------------------------------------------------------------------------
(* Numbers and sets                                                          *)

(* A set of naturals that is not empty has a least member: induction without *)
(* an operator.                                                              *)
LEMMA Least ==
  ASSUME NEW T \in SUBSET Nat, T # {}
  PROVE  \E x \in T : \A y \in T : x <= y
<1> DEFINE R == {ss \in Nat \X Nat : ss[1] < ss[2]}
<1>1. IsWellFoundedOn(R, Nat)
  BY NatLessThanWellFounded DEF OpToRel
<1> HIDE DEF R
<1>2. PICK x \in T : \A y \in T : ~(<<y, x>> \in R)
  BY <1>1, WFMin
<1>3. \A y \in T : ~(y < x)
  BY <1>2 DEF R
<1> QED BY <1>3

LEMMA OneMore ==
  ASSUME NEW S, IsFiniteSet(S), NEW x, x \notin S
  PROVE  /\ IsFiniteSet(S \cup {x})
         /\ Cardinality(S) \in Nat /\ Cardinality(S \cup {x}) = Cardinality(S) + 1
BY FS_AddElement, FS_CardinalityType

LEMMA Interval ==
  ASSUME NEW a \in Int, NEW c \in Int, a <= c + 1
  PROVE  IsFiniteSet(a .. c) /\ Cardinality(a .. c) = c + 1 - a
<1>1. IsFiniteSet(a .. c) /\ Cardinality(a .. c) = IF a > c THEN 0 ELSE c - a + 1
  BY FS_Interval
<1> QED BY <1>1

-----------------------------------------------------------------------------
(* The tree of the slaves                                                    *)

(* What BusAssumption says of one bus.                                       *)
LEMMA Tree ==
  ASSUME NEW b \in Buses
  PROVE  /\ b.n \in Nat \ {0}
         /\ b.up[1] = 0
         /\ \A s \in 1 .. b.n : b.entry[s] \in Ports /\ b.up[s] \in 0 .. s - 1
         /\ \A s \in 2 .. b.n :
              /\ b.up[s] \in 1 .. s - 1
              /\ b.out[s] \in Ports /\ b.out[s] # b.entry[b.up[s]]
              /\ \A r \in b.up[s] + 1 .. s - 1 : b.up[r] >= b.up[s] /\ (b.up[r] = b.up[s] => b.out[r] # b.out[s])
<1>1. /\ b.n \in Nat \ {0}
      /\ \A s \in 1 .. b.n : b.entry[s] \in Ports
      /\ b.up[1] = 0
      /\ \A s \in 2 .. b.n :
           /\ b.up[s] \in 1 .. s - 1
           /\ b.out[s] \in Ports \ {b.entry[b.up[s]]}
           /\ \A r \in b.up[s] + 1 .. s - 1 : b.up[r] >= b.up[s] /\ (b.up[r] = b.up[s] => b.out[r] # b.out[s])
  BY BusAssumption
<1>2. \A s \in 1 .. b.n : b.up[s] \in 0 .. s - 1
  BY <1>1
<1> QED BY <1>1, <1>2

LEMMA ChildIs ==
  ASSUME NEW b \in Buses, NEW s \in 1 .. b.n, NEW c
  PROVE  c \in Children(b, s) => c \in 2 .. b.n /\ b.up[c] = s /\ s < c
BY Tree DEF Children

(* The open ports of a slave are one more than the slaves that hang on it.   *)
LEMMA Degree ==
  ASSUME NEW b \in Buses, NEW s \in 1 .. b.n
  PROVE  /\ IsFiniteSet(Children(b, s))
         /\ Cardinality(Children(b, s)) \in 0 .. 3
         /\ Cardinality(OpenPorts(b, s)) = Cardinality(Children(b, s)) + 1
<1> DEFINE C == Children(b, s)
           T == {b.out[c] : c \in C}
           f == [c \in C |-> b.out[c]]
<1>1. IsFiniteSet(C) /\ Cardinality(C) \in Nat
  <2>1. C \in SUBSET (1 .. b.n)
    BY DEF Children
  <2>2. IsFiniteSet(1 .. b.n)
    BY Tree, FS_Interval
  <2> QED BY <2>1, <2>2, FS_Subset, FS_CardinalityType
<1>2. ASSUME NEW c \in C, NEW d \in C, c < d PROVE b.out[c] # b.out[d]
  <2>1. c \in 2 .. b.n /\ d \in 2 .. b.n /\ b.up[c] = s /\ b.up[d] = s /\ s < c
    BY ChildIs
  <2>2. c \in b.up[d] + 1 .. d - 1
    BY <1>2, <2>1
  <2> QED BY <2>1, <2>2, Tree
<1>3. f \in Surjection(C, T)
  BY DEF Surjection
<1>4. f \in Injection(C, T)
  <2>1. \A c, d \in C : c \in Int /\ d \in Int
    BY ChildIs
  <2>2. \A c, d \in C : c # d => b.out[c] # b.out[d]
    BY <1>2, <2>1
  <2> QED BY <2>2 DEF Injection, IsInjective
<1>5. IsFiniteSet(T) /\ Cardinality(T) = Cardinality(C)
  BY <1>1, <1>3, <1>4, FS_Surjection
<1>6. OpenPorts(b, s) = T \cup {b.entry[s]}
  BY DEF OpenPorts
<1>7. b.entry[s] \notin T
  BY ChildIs, Tree
<1>8. Cardinality(OpenPorts(b, s)) = Cardinality(C) + 1
  <2> HIDE DEF T
  <2> QED BY <1>5, <1>6, <1>7, FS_AddElement
<1>9. Cardinality(OpenPorts(b, s)) <= 4
  <2>1. OpenPorts(b, s) \in SUBSET (0 .. 3)
    BY ChildIs, Tree DEF OpenPorts, Ports
  <2>2. IsFiniteSet(0 .. 3) /\ Cardinality(0 .. 3) = 4
    <3> PICK m \in Int, k \in Int : m = 0 /\ k = 3
      OBVIOUS
    <3>1. m <= k + 1
      OBVIOUS
    <3>2. IsFiniteSet(m .. k) /\ Cardinality(m .. k) = k + 1 - m
      BY <3>1, Interval, Zenon
    <3> QED BY <3>2
  <2> QED BY <2>1, <2>2, FS_Subset
<1> HIDE DEF C
<1>10. Cardinality(C) \in 0 .. 3
  BY <1>1, <1>8, <1>9
<1> QED BY <1>1, <1>8, <1>10 DEF C

(* How many slaves hang on those from a to s - 1.                            *)
Below(b, a, s) == {k \in 1 .. b.n : b.up[k] \in a .. s - 1}

Known(s) == \A j \in 1 .. s - 1 : slave[j].ports = OpenPorts(bus, j)

LEMMA FinitePairs ==
  ASSUME NEW a \in Int, NEW s \in Int
  PROVE  /\ IsFiniteSet({e \in (a .. s - 1) \X {1, 2} : e[2] <= Topology(e[1]) - 2})
         /\ IsFiniteSet({j \in a .. s - 1 : Topology(j) = 1})
<1>1. IsFiniteSet(a .. s - 1)
  BY FS_Interval
<1>2. IsFiniteSet({1, 2})
  <2>1. IsFiniteSet({1} \cup {2})
    BY FS_Singleton, FS_Union
  <2>2. {1} \cup {2} = {1, 2}
    OBVIOUS
  <2> QED BY <2>1, <2>2
<1>3. IsFiniteSet((a .. s - 1) \X {1, 2})
  BY <1>1, <1>2, FS_Product
<1>4. {e \in (a .. s - 1) \X {1, 2} : e[2] <= Topology(e[1]) - 2} \in SUBSET ((a .. s - 1) \X {1, 2})
  OBVIOUS
<1>5. {j \in a .. s - 1 : Topology(j) = 1} \in SUBSET (a .. s - 1)
  OBVIOUS
<1>6. IsFiniteSet({e \in (a .. s - 1) \X {1, 2} : e[2] <= Topology(e[1]) - 2})
  BY <1>3, <1>4, FS_Subset
<1>7. IsFiniteSet({j \in a .. s - 1 : Topology(j) = 1})
  BY <1>1, <1>5, FS_Subset
<1> QED BY <1>6, <1>7

LEMMA FiniteBelow ==
  ASSUME NEW b \in Buses, NEW a, NEW s
  PROVE  IsFiniteSet(Below(b, a, s)) /\ Cardinality(Below(b, a, s)) \in Nat
<1>1. Below(b, a, s) \in SUBSET (1 .. b.n)
  BY DEF Below
<1>2. IsFiniteSet(1 .. b.n)
  BY Tree, FS_Interval
<1> QED BY <1>1, <1>2, FS_Subset, FS_CardinalityType

(* The search goes one slave further back.                                   *)
LEMMA CountedStep ==
  ASSUME bus \in Buses, NEW s \in 2 .. bus.n, Known(s), NEW a \in 1 .. s - 1
  PROVE  /\ Topoc(a, s) = Topoc(a + 1, s) + Cardinality(Children(bus, a)) - 1
         /\ Cardinality(Below(bus, a, s)) = Cardinality(Below(bus, a + 1, s)) + Cardinality(Children(bus, a))
         /\ Topoc(a + 1, s) \in Int
<1> DEFINE A(h) == {e \in (h .. s - 1) \X {1, 2} : e[2] <= Topology(e[1]) - 2}
           B(h) == {j \in h .. s - 1 : Topology(j) = 1}
           t == Topology(a)
<1>0. bus.n \in Nat /\ a \in 1 .. bus.n /\ a \in Int /\ a + 1 \in Int /\ s \in Int
  BY Tree
<1>1. t = Cardinality(Children(bus, a)) + 1 /\ t \in {1, 2, 3, 4}
  <2>1. t = Cardinality(OpenPorts(bus, a))
    BY DEF Known, Topology
  <2> QED BY <2>1, <1>0, Degree
<1>2. /\ IsFiniteSet(A(a + 1)) /\ Cardinality(A(a + 1)) \in Nat
      /\ IsFiniteSet(B(a + 1)) /\ Cardinality(B(a + 1)) \in Nat
  BY <1>0, FinitePairs, FS_CardinalityType
<1>3. \A h : Topoc(h, s) = Cardinality(A(h)) - Cardinality(B(h))
  BY DEF Topoc
<1>4. a \notin B(a + 1) /\ B(a) = IF t = 1 THEN B(a + 1) \cup {a} ELSE B(a + 1)
  BY <1>0
<1>5. Cardinality(B(a)) = Cardinality(B(a + 1)) + IF t = 1 THEN 1 ELSE 0
  <2> HIDE DEF B, t
  <2>1. Cardinality(B(a + 1) \cup {a}) = Cardinality(B(a + 1)) + 1
    BY <1>2, <1>4, OneMore
  <2> QED BY <2>1, <1>2, <1>4
<1>6. <<a, 1>> \notin A(a + 1) /\ <<a, 2>> \notin A(a + 1)
  BY <1>0
<1>7. A(a) = A(a + 1) \cup {e \in {a} \X {1, 2} : e[2] <= t - 2}
  <2>1. a .. s - 1 = (a + 1 .. s - 1) \cup {a}
    BY <1>0
  <2> QED BY <2>1
<1>8. Cardinality(A(a)) = Cardinality(A(a + 1)) + IF t = 4 THEN 2 ELSE IF t = 3 THEN 1 ELSE 0
  <2> DEFINE more == {e \in {a} \X {1, 2} : e[2] <= t - 2}
  <2> HIDE DEF t
  <2>1. CASE t \in {1, 2}
    <3>1. more = {}
      BY <2>1
    <3>2. A(a) = A(a + 1)
      <4> HIDE DEF A, more
      <4> QED BY <1>7, <3>1 DEF more
    <3> HIDE DEF A
    <3> QED BY <3>2, <2>1, <1>2
  <2>2. CASE t = 3
    <3>1. more = {<<a, 1>>}
      BY <2>2
    <3>2. A(a) = A(a + 1) \cup {<<a, 1>>}
      <4> HIDE DEF A
      <4> QED BY <1>7, <3>1
    <3> HIDE DEF A
    <3> QED BY <3>2, <2>2, <1>2, <1>6, OneMore
  <2>3. CASE t = 4
    <3>1. more = {<<a, 1>>, <<a, 2>>}
      BY <2>3
    <3>2. A(a) = (A(a + 1) \cup {<<a, 1>>}) \cup {<<a, 2>>}
      <4> HIDE DEF A
      <4> QED BY <1>7, <3>1
    <3> HIDE DEF A
    <3>3. /\ IsFiniteSet(A(a + 1) \cup {<<a, 1>>})
          /\ Cardinality(A(a + 1) \cup {<<a, 1>>}) = Cardinality(A(a + 1)) + 1
      BY <1>2, <1>6, OneMore
    <3>4. <<a, 2>> \notin A(a + 1) \cup {<<a, 1>>}
      BY <1>6
    <3>5. Cardinality(A(a)) = Cardinality(A(a + 1) \cup {<<a, 1>>}) + 1
      <4> DEFINE A1 == A(a + 1) \cup {<<a, 1>>}
      <4> HIDE DEF A1
      <4>1. A(a) = A1 \cup {<<a, 2>>} /\ IsFiniteSet(A1) /\ <<a, 2>> \notin A1
        BY <3>2, <3>3, <3>4 DEF A1
      <4>2. Cardinality(A(a)) = Cardinality(A1) + 1
        BY <4>1, OneMore
      <4> QED BY <4>2 DEF A1
    <3> QED BY <3>3, <3>5, <2>3, <1>2
  <2>4. t \in {1, 2, 3, 4}
    BY <1>1 DEF t
  <2> HIDE DEF A
  <2> QED BY <2>1, <2>2, <2>3, <2>4
<1>9. Cardinality(Below(bus, a, s)) = Cardinality(Below(bus, a + 1, s)) + Cardinality(Children(bus, a))
  <2>1. Below(bus, a, s) = Below(bus, a + 1, s) \cup Children(bus, a)
    BY <1>0, Tree DEF Below, Children
  <2>2. Below(bus, a + 1, s) \cap Children(bus, a) = {}
    BY <1>0 DEF Below, Children
  <2>3. /\ IsFiniteSet(Below(bus, a + 1, s)) /\ Cardinality(Below(bus, a + 1, s)) \in Nat
        /\ IsFiniteSet(Children(bus, a)) /\ Cardinality(Children(bus, a)) \in 0 .. 3
    BY <1>0, FiniteBelow, Degree
  <2>4. Cardinality(Below(bus, a, s)) =
          Cardinality(Below(bus, a + 1, s)) + Cardinality(Children(bus, a)) - Cardinality({})
    BY <2>1, <2>2, <2>3, FS_Union, Zenon
  <2> QED BY <2>3, <2>4, FS_EmptySet
<1> HIDE DEF A, B, t
<1>10. Topoc(a, s) = Topoc(a + 1, s) + Cardinality(Children(bus, a)) - 1
  <2>1. Topoc(a, s) = Cardinality(A(a)) - Cardinality(B(a)) /\ Topoc(a + 1, s) = Cardinality(A(a + 1)) - Cardinality(B(a + 1))
    BY <1>3
  <2>2. t = Cardinality(Children(bus, a)) + 1 /\ t \in {1, 2, 3, 4}
    BY <1>1 DEF t
  <2>3. Cardinality(Children(bus, a)) \in Nat
    BY <1>0, Degree
  <2>4. Cardinality(B(a)) = Cardinality(B(a + 1)) + IF t = 1 THEN 1 ELSE 0
    BY <1>5 DEF t
  <2>5. Cardinality(A(a)) = Cardinality(A(a + 1)) + IF t = 4 THEN 2 ELSE IF t = 3 THEN 1 ELSE 0
    BY <1>8 DEF t
  <2> QED BY <2>1, <2>2, <2>3, <2>4, <2>5, <1>2
<1> QED BY <1>9, <1>10, <1>2, <1>3

(* An end point stands for one slave less, a split for one more: what the    *)
(* search counts is how many more slaves hang on those from a to s - 1 than  *)
(* there are.                                                                *)
LEMMA Counted ==
  ASSUME bus \in Buses, NEW s \in 2 .. bus.n, Known(s), NEW a \in 1 .. s
  PROVE  Topoc(a, s) + (s - a) = Cardinality(Below(bus, a, s))
<1> DEFINE Good(h) == Topoc(h, s) + (s - h) = Cardinality(Below(bus, h, s))
           Bad == {d \in 0 .. s - 1 : ~Good(s - d)}
<1>0. s \in Nat /\ bus.n \in Nat
  BY Tree
<1>1. Bad \in SUBSET Nat /\ \A d : d \in Bad <=> d \in 0 .. s - 1 /\ ~Good(s - d)
  BY <1>0
<1> HIDE DEF Bad
<1>2. Good(s)
  <2>1. {e \in (s .. s - 1) \X {1, 2} : e[2] <= Topology(e[1]) - 2} = {} /\ {j \in s .. s - 1 : Topology(j) = 1} = {}
    BY <1>0
  <2>2. Topoc(s, s) = 0
    <3>1. Topoc(s, s) = Cardinality({}) - Cardinality({})
      BY <2>1, Zenon DEF Topoc
    <3> QED BY <3>1, FS_EmptySet
  <2>3. Below(bus, s, s) = {}
    BY <1>0 DEF Below
  <2> QED BY <2>2, <2>3, <1>0, FS_EmptySet
<1>3. ASSUME Bad # {} PROVE FALSE
  <2> PICK d \in Bad : \A y \in Bad : d <= y
    BY <1>1, <1>3, Least
  <2> HIDE DEF Good
  <2>1. d \in 0 .. s - 1 /\ ~Good(s - d)
    BY <1>1
  <2>2. d # 0
    BY <2>1, <1>2, <1>0
  <2>3. d - 1 \in 0 .. s - 1 /\ Good(s - (d - 1))
    <3>1. d - 1 \in 0 .. s - 1
      BY <2>1, <2>2, <1>0
    <3>2. d - 1 \notin Bad
      BY <2>1
    <3> QED BY <3>1, <3>2, <1>1
  <2>4. PICK h \in 1 .. s - 1 : h = s - d /\ h + 1 = s - (d - 1)
    BY <2>1, <2>2, <1>0
  <2>5. Good(h + 1)
    BY <2>3, <2>4
  <2>6. Good(h)
    <3>1. h + 1 \in 1 .. s /\ h \in 1 .. bus.n
      BY <1>0
    <3>2. /\ Topoc(h, s) = Topoc(h + 1, s) + Cardinality(Children(bus, h)) - 1
          /\ Cardinality(Below(bus, h, s)) = Cardinality(Below(bus, h + 1, s)) + Cardinality(Children(bus, h))
          /\ Topoc(h + 1, s) \in Int
      BY CountedStep
    <3>3. Cardinality(Children(bus, h)) \in 0 .. 3
      BY <3>1, Degree
    <3> QED BY <2>5, <3>2, <3>3, <1>0 DEF Good
  <2> QED BY <2>1, <2>4, <2>6
<1>4. s - a \notin Bad
  BY <1>3
<1>5. s - a \in 0 .. s - 1 /\ s - (s - a) = a
  BY <1>0
<1> HIDE DEF Good
<1>6. Good(a)
  BY <1>1, <1>4, <1>5
<1> QED BY <1>6 DEF Good

(* The search finds the parent.                                              *)
LEMMA Found ==
  ASSUME bus \in Buses, NEW s \in 1 .. bus.n, Known(s)
  PROVE  SearchParent(s) = bus.up[s]
<1>1. CASE s = 1
  BY <1>1, Tree DEF SearchParent
<1>2. CASE s # 1
  <2> DEFINE p == bus.up[s]
             F == {a \in 1 .. s - 1 : a = 1 \/ (Topoc(a, s) >= 0 /\ Topology(a) > 1)}
  <2>0. bus.n \in Nat /\ s \in 2 .. bus.n /\ p \in 1 .. s - 1 /\ p \in 1 .. bus.n
    BY <1>2, Tree
  <2> HIDE DEF p
  <2>1. \A a \in 1 .. s : Topoc(a, s) + (s - a) = Cardinality(Below(bus, a, s)) /\ Topoc(a, s) \in Int
    <3> TAKE a \in 1 .. s
    <3>1. Topoc(a, s) + (s - a) = Cardinality(Below(bus, a, s))
      BY <2>0, Counted
    <3>2. Topoc(a, s) \in Int
      <4>1. a \in Int /\ s \in Int
        BY <2>0
      <4>2. /\ Cardinality({e \in (a .. s - 1) \X {1, 2} : e[2] <= Topology(e[1]) - 2}) \in Nat
            /\ Cardinality({j \in a .. s - 1 : Topology(j) = 1}) \in Nat
        BY <4>1, FinitePairs, FS_CardinalityType, Zenon
      <4> QED BY <4>2 DEF Topoc
    <3> QED BY <3>1, <3>2
  <2>2. Topoc(p, s) >= 0
    <3>1. p + 1 .. s \in SUBSET Below(bus, p, s)
      <4> SUFFICES ASSUME NEW k \in p + 1 .. s PROVE k \in 1 .. bus.n /\ bus.up[k] \in p .. s - 1
        BY DEF Below
      <4>1. k \in 2 .. bus.n /\ bus.up[k] \in 1 .. k - 1
        BY <2>0, Tree
      <4>2. bus.up[k] >= p
        BY <4>1, <2>0, Tree DEF p
      <4> QED BY <4>1, <4>2, <2>0
    <3>2. Cardinality(p + 1 .. s) <= Cardinality(Below(bus, p, s))
      BY <3>1, FiniteBelow, FS_Subset
    <3>3. Cardinality(p + 1 .. s) = s - p
      <4>1. Cardinality(p + 1 .. s) = IF p + 1 > s THEN 0 ELSE s - (p + 1) + 1
        BY <2>0, FS_Interval
      <4> QED BY <4>1, <2>0
    <3>4. Topoc(p, s) + (s - p) = Cardinality(Below(bus, p, s)) /\ Topoc(p, s) \in Int
      BY <2>1, <2>0
    <3> QED BY <3>2, <3>3, <3>4, <2>0, FiniteBelow
  <2>3. Topology(p) > 1
    <3>1. s \in Children(bus, p)
      BY <2>0 DEF Children, p
    <3>2. Cardinality(Children(bus, p)) > 0
      BY <3>1, <2>0, Degree, FS_EmptySet
    <3> QED BY <3>2, <2>0, Degree DEF Known, Topology
  <2>4. ASSUME NEW a \in F, a > p PROVE FALSE
    <3>1. a \in 1 .. s - 1 /\ a # 1 /\ Topoc(a, s) >= 0
      BY <2>4, <2>0
    <3>2. Below(bus, a, s) \in SUBSET (a + 1 .. s - 1)
      <4> SUFFICES ASSUME NEW k \in Below(bus, a, s) PROVE k \in a + 1 .. s - 1
        OBVIOUS
      <4>1. k \in 1 .. bus.n /\ bus.up[k] \in a .. s - 1
        BY DEF Below
      <4>2. k \in 2 .. bus.n /\ bus.up[k] \in 1 .. k - 1 /\ k > a
        BY <4>1, <3>1, <2>0, Tree
      <4>3. k # s
        BY <4>1, <2>4, <2>0 DEF p
      <4>4. ~(k > s)
        <5> SUFFICES ASSUME k > s PROVE FALSE
          OBVIOUS
        <5>1. s \in bus.up[k] + 1 .. k - 1
          BY <4>1, <4>2, <2>0
        <5>2. bus.up[s] >= bus.up[k]
          BY <5>1, <4>2, Tree
        <5> QED BY <5>2, <4>1, <2>4, <3>1, <2>0 DEF p
      <4> QED BY <4>2, <4>3, <4>4, <2>0, <3>1
    <3>3. Cardinality(a + 1 .. s - 1) = s - 1 - a /\ IsFiniteSet(a + 1 .. s - 1)
      <4>1. /\ IsFiniteSet(a + 1 .. s - 1)
            /\ Cardinality(a + 1 .. s - 1) = IF a + 1 > s - 1 THEN 0 ELSE s - 1 - (a + 1) + 1
        BY <3>1, <2>0, FS_Interval
      <4> QED BY <4>1, <3>1, <2>0
    <3>4. Cardinality(Below(bus, a, s)) <= s - 1 - a
      BY <3>2, <3>3, FS_Subset
    <3> QED BY <3>1, <3>4, <2>0, <2>1, FiniteBelow
  <2>5. p \in F /\ \A a \in F : p >= a
    BY <2>0, <2>2, <2>3, <2>4
  <2>6. Max(F) = p
    <3> HIDE DEF F
    <3>1. F \subseteq Int
      BY <2>0 DEF F
    <3>2. \A x \in F : (\A y \in F : x >= y) => x = p
      BY <3>1, <2>5
    <3> QED BY <2>5, <3>2 DEF Max
  <2> QED BY <2>6, <1>2 DEF SearchParent, p
<1> QED BY <1>1, <1>2

-----------------------------------------------------------------------------
(* Where the master is once the slaves are there, and when it knows the      *)
(* ports of some of them.                                                    *)
Early == {"address", "man", "id", "rev", "mbx", "setup"}
Fields == {"ports", "parent", "al"}

ScanInv ==
  /\ bus \in Buses
  /\ pc \in {"detect", "none"} => slave = << >>
  /\ pc \notin {"detect", "none"} =>
       /\ at \in 1 .. bus.n
       /\ slave = [s \in 1 .. bus.n |-> slave[s]]
       /\ \A s \in 1 .. bus.n :
            /\ Fields \subseteq DOMAIN slave[s]
            /\ slave[s].ports \in {{}, OpenPorts(bus, s)}
            /\ pc \in Early /\ (pc = "setup" => s >= at) => slave[s].al = "init"
  /\ ParentRight

LEMMA Length ==
  ASSUME bus \in Buses, slave = [s \in 1 .. bus.n |-> slave[s]]
  PROVE  Len(slave) = bus.n
<1>1. bus.n \in Nat
  BY Tree
<1> QED BY <1>1

LEMMA HasPorts ==
  ASSUME NEW b \in Buses, NEW s \in 1 .. b.n
  PROVE  OpenPorts(b, s) # {}
BY DEF OpenPorts

(* A slave's entry with the same ports and the same parent.                  *)
Keeps(r, q) ==
  /\ Fields \subseteq DOMAIN q /\ q.ports = r.ports /\ q.parent = r.parent
  /\ r.al = "init" => q.al = "init"

LEMMA Changed ==
  ASSUME NEW r, Fields \subseteq DOMAIN r, NEW x, x \notin Fields, NEW v
  PROVE  Keeps(r, [r EXCEPT ![x] = v])
BY DEF Keeps, Fields

LEMMA KeepsOn ==
  ASSUME NEW r, NEW q, NEW p, Keeps(r, q), Keeps(q, p)
  PROVE  Keeps(r, p)
BY DEF Keeps

(* A step that leaves ports, parents and the rest of the picture alone.      *)
LEMMA Apart ==
  ASSUME ScanInv, bus' = bus, pc \notin {"detect", "none"}, pc' \notin {"detect", "none"},
         pc' \in Early => pc \in Early \ {"setup"},
         at' \in 1 .. bus.n, slave' = [s \in 1 .. bus.n |-> slave'[s]],
         \A s \in 1 .. bus.n : Keeps(slave[s], slave'[s])
  PROVE  ScanInv'
<1> bus.n \in Nat
  BY Tree DEF ScanInv
<1>1. \A s \in 1 .. bus.n :
        /\ Fields \subseteq DOMAIN slave'[s]
        /\ slave'[s].ports \in {{}, OpenPorts(bus, s)}
        /\ pc' \in Early => slave'[s].al = "init"
  BY DEF ScanInv, Keeps
<1>2. ParentRight'
  <2> SUFFICES ASSUME NEW s \in DOMAIN slave', slave'[s].al # "init", \A j \in 1 .. s - 1 : slave'[j].ports # {}
               PROVE  slave'[s].parent = bus.up[s]
    BY DEF ParentRight
  <2>1. DOMAIN slave' = 1 .. bus.n
    OBVIOUS
  <2>2. s \in DOMAIN slave /\ \A j \in 1 .. s - 1 : j \in 1 .. bus.n
    BY <2>1 DEF ScanInv
  <2>3. \A j \in 1 .. s - 1 : slave[j].ports # {}
    BY <2>2 DEF Keeps
  <2>4. slave[s].al # "init" /\ slave'[s].parent = slave[s].parent
    BY <2>1 DEF Keeps
  <2> QED BY <2>2, <2>3, <2>4 DEF ScanInv, ParentRight
<1> QED BY <1>1, <1>2 DEF ScanInv

LEMMA Entry ==
  ASSUME ScanInv, pc \notin {"detect", "none"}
  PROVE  /\ at \in 1 .. bus.n /\ bus.n \in Nat /\ Len(slave) = bus.n
         /\ slave = [s \in 1 .. bus.n |-> slave[s]] /\ DOMAIN slave = 1 .. bus.n
         /\ \A s \in 1 .. bus.n : Fields \subseteq DOMAIN slave[s] /\ Keeps(slave[s], slave[s])
BY Length, Tree DEF ScanInv, Keeps

(* A step of one of the loops over the slaves.                               *)
LEMMA Loops ==
  ASSUME ScanInv, bus' = bus, pc \notin {"detect", "none"}, NEW then, NEW again, NextSlave(then, again),
         {then, again} \cap {"detect", "none"} = {},
         {then, again} \cap Early # {} => pc \in Early \ {"setup"},
         NEW q, Keeps(slave[at], q), slave' = [slave EXCEPT ![at] = q]
  PROVE  ScanInv'
<1>1. at' \in 1 .. bus.n /\ pc' \in {then, again}
  BY Entry DEF NextSlave
<1>2. slave' = [s \in 1 .. bus.n |-> slave'[s]] /\ \A s \in 1 .. bus.n : Keeps(slave[s], slave'[s])
  BY Entry
<1> QED BY <1>1, <1>2, Apart

LEMMA SameSlave ==
  ASSUME ScanInv, pc \notin {"detect", "none"}, slave' = slave
  PROVE  slave' = [slave EXCEPT ![at] = slave[at]] /\ Keeps(slave[at], slave[at])
BY Entry

LEMMA DetectStep == ASSUME ScanInv, at = 1, Detect PROVE ScanInv'
<1>0. bus \in Buses /\ bus' = bus /\ bus.n \in Nat /\ 1 \in 1 .. bus.n /\ at' = 1
  BY Tree DEF ScanInv, Detect
<1>1. CASE slave' = slave /\ pc' = "none"
  BY <1>0, <1>1 DEF ScanInv, Detect, ParentRight, Early
<1>2. CASE slave' = [s \in 1 .. bus.n |-> Blank] /\ pc' = "address"
  <2>1. \A s \in 1 .. bus.n : slave'[s] = Blank
    BY <1>2
  <2>2. Blank.al = "init" /\ Blank.ports = {} /\ Fields \subseteq DOMAIN Blank
    BY DEF Blank, Fields
  <2>3. DOMAIN slave' = 1 .. bus.n /\ slave' = [s \in 1 .. bus.n |-> slave'[s]]
    BY <1>2
  <2>4. ParentRight'
    BY <2>1, <2>2, <2>3 DEF ParentRight
  <2> QED BY <1>0, <1>2, <2>1, <2>2, <2>3, <2>4 DEF ScanInv
<1> QED BY <1>1, <1>2 DEF Detect

LEMMA AddressStep == ASSUME ScanInv, Address PROVE ScanInv'
<1>1. PICK answers \in BOOLEAN : slave' = [slave EXCEPT ![at].adr = answers]
  BY DEF Address
<1>2. Keeps(slave[at], [slave[at] EXCEPT !.adr = answers])
  BY Entry, Changed DEF Address, Fields
<1> QED BY <1>1, <1>2, Loops DEF Address, Early

LEMMA WordStep ==
  ASSUME ScanInv, NEW field \in {"man", "id", "rev", "mbx"}, NEW value, NEW nothing, NEW then \in Early,
         SiiWord(field, value, nothing, then)
  PROVE  ScanInv'
<1>1. PICK v : slave' = [slave EXCEPT ![at][field] = v]
  BY DEF SiiWord
<1>2. Keeps(slave[at], [slave[at] EXCEPT ![field] = v])
  BY Entry, Changed DEF SiiWord, Fields
<1> QED BY <1>1, <1>2, Loops DEF SiiWord, Early

(* What Setup makes of a slave.                                              *)
LEMMA SetupEntry ==
  ASSUME ScanInv, Setup
  PROVE  \E q : /\ slave' = [slave EXCEPT ![at] = q]
                /\ Fields \subseteq DOMAIN q
                /\ q.ports \in {{}, OpenPorts(bus, at)}
                /\ q.parent = SearchParent(at)
<1> DEFINE own == slave[at]
           k   == Kind(at)
           read(got) == [own EXCEPT !.hasdc = "dc" \in got /\ k.dc,
                                    !.ports = IF "ports" \in got THEN OpenPorts(bus, at) ELSE {},
                                    !.parent = SearchParent(at)]
           mbox(got) == IF ~own.mbx THEN read(got)
                        ELSE [read(got) EXCEPT !.type = MailboxTypes,
                                          !.sm = (0 :> k.sm[1]) @@ (1 :> k.sm[2]) @@ @,
                                          !.proto = IF "proto" \in got THEN k.proto ELSE {}]
           sms(got)  == IF Earlier(at) # {} THEN Copied(at, mbox(got))
                        ELSE IF "sii" \in got THEN FromSii(k, mbox(got)) ELSE mbox(got)
           safe(got) == IF ~own.mbx THEN sms(got)
                        ELSE [sms(got) EXCEPT !.sm = [m \in DOMAIN @ |->
                               IF m < 2 /\ @[m].start = 0 THEN DefaultMbx[m] ELSE @[m]]]
           end(got)  == [safe(got) EXCEPT !.pdi = TRUE, !.al = IF "preop" \in got THEN "pre" ELSE @]
           Set(q) == /\ Fields \subseteq DOMAIN q
                     /\ q.ports \in {{}, OpenPorts(bus, at)}
                     /\ q.parent = SearchParent(at)
<1>1. PICK got : slave' = [slave EXCEPT ![at] = end(got)]
  BY ZenonT(90) DEF Setup
<1>2. Fields \subseteq DOMAIN own
  BY Entry DEF Setup
<1>3. Set(read(got))
  BY <1>2 DEF Fields
<1> HIDE DEF read
<1>4. Set(mbox(got))
  BY <1>3 DEF Fields
<1> HIDE DEF mbox
<1>5. Set(sms(got))
  BY <1>4 DEF Fields, Copied, FromSii
<1> HIDE DEF sms
<1>6. Set(safe(got))
  BY <1>5 DEF Fields
<1> HIDE DEF safe
<1>7. Set(end(got))
  BY <1>6 DEF Fields
<1> QED BY <1>1, <1>7

LEMMA SetupStep == ASSUME ScanInv, Setup PROVE ScanInv'
<1>0. bus' = bus /\ pc = "setup" /\ NextSlave("coe", "setup")
  BY DEF Setup
<1>1. /\ bus \in Buses /\ at \in 1 .. bus.n /\ bus.n \in Nat /\ Len(slave) = bus.n
      /\ slave = [s \in 1 .. bus.n |-> slave[s]]
  BY <1>0, Entry DEF ScanInv
<1> PICK q : /\ slave' = [slave EXCEPT ![at] = q]
             /\ Fields \subseteq DOMAIN q
             /\ q.ports \in {{}, OpenPorts(bus, at)}
             /\ q.parent = SearchParent(at)
  BY SetupEntry
<1>2. /\ slave' = [s \in 1 .. bus.n |-> slave'[s]] /\ DOMAIN slave' = 1 .. bus.n
      /\ slave'[at] = q /\ \A s \in 1 .. bus.n : s # at => slave'[s] = slave[s]
  BY <1>1
<1>3. /\ at' \in 1 .. bus.n
      /\ (pc' = "setup" /\ at' = at + 1) \/ (pc' = "coe" /\ at = bus.n)
  BY <1>0, <1>1 DEF NextSlave
<1>4. \A s \in 1 .. bus.n :
        /\ Fields \subseteq DOMAIN slave'[s]
        /\ slave'[s].ports \in {{}, OpenPorts(bus, s)}
        /\ s > at => slave'[s].al = "init"
  <2> TAKE s \in 1 .. bus.n
  <2>1. CASE s = at
    BY <2>1, <1>2
  <2>2. CASE s # at
    <3>1. slave'[s] = slave[s] /\ s \in Int /\ at \in Int
      BY <2>2, <1>1, <1>2
    <3>2. Fields \subseteq DOMAIN slave[s] /\ slave[s].ports \in {{}, OpenPorts(bus, s)}
      BY <1>0 DEF ScanInv
    <3>3. s >= at => slave[s].al = "init"
      BY <1>0 DEF ScanInv, Early
    <3> QED BY <3>1, <3>2, <3>3
  <2> QED BY <2>1, <2>2
<1>5. ParentRight'
  <2> SUFFICES ASSUME NEW s \in 1 .. bus.n, slave'[s].al # "init", \A j \in 1 .. s - 1 : slave'[j].ports # {}
               PROVE  slave'[s].parent = bus.up[s]
    BY <1>0, <1>2 DEF ParentRight
  <2>1. s <= at
    BY <1>1, <1>4
  <2>2. \A j \in 1 .. s - 1 : j \in 1 .. bus.n /\ slave'[j] = slave[j] /\ slave[j].ports # {}
    BY <1>1, <1>2, <2>1
  <2>3. CASE s < at
    <3>1. ParentRight /\ s \in DOMAIN slave /\ slave'[s] = slave[s]
      BY <1>1, <1>2, <2>3 DEF ScanInv
    <3>2. slave[s].al # "init" /\ \A j \in 1 .. s - 1 : slave[j].ports # {}
      BY <2>2, <3>1
    <3>3. slave[s].parent = bus.up[s]
      BY <3>1, <3>2 DEF ParentRight
    <3> QED BY <3>1, <3>3
  <2>4. CASE s = at
    <3>1. Known(at)
      BY <1>0, <2>2, <2>4 DEF Known, ScanInv
    <3> QED BY <1>1, <1>2, <2>4, <3>1, Found
  <2> QED BY <2>1, <2>3, <2>4, <1>1
<1>6. \A s \in 1 .. bus.n : (pc' \in Early /\ (pc' = "setup" => s >= at')) => slave'[s].al = "init"
  BY <1>1, <1>3, <1>4 DEF Early
<1> QED BY <1>0, <1>1, <1>2, <1>3, <1>4, <1>5, <1>6 DEF ScanInv

LEMMA ScanStep == ASSUME ScanInv, pc = "detect" => at = 1, Scan PROVE ScanInv'
<1>1. CASE Detect
  BY <1>1, DetectStep DEF Detect
<1>2. CASE Address
  BY <1>2, AddressStep
<1>3. CASE ReadMan
  BY <1>3, WordStep DEF ReadMan, Early
<1>4. CASE ReadId
  BY <1>4, WordStep DEF ReadId, Early
<1>5. CASE ReadRev
  BY <1>5, WordStep DEF ReadRev, Early
<1>6. CASE ReadMbx
  BY <1>6, WordStep DEF ReadMbx, Early
<1>7. CASE Setup
  BY <1>7, SetupStep
<1> QED BY <1>1, <1>2, <1>3, <1>4, <1>5, <1>6, <1>7 DEF Scan

LEMMA ReadMapKeeps ==
  ASSUME NEW r, Fields \subseteq DOMAIN r, NEW k, NEW ca, NEW miss
  PROVE  Keeps(r, ReadMap(r, k, ca, miss))
BY DEF ReadMap, Keeps, Fields

LEMMA CoeSoeStep == ASSUME ScanInv, MapCoeSoe PROVE ScanInv'
<1> DEFINE own == slave[at]
           k   == Kind(at)
           on  == own.al = "pre"
           coe == "coe" \in own.proto
           soe == "soe" \in own.proto
           byCa(m1) == IF coe /\ own.ca /\ on THEN ReadMap(own, k, TRUE, m1) ELSE own
           byCoe(m1, m2) == IF coe /\ Empty(byCa(m1)) /\ on THEN ReadMap(byCa(m1), k, FALSE, m2) ELSE byCa(m1)
           end(m1, m2, m3) ==
             LET got  == on /\ m3 = {}
                 o    == IF got THEN k.soe[1] ELSE 0
                 a    == IF got THEN k.soe[2] ELSE 0
             IN IF soe /\ Empty(byCoe(m1, m2))
                THEN [byCoe(m1, m2) EXCEPT !.obits = o, !.ibits = a,
                                           !.sm = [@ EXCEPT ![2].len = Bytes(o), ![3].len = Bytes(a)]]
                ELSE byCoe(m1, m2)
           some1 == IF coe /\ own.ca /\ on THEN Losses(Objects(k, TRUE)) ELSE {{}}
           some2(m1) == IF coe /\ Empty(byCa(m1)) /\ on THEN Losses(Objects(k, FALSE)) ELSE {{}}
           some3(m1, m2) == IF soe /\ Empty(byCoe(m1, m2)) /\ on THEN Losses({"idn"}) ELSE {{}}
<1>0. bus' = bus /\ pc = "coe" /\ NextSlave("sii", "coe") /\ Fields \subseteq DOMAIN own /\ Keeps(own, own)
  BY Entry DEF MapCoeSoe
<1>a. \E m1 \in some1 : \E m2 \in some2(m1) : \E m3 \in some3(m1, m2) :
         /\ Budget(Cardinality(m1) + Cardinality(m2) + Cardinality(m3))
         /\ slave' = [slave EXCEPT ![at] = end(m1, m2, m3)]
  BY DEF MapCoeSoe
<1> HIDE DEF some1, some2, some3, end
<1>1. PICK m1, m2, m3 : slave' = [slave EXCEPT ![at] = end(m1, m2, m3)]
  BY <1>a
<1> USE DEF end
<1> HIDE DEF on, coe, soe, k
<1>2. Keeps(own, byCa(m1)) /\ Fields \subseteq DOMAIN byCa(m1)
  <2>1. Keeps(own, byCa(m1))
    <3> HIDE DEF own
    <3> QED BY <1>0, ReadMapKeeps
  <2> QED BY <2>1 DEF Keeps
<1> HIDE DEF byCa
<1>3. Keeps(own, byCoe(m1, m2)) /\ Fields \subseteq DOMAIN byCoe(m1, m2)
  <2>1. Keeps(own, byCoe(m1, m2))
    <3> HIDE DEF own
    <3> QED BY <1>2, ReadMapKeeps, KeepsOn
  <2> QED BY <2>1 DEF Keeps
<1> HIDE DEF own, byCoe
<1>4. Keeps(own, end(m1, m2, m3))
  BY <1>3 DEF Keeps, Fields
<1> HIDE DEF end
<1> QED BY <1>0, <1>1, <1>4, Loops DEF own, Early

LEMMA SiiSmStep == ASSUME ScanInv, MapSiiSm PROVE ScanInv'
<1> DEFINE own  == slave[at]
           prev == IF Empty(own) /\ Earlier(at) # {} THEN FromEarlier(own, slave[Min(Earlier(at))]) ELSE own
<1>0. bus' = bus /\ pc = "sii" /\ NextSlave("out", "sii") /\ Fields \subseteq DOMAIN own /\ Keeps(own, own)
  BY Entry DEF MapSiiSm
<1>1. PICK q : /\ slave' = [slave EXCEPT ![at] = Programmed(q)]
               /\ q = prev \/ q = FromPdoSections(prev, Kind(at))
  BY DEF MapSiiSm
<1>2. Keeps(own, prev)
  BY <1>0 DEF FromEarlier, Keeps, Fields
<1> HIDE DEF own, prev
<1>3. Keeps(own, q)
  BY <1>1, <1>2 DEF FromPdoSections, Keeps, Fields
<1>4. Keeps(own, Programmed(q))
  BY <1>3 DEF Programmed, Keeps, Fields
<1> QED BY <1>0, <1>1, <1>4, Loops DEF own, Early

LEMMA StayStep ==
  ASSUME ScanInv, bus' = bus, pc \notin Early \cup {"detect", "none"}, pc' \notin Early \cup {"detect", "none"},
         at' \in 1 .. bus.n, NEW q, Keeps(slave[at], q), slave' = [slave EXCEPT ![at] = q]
  PROVE  ScanInv'
<1>1. slave' = [s \in 1 .. bus.n |-> slave'[s]] /\ \A s \in 1 .. bus.n : Keeps(slave[s], slave'[s])
  BY Entry
<1> QED BY <1>1, Apart

LEMMA FmmuStep == ASSUME ScanInv, NEW dir, pc \in {"out", "in"}, Fmmu(dir) PROVE ScanInv'
<1>0. UNCHANGED <<bus, pc, at>>
  BY DEF Fmmu
<1> DEFINE r     == slave[at]
           whole == IF dir = Out THEN r.obytes ELSE r.ibytes
           bits  == IF dir = Out THEN r.obits ELSE r.ibits
           m     == NextSm(r, dir, fm.sm)
           g     == Gather(r, dir, [sm |-> m, bytes |-> fm.bytes + r.sm[m].len, bits |-> fm.bits + 8 * r.sm[m].len,
                                    end |-> r.sm[m].start + r.sm[m].len, open |-> TRUE])
           lastbit  == area.bit + bits - 1
           start == IF whole > 0 /\ area.bit > 0 THEN area.log + 1 ELSE area.log
           f     == IF whole > 0
                    THEN [dir |-> dir, phys |-> r.sm[m].start, log |-> start, bit |-> 0, endbit |-> 7,
                          len |-> IF g.bytes + fm.done > whole THEN whole - fm.done ELSE g.bytes]
                    ELSE [dir |-> dir, phys |-> r.sm[m].start, log |-> start, bit |-> area.bit, endbit |-> lastbit % 8,
                          len |-> 1 + lastbit \div 8]
<1>1. slave' = [slave EXCEPT ![at].fmmu = Append(@, f),
                             ![at].outputs = IF dir = Out /\ @ = <<>> THEN <<f.log, f.bit>> ELSE @,
                             ![at].inputs = IF dir = In /\ @ = <<>> THEN <<f.log, f.bit>> ELSE @]
  BY Zenon DEF Fmmu
<1> HIDE DEF f
<1>2. /\ slave = [s \in 1 .. bus.n |-> slave[s]] /\ DOMAIN slave = 1 .. bus.n /\ at \in 1 .. bus.n
      /\ Fields \subseteq DOMAIN slave[at]
  BY Entry
<1>3. \A s \in 1 .. bus.n : Keeps(slave[s], slave'[s])
  <2> TAKE s \in 1 .. bus.n
  <2>1. CASE s = at
    <3>1. Keeps(slave[at], slave'[at])
      BY <1>1, <1>2 DEF Keeps, Fields
    <3> QED BY <3>1, <2>1
  <2>2. CASE s # at
    <3>1. slave'[s] = slave[s]
      BY <1>1, <1>2, <2>2
    <3> QED BY <3>1, Entry
  <2> QED BY <2>1, <2>2
<1>4. slave' = [s \in 1 .. bus.n |-> slave'[s]]
  BY <1>1, <1>2
<1> QED BY <1>0, <1>2, <1>3, <1>4, Apart DEF Early

LEMMA MapStep == ASSUME ScanInv, Map PROVE ScanInv'
<1>0. pc \notin Early \cup {"detect", "none"} /\ bus' = bus
  BY DEF Map, MapCoeSoe, MapSiiSm, FmmuOut, FmmuIn, Fmmu, OutputsDone, OutputsEnd, InputsDone, InputsEnd, Early
<1>1. CASE MapCoeSoe
  BY <1>1, CoeSoeStep
<1>2. CASE MapSiiSm
  BY <1>2, SiiSmStep
<1>3. CASE FmmuOut \/ FmmuIn
  BY <1>3, FmmuStep DEF FmmuOut, FmmuIn
<1>4. CASE OutputsDone
  <2>1. slave' = [slave EXCEPT ![at] = slave[at]] /\ Keeps(slave[at], slave[at])
    BY <1>0, <1>4, SameSlave DEF OutputsDone
  <2>2. pc' \notin Early \cup {"detect", "none"} /\ at' \in 1 .. bus.n
    BY <1>0, <1>4, Entry DEF OutputsDone, NextSlave, Early
  <2> QED BY <1>0, <2>1, <2>2, StayStep
<1>5. CASE OutputsEnd
  <2>1. slave' = [slave EXCEPT ![at] = slave[at]] /\ Keeps(slave[at], slave[at])
    BY <1>0, <1>5, SameSlave DEF OutputsEnd
  <2>2. pc' \notin Early \cup {"detect", "none"} /\ at' \in 1 .. bus.n
    BY <1>0, <1>5, Entry DEF OutputsEnd, Early
  <2> QED BY <1>0, <2>1, <2>2, StayStep
<1>6. CASE InputsDone
  <2>1. PICK al : /\ slave' = [slave EXCEPT ![at].pdi = TRUE, ![at].al = al]
                  /\ slave[at].al = "init" => al = "init"
    BY <1>6, <1>0, Entry DEF InputsDone
  <2> DEFINE q == [[slave[at] EXCEPT !.pdi = TRUE] EXCEPT !.al = al]
  <2>2. slave' = [slave EXCEPT ![at] = q]
    BY <2>1, <1>0, Entry
  <2>3. Keeps(slave[at], q)
    BY <2>1, <1>0, Entry DEF Keeps, Fields
  <2>4. pc' \notin Early \cup {"detect", "none"} /\ at' \in 1 .. bus.n
    BY <1>0, <1>6, Entry DEF InputsDone, NextSlave, Early
  <2> HIDE DEF q
  <2> QED BY <1>0, <2>2, <2>3, <2>4, StayStep
<1>7. CASE InputsEnd
  <2>1. pc' \notin Early \cup {"detect", "none"} /\ at' \in 1 .. bus.n
    BY <1>0, <1>7, Entry DEF InputsEnd, Early
  <2>2. CASE slave' = slave
    <3>1. slave' = [slave EXCEPT ![at] = slave[at]] /\ Keeps(slave[at], slave[at])
      BY <1>0, <2>2, SameSlave
    <3> QED BY <1>0, <2>1, <3>1, StayStep
  <2>3. CASE slave' = [s \in DOMAIN slave |-> [slave[s] EXCEPT !.inputs = IF @ = <<>> THEN @ ELSE <<@[1] + group.obytes, @[2]>>]]
    <3>1. slave' = [s \in 1 .. bus.n |-> slave'[s]]
      BY <1>0, <2>3, Entry
    <3>2. \A s \in 1 .. bus.n : Keeps(slave[s], slave'[s])
      <4> TAKE s \in 1 .. bus.n
      <4>1. PICK v : slave'[s] = [slave[s] EXCEPT !.inputs = v]
        BY <1>0, <2>3, Entry
      <4> QED BY <4>1, <1>0, Entry DEF Keeps, Fields
    <3> QED BY <1>0, <2>1, <3>1, <3>2, Apart
  <2> QED BY <2>2, <2>3, <1>7 DEF InputsEnd
<1> QED BY <1>1, <1>2, <1>3, <1>4, <1>5, <1>6, <1>7 DEF Map

LEMMA ClockStep == ASSUME ScanInv, Clock PROVE ScanInv'
<1>0. pc \in {"clock", "sync"} /\ bus' = bus /\ slave' = slave
  BY DEF Clock, MeasureDelay, Skip, Sync
<1>1. slave' = [slave EXCEPT ![at] = slave[at]] /\ Keeps(slave[at], slave[at])
  BY <1>0, SameSlave
<1>2. pc' \in {"clock", "sync", "done"} /\ at' \in 1 .. bus.n
  <2>1. at \in 1 .. bus.n /\ Len(slave) = bus.n /\ bus.n \in Nat
    BY <1>0, Entry
  <2>2. CASE NextSlave("sync", "clock")
    BY <2>1, <2>2 DEF NextSlave
  <2>3. CASE Sync
    BY <2>1, <2>3 DEF Sync
  <2>4. NextSlave("sync", "clock") \/ Sync
    BY DEF Clock, MeasureDelay, Skip
  <2> QED BY <2>2, <2>3, <2>4
<1> QED BY <1>0, <1>1, <1>2, StayStep DEF Early

(* The parent that the search of ecx_config_init finds for a slave is the    *)
(* one whose port leads to it: in every tree, of any number of slaves with   *)
(* up to four ports, whatever else of the scan was lost.                     *)
THEOREM ParentsRight == BusSpec => []ParentRight
<1> DEFINE Inv == ScanInv /\ (pc = "detect" => at = 1)
<1>1. BusInit => Inv
  BY DEF BusInit, ScanInit, ScanInv, ParentRight
<1>2. Inv /\ [BusNext]_busVars => Inv'
  <2> SUFFICES ASSUME Inv, [BusNext]_busVars PROVE Inv'
    OBVIOUS
  <2>1. CASE Scan
    <3>1. pc' # "detect"
      BY <2>1 DEF Scan, Detect, Address, ReadMan, ReadId, ReadRev, ReadMbx, SiiWord, Setup, NextSlave
    <3> QED BY <2>1, <3>1, ScanStep
  <2>2. CASE Map
    <3>1. pc' # "detect"
      BY <2>2 DEF Map, MapCoeSoe, MapSiiSm, FmmuOut, FmmuIn, Fmmu, OutputsDone, OutputsEnd, InputsDone, InputsEnd, NextSlave
    <3> QED BY <2>2, <3>1, MapStep
  <2>3. CASE Clock
    <3>1. pc' # "detect"
      BY <2>3 DEF Clock, MeasureDelay, Skip, Sync, NextSlave
    <3> QED BY <2>3, <3>1, ClockStep
  <2>4. CASE UNCHANGED busVars
    BY <2>4 DEF busVars, scanVars, ScanInv, ParentRight
  <2> QED BY <2>1, <2>2, <2>3, <2>4 DEF BusNext
<1>3. Inv => ParentRight
  BY DEF ScanInv
<1> QED BY <1>1, <1>2, <1>3, PTL DEF BusSpec

-----------------------------------------------------------------------------
(* Clocks                                                                    *)

LEMMA Division ==
  ASSUME NEW a \in Int, NEW d \in Nat \ {0}
  PROVE  /\ a \div d \in Int /\ (a \div d) * d \in Int
         /\ (a \div d) * d <= a /\ a < (a \div d) * d + d
OBVIOUS

LEMMA Multiple ==
  ASSUME NEW q \in Int, NEW c \in Nat \ {0}
  PROVE  (q * c) % c = 0
OBVIOUS

(* The cycle of a call, and the one its pulses come back to.                 *)
Cycle(call) == IF Len(call) = 2 THEN call[1] ELSE (call[2] \div call[1] + 1) * call[1]

LEMMA Cycles ==
  ASSUME NEW call \in (Nat \X Int) \union (Nat \X Nat \X Int), call[1] > 0
  PROVE  /\ Cycle(call) \in Nat \ {0}
         /\ \E m \in Nat : Cycle(call) = m * call[1]
<1>1. CASE call \in Nat \X Int
  <2>1. Len(call) = 2 /\ call[1] \in Nat
    BY <1>1
  <2>2. Cycle(call) = 1 * call[1] /\ 1 \in Nat
    BY <2>1 DEF Cycle
  <2>3. Cycle(call) \in Nat \ {0}
    BY <2>1, <2>2
  <2> QED BY <2>2, <2>3
<1>2. CASE call \in Nat \X Nat \X Int
  <2>1. Len(call) = 3 /\ call[1] \in Nat \ {0} /\ call[2] \in Nat
    BY <1>2
  <2> DEFINE m == call[2] \div call[1] + 1
  <2>2. m \in Nat \ {0}
    BY <2>1
  <2>3. Cycle(call) = m * call[1]
    BY <2>1 DEF Cycle
  <2> HIDE DEF m
  <2>4. m * call[1] \in Nat \ {0}
    BY <2>1, <2>2
  <2> QED BY <2>2, <2>3, <2>4
<1> QED BY <1>1, <1>2

LEMMA Calls ==
  ASSUME NEW call \in (Nat \X Int) \union (Nat \X Nat \X Int)
  PROVE  call[1] \in Nat /\ Last(call) \in Int
<1>1. CASE call \in Nat \X Int
  <2>1. Len(call) = 2 /\ call[1] \in Nat /\ call[2] \in Int
    BY <1>1
  <2> QED BY <2>1 DEF Last
<1>2. CASE call \in Nat \X Nat \X Int
  <2>1. Len(call) = 3 /\ call[1] \in Nat /\ call[3] \in Int
    BY <1>2
  <2> QED BY <2>1 DEF Last
<1> QED BY <1>1, <1>2

(* A pulse is a number of cycles and the shift after zero, and after the     *)
(* time it was started at.                                                   *)
LEMMA Pulse ==
  ASSUME NEW t \in Nat, NEW c \in Nat \ {0}, NEW m \in Nat, m * c \in Nat \ {0}, NEW shift \in Int
  PROVE  /\ \E q \in Int : FirstPulse(t, m * c, shift) = q * c + shift
         /\ FirstPulse(t, m * c, shift) > t + shift
<1> DEFINE T == m * c
           a == (t + SyncDelay) \div T
<1>0. SyncDelay \in Nat \ {0} /\ T \in Nat \ {0} /\ t + SyncDelay \in Int
  BY ClockAssumption
<1>1. FirstPulse(t, m * c, shift) = a * T + T + shift
  BY DEF FirstPulse
<1> HIDE DEF T
<1>2. a \in Int /\ a * T \in Int /\ t + SyncDelay < a * T + T
  BY <1>0, Division
<1> HIDE DEF a
<1>3. FirstPulse(t, m * c, shift) > t + shift
  BY <1>0, <1>1, <1>2
<1>4. a * T + T + shift = (a * m + m) * c + shift /\ a * m + m \in Int
  <2>1. a * T = (a * m) * c
    BY <1>2 DEF T
  <2>2. (a * m + m) * c = (a * m) * c + m * c /\ a * m \in Int
    BY <1>2
  <2> QED BY <2>1, <2>2, <1>2 DEF T
<1> QED BY <1>1, <1>3, <1>4

Pulsed(x) ==
  /\ x.cycle \in Nat /\ x.shift \in Int /\ x.now \in Nat /\ x.start \in Int
  /\ x.cycle > 0 => \E q \in Int : x.start = q * x.cycle + x.shift
  /\ x.read /\ x.shift >= 0 => x.start > x.now

LEMMA StartedPulse ==
  ASSUME NEW call \in (Nat \X Int) \union (Nat \X Nat \X Int), NEW now \in Nat, NEW read \in BOOLEAN
  PROVE  Pulsed(Started(call, IF read THEN now ELSE 0, now, read))
<1> DEFINE t == IF read THEN now ELSE 0
           x == Started(call, t, now, read)
           c == call[1]
           shift == Last(call)
<1>0. c \in Nat /\ shift \in Int /\ t \in Nat /\ SyncDelay \in Nat \ {0}
  BY Calls, ClockAssumption
<1>1. /\ x.cycle = c /\ x.shift = shift /\ x.now = now /\ x.read = read
      /\ x.start = IF c > 0 THEN FirstPulse(t, Cycle(call), shift) ELSE t + SyncDelay + shift
  BY DEF Started, Cycle
<1> HIDE DEF c, shift, x
<1>2. ASSUME c > 0 PROVE Pulsed(x)
  <2>1. Cycle(call) \in Nat \ {0} /\ \E m \in Nat : Cycle(call) = m * c
    BY <1>2, Cycles DEF c
  <2> PICK m \in Nat : Cycle(call) = m * c
    BY <2>1
  <2>2. c \in Nat \ {0} /\ m * c \in Nat \ {0}
    BY <1>0, <1>2, <2>1
  <2> HIDE DEF t
  <2>3. /\ \E q \in Int : FirstPulse(t, m * c, shift) = q * c + shift
        /\ FirstPulse(t, m * c, shift) > t + shift
    BY <1>0, <2>2, Pulse
  <2>4. PICK q \in Int : x.start = q * c + shift
    BY <1>1, <1>2, <2>3
  <2>5. q * c \in Int
    BY <1>0
  <2>6. x.start \in Int
    BY <2>4, <2>5, <1>0
  <2>7. x.read /\ shift >= 0 => x.start > now
    BY <1>0, <1>1, <1>2, <2>3, <2>6 DEF t
  <2> QED BY <1>0, <1>1, <2>4, <2>6, <2>7 DEF Pulsed
<1>3. ASSUME ~(c > 0) PROVE Pulsed(x)
  <2>1. x.start = t + SyncDelay + shift
    BY <1>1, <1>3
  <2> QED BY <2>1, <1>0, <1>1, <1>3 DEF Pulsed
<1> QED BY <1>2, <1>3 DEF x

(* Slaves whose pulses were started by ecx_dcsync0 or ecx_dcsync01 with one  *)
(* cycle and one shift fire together, whenever that was, and none starts at  *)
(* a time that has passed: for every cycle, shift and time.                  *)
THEOREM PulsesTogether == BusSpec => []SyncTogether
<1> DEFINE Inv == /\ bus \in Buses
                  /\ Len(sync) \in Nat /\ sync = [k \in 1 .. Len(sync) |-> sync[k]]
                  /\ \A k \in 1 .. Len(sync) : Pulsed(sync[k])
<1>1. BusInit => Inv
  BY DEF BusInit, ScanInit, ClockInit
<1>2. Inv /\ [BusNext]_busVars => Inv'
  <2> SUFFICES ASSUME Inv, [BusNext]_busVars PROVE Inv'
    OBVIOUS
  <2>0. \A x : Pulsed(x)' <=> Pulsed(x)
    BY DEF Pulsed
  <2>1. CASE bus' = bus /\ sync' = sync
    BY <2>1, <2>0
  <2>2. CASE Sync /\ ~(bus' = bus /\ sync' = sync)
    <3>1. PICK call \in bus.calls, now \in SyncTimes, read \in BOOLEAN :
            bus' = bus /\ sync' = Append(sync, Started(call, IF read THEN now ELSE 0, now, read))
      BY <2>2 DEF Sync
    <3>2. PICK x : x = Started(call, IF read THEN now ELSE 0, now, read)
      OBVIOUS
    <3>3. Pulsed(x)
      <4>1. call \in (Nat \X Int) \union (Nat \X Nat \X Int) /\ now \in Nat
        BY ClockAssumption
      <4> QED BY <4>1, <3>2, StartedPulse
    <3>4. sync' = Append(sync, x)
      BY <3>1, <3>2
    <3>5. /\ Len(sync') = Len(sync) + 1 /\ sync' = [k \in 1 .. Len(sync') |-> sync'[k]]
          /\ \A k \in 1 .. Len(sync') : sync'[k] = IF k = Len(sync) + 1 THEN x ELSE sync[k]
      <4>1. sync \in Seq({sync[k] : k \in 1 .. Len(sync)} \cup {x})
        OBVIOUS
      <4>2. sync' \in Seq({sync[k] : k \in 1 .. Len(sync)} \cup {x}) /\ Len(sync') = Len(sync) + 1
        BY <4>1, <3>4
      <4>3. \A k \in 1 .. Len(sync') : sync'[k] = IF k = Len(sync) + 1 THEN x ELSE sync[k]
        <5> SUFFICES ASSUME NEW k \in 1 .. Len(sync) + 1
                     PROVE  Append(sync, x)[k] = IF k = Len(sync) + 1 THEN x ELSE sync[k]
          BY <3>4, <4>2
        <5> QED BY <4>1
      <4>4. sync' = [k \in 1 .. Len(sync') |-> sync'[k]]
        BY <4>2
      <4> QED BY <4>2, <4>3, <4>4
    <3>6. \A k \in 1 .. Len(sync') : Pulsed(sync'[k])
      <4> TAKE k \in 1 .. Len(sync')
      <4>1. sync'[k] = x \/ (k \in 1 .. Len(sync) /\ sync'[k] = sync[k])
        BY <3>5
      <4> QED BY <4>1, <3>3
    <3> QED BY <3>1, <3>5, <3>6, <2>0
  <2>3. CASE (bus' = bus /\ sync' = sync) \/ Sync
    BY <2>1, <2>2, <2>3
  <2>4. (bus' = bus /\ sync' = sync) \/ Sync
    <3>1. CASE Scan /\ UNCHANGED <<mapVars, clockVars>>
      <4>1. sync' = sync
        BY <3>1 DEF clockVars
      <4>2. bus' = bus
        BY <3>1 DEF Scan, Detect, Address, ReadMan, ReadId, ReadRev, ReadMbx, SiiWord, Setup
      <4> QED BY <4>1, <4>2
    <3>2. CASE Map /\ UNCHANGED clockVars
      <4>1. sync' = sync
        BY <3>2 DEF clockVars
      <4>2. bus' = bus
        BY <3>2 DEF Map, MapCoeSoe, MapSiiSm, FmmuOut, FmmuIn, Fmmu, OutputsDone, OutputsEnd, InputsDone, InputsEnd
      <4> QED BY <4>1, <4>2
    <3>3. CASE Clock
      <4>1. CASE MeasureDelay
        BY <4>1 DEF MeasureDelay
      <4>2. CASE Skip
        BY <4>2 DEF Skip
      <4> QED BY <3>3, <4>1, <4>2 DEF Clock
    <3>4. CASE UNCHANGED busVars
      BY <3>4 DEF busVars, scanVars, clockVars
    <3> QED BY <3>1, <3>2, <3>3, <3>4 DEF BusNext
  <2> QED BY <2>3, <2>4
<1>3. Inv => SyncTogether
  <2> SUFFICES ASSUME Inv, NEW j \in DOMAIN sync, NEW k \in DOMAIN sync
               PROVE  /\ (sync[j].cycle > 0 /\ sync[j].cycle = sync[k].cycle /\ sync[j].shift = sync[k].shift)
                            => (sync[j].start - sync[k].start) % sync[j].cycle = 0
                      /\ (sync[j].read /\ sync[j].shift >= 0) => sync[j].start > sync[j].now
    BY DEF SyncTogether
  <2>1. Pulsed(sync[j]) /\ Pulsed(sync[k])
    OBVIOUS
  <2>2. ASSUME sync[j].cycle > 0, sync[j].cycle = sync[k].cycle, sync[j].shift = sync[k].shift
        PROVE  (sync[j].start - sync[k].start) % sync[j].cycle = 0
    <3> PICK c \in Nat \ {0} : c = sync[j].cycle
      BY <2>1, <2>2 DEF Pulsed
    <3>1. PICK q \in Int : sync[j].start = q * c + sync[j].shift
      BY <2>1, <2>2 DEF Pulsed
    <3>2. PICK r \in Int : sync[k].start = r * c + sync[j].shift
      BY <2>1, <2>2 DEF Pulsed
    <3>3. sync[j].shift \in Int
      BY <2>1 DEF Pulsed
    <3>4. sync[j].start - sync[k].start = (q - r) * c
      BY <3>1, <3>2, <3>3
    <3> PICK d \in Int : d = q - r
      OBVIOUS
    <3>5. (d * c) % c = 0
      BY Multiple
    <3>6. sync[j].start - sync[k].start = d * c
      BY <3>4
    <3> QED BY <3>5, <3>6
  <2> QED BY <2>1, <2>2 DEF Pulsed
<1> QED BY <1>1, <1>2, <1>3, PTL DEF BusSpec
=============================================================================
