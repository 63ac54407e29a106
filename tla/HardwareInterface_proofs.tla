----------------------- MODULE HardwareInterface_proofs -----------------------
(* Theorems about HardwareInterface, for every robot: any number of joints *)
(* and modules, any names, counts and zeros.                               *)
EXTENDS HardwareInterface, FiniteSetTheorems, TLAPS

Real == ~setup.sim /\ NamedOnce
Up   == life \in {"inactive", "active"}
MaybeCount == Int \union {Unset}
Slots == [client : Clients \union {NoClient}, ec : {0, 1, 2}, zero : Int, pos : Int, cmd : Int]

TypeInv ==
  /\ slot \in [Joints -> Slots]
  /\ initialized \in BOOLEAN /\ first_pass \in BOOLEAN
  /\ phase \in {"idle", "read", "updated"}
  /\ raw \in [Axes -> Int] /\ seen \in [Axes -> Int] /\ began \in [Axes -> Int]
  /\ target \in [Axes -> MaybeCount] /\ home \in [Axes -> MaybeCount]
  /\ fresh \subseteq Joints

(* Each joint has the axis that carries its name for itself.               *)
OwnAxis ==
  Up => /\ \A j \in Joints : On(j) \in Axes /\ setup.yaml[On(j)[1]][On(j)[2]] = setup.joints[j]
        /\ \A i, j \in Joints : On(i) = On(j) => i = j

(* The zero of a joint was folded towards the count it had then.           *)
ZeroFolded ==
  Up => \A j \in Joints : slot[j].zero = Folded(setup.zero[On(j)[1]][On(j)[2]], began[On(j)])

(* Before the first reading nothing is commanded.                          *)
Blank == ~initialized /\ first_pass /\ fresh = {} /\ home = [a \in Axes |-> Unset]

(* From then on a joint without a new command is commanded to its home,    *)
(* and in the cycle its position is the one that was read.                 *)
AlignedHome ==
  /\ home \in [Axes -> Int]
  /\ \A j \in Joints \ fresh : slot[j].zero - slot[j].cmd = home[On(j)]
Sequenced ==
  /\ life = "unconfigured" => Blank
  /\ Up => (Blank /\ phase = "idle") \/ (initialized /\ AlignedHome)
  /\ phase # "idle" => Up /\ \A j \in Joints : slot[j].pos = slot[j].zero - seen[On(j)]

Inv == setup \in Setups /\ (Real => TypeInv /\ OwnAxis /\ ZeroFolded /\ Sequenced)
-----------------------------------------------------------------------------
(* The names                                                               *)

LEMMA SetupFacts ==
  ASSUME setup \in Setups
  PROVE  /\ Joints = 1 .. Len(setup.joints) /\ Len(setup.joints) \in Nat
         /\ Clients = 1 .. Len(setup.yaml) /\ Len(setup.yaml) \in Nat
         /\ \A c \in Clients : setup.raw[c] \in Int \X Int /\ setup.zero[c] \in Int \X Int
BY InterfaceAssumption DEF Joints, Clients

LEMMA FiniteAxes ==
  ASSUME setup \in Setups
  PROVE  IsFiniteSet(Axes)
<1>1. IsFiniteSet(Clients)
  BY SetupFacts, FS_Interval
<1>2. IsFiniteSet({1, 2})
  <2>1. IsFiniteSet({} \union {1})
    BY FS_EmptySet, FS_AddElement
  <2>2. IsFiniteSet(({} \union {1}) \union {2})
    BY <2>1, FS_AddElement
  <2> QED
    BY <2>2, ({} \union {1}) \union {2} = {1, 2}
<1> QED
  BY <1>1, <1>2, FS_Product DEF Axes

(* A name of the URDF stands at one place of the yaml.                     *)
At(j, a) == \A c \in Clients, ec \in {1, 2} : setup.yaml[c][ec] = setup.joints[j] <=> a = <<c, ec>>

LEMMA OnePlace ==
  ASSUME setup \in Setups, NamedOnce, NEW j \in Joints
  PROVE  \E a \in Axes : At(j, a)
<1> DEFINE places == {a \in Axes : setup.yaml[a[1]][a[2]] = setup.joints[j]}
<1>1. IsFiniteSet(places)
  <2>1. places \subseteq Axes
    OBVIOUS
  <2> QED
    BY <2>1, FiniteAxes, FS_Subset
<1>2. Cardinality(places) = 1
  BY DEF NamedOnce
<1>3. PICK a : places = {a}
  BY <1>1, <1>2, FS_Singleton
<1>4. a \in Axes
  BY <1>3
<1>5. ASSUME NEW c \in Clients, NEW ec \in {1, 2}
      PROVE  setup.yaml[c][ec] = setup.joints[j] <=> a = <<c, ec>>
  <2>1. <<c, ec>> \in Axes
    BY DEF Axes
  <2>2. setup.yaml[c][ec] = setup.joints[j] <=> <<c, ec>> \in places
    BY <2>1
  <2> QED
    BY <2>2, <1>3
<1> QED
  BY <1>4, <1>5 DEF At

LEMMA MaxOfOne ==
  ASSUME NEW c \in Nat
  PROVE  Max({NoClient} \union {c}) = c
<1>1. c \in {NoClient} \union {c} /\ \A y \in {NoClient} \union {c} : c >= y
  BY DEF NoClient
<1>2. \A x \in {NoClient} \union {c} :
        (\A y \in {NoClient} \union {c} : x >= y) => x = c
  BY DEF NoClient
<1> QED
  BY <1>1, <1>2 DEF Max

LEMMA TwoOfAModule ==
  ASSUME setup \in Setups, NEW i \in Joints, NEW j \in Joints, NEW k \in Joints,
         ModuleOf(i) = ModuleOf(j), ModuleOf(k) = ModuleOf(j), i # j, k # j
  PROVE  i = k
BY SetupFacts DEF ModuleOf

(* What on_configure binds, when it accepts the names.                     *)
Fits ==
  /\ \A c \in Clients : Complete(c) /\ OneModule(c)
  /\ \A j \in Joints : Bound(j).client # NoClient

(* Nobody else is named by the client that names a joint but its neighbour.*)
LEMMA Neighbour ==
  ASSUME setup \in Setups, NamedOnce, Fits, NEW j \in Joints,
         NEW a \in Axes, At(j, a)
  PROVE  \E k \in Joints : /\ setup.joints[k] = setup.yaml[a[1]][3 - a[2]]
                           /\ k # j /\ ModuleOf(k) = ModuleOf(j) /\ k \in Named(a[1])
<1>1. a[1] \in Clients /\ a[2] \in {1, 2} /\ a = <<a[1], a[2]>>
  BY DEF Axes
<1>2. 3 - a[2] \in {1, 2} /\ 3 - a[2] # a[2]
  BY <1>1
<1>3. PICK k \in Joints : setup.joints[k] = setup.yaml[a[1]][3 - a[2]]
  BY <1>1, <1>2 DEF Fits, Complete
<1>4. setup.yaml[a[1]][3 - a[2]] # setup.joints[j]
  <2>1. <<a[1], 3 - a[2]>> # a
    BY <1>1, <1>2
  <2> QED
    BY <2>1, <1>1, <1>2 DEF At
<1>5. k \in Named(a[1]) /\ j \in Named(a[1])
  BY <1>1, <1>2, <1>3 DEF Named, At
<1>6. ModuleOf(k) = ModuleOf(j)
  BY <1>1, <1>5 DEF Fits, OneModule
<1> QED
  BY <1>3, <1>4, <1>5, <1>6

LEMMA Binding ==
  ASSUME setup \in Setups, NamedOnce, Fits, NEW j \in Joints
  PROVE  \E a \in Axes :
           /\ At(j, a)
           /\ ClientOf(j) = a[1] /\ Max({NoClient} \union Namers(j)) = a[1]
           /\ AxisOf(a[1], j) = a[2] /\ a[1] # NoClient
<1>1. PICK a \in Axes : At(j, a)
  BY OnePlace
<1>2. a[1] \in Clients /\ a[2] \in {1, 2} /\ a = <<a[1], a[2]>> /\ a[1] \in Nat /\ a[1] # NoClient
  BY SetupFacts DEF Axes, NoClient
<1>3. Namers(j) = {a[1]}
  <2>1. a[1] \in Namers(j)
    BY <1>1, <1>2 DEF Namers, Named, At
  <2>2. ASSUME NEW c \in Namers(j) PROVE c = a[1]
    <3>1. c \in Clients /\ \E ec \in {1, 2} : setup.joints[j] = setup.yaml[c][ec]
      BY DEF Namers, Named
    <3> QED
      BY <3>1, <1>1, <1>2 DEF At
  <2> QED
    BY <2>1, <2>2
<1>4. AxisOf(a[1], j) = a[2]
  <2>1. setup.yaml[a[1]][2] = setup.joints[j] <=> a[2] = 2
    BY <1>1, <1>2 DEF At
  <2> QED
    BY <2>1, <1>2 DEF AxisOf
<1>5. {c \in Clients : \E i \in Named(c) : ModuleOf(i) = ModuleOf(j)} = {a[1]}
  <2>1. j \in Named(a[1])
    BY <1>3 DEF Namers
  <2>2. ASSUME NEW c \in Clients, NEW i \in Named(c), ModuleOf(i) = ModuleOf(j)
        PROVE  c = a[1]
    <3>1. i \in Joints
      BY DEF Named
    <3>2. CASE i = j
      BY <3>2, <1>3 DEF Namers
    <3>3. CASE i # j
      <4>1. PICK k \in Joints : k # j /\ ModuleOf(k) = ModuleOf(j) /\ k \in Named(a[1])
        BY <1>1, Neighbour
      <4>2. i = k
        BY <3>1, <3>3, <2>2, <4>1, TwoOfAModule
      <4>3. PICK b \in Axes : At(i, b)
        BY <3>1, OnePlace
      <4>4. \E ec \in {1, 2} : setup.yaml[c][ec] = setup.joints[i]
        BY DEF Named
      <4>5. \E ec \in {1, 2} : setup.yaml[a[1]][ec] = setup.joints[i]
        BY <4>1, <4>2 DEF Named
      <4> QED
        BY <4>3, <4>4, <4>5, <1>2 DEF At
    <3> QED
      BY <3>2, <3>3
  <2> QED
    BY <2>1, <2>2, <1>2
<1>6. ClientOf(j) = a[1]
  BY <1>5, <1>2, MaxOfOne DEF ClientOf
<1>7. Max({NoClient} \union Namers(j)) = a[1]
  BY <1>3, <1>2, MaxOfOne
<1> QED
  BY <1>1, <1>2, <1>4, <1>6, <1>7

(* Two joints never share an axis.                                         *)
LEMMA Alone ==
  ASSUME setup \in Setups, NamedOnce, Fits, NEW i \in Joints, NEW j \in Joints,
         setup.joints[i] = setup.joints[j]
  PROVE  i = j
<1>1. PICK a \in Axes : At(j, a)
  BY OnePlace
<1>2. PICK k \in Joints : setup.joints[k] = setup.yaml[a[1]][3 - a[2]] /\ k # j /\ ModuleOf(k) = ModuleOf(j)
  BY <1>1, Neighbour
<1>3. a[1] \in Clients /\ a[2] \in {1, 2} /\ a = <<a[1], a[2]>>
  BY DEF Axes
<1>4. i \in Named(a[1]) /\ j \in Named(a[1])
  BY <1>1, <1>3 DEF Named, At
<1>5. ModuleOf(i) = ModuleOf(j)
  BY <1>3, <1>4 DEF Fits, OneModule
<1>6. setup.joints[k] # setup.joints[j]
  <2>1. 3 - a[2] \in {1, 2} /\ <<a[1], 3 - a[2]>> # a
    BY <1>3
  <2> QED
    BY <2>1, <1>1, <1>2, <1>3 DEF At
<1> QED
  BY <1>2, <1>5, <1>6, TwoOfAModule

(* The slot of a joint after the binding.                                  *)
LEMMA BoundSlot ==
  ASSUME setup \in Setups, NamedOnce, Fits, TypeInv, NEW j \in Joints
  PROVE  /\ Bound(j) \in Slots /\ <<Bound(j).client, Bound(j).ec>> \in Axes
         /\ Physical(Bound(j)) = <<Bound(j).client, Bound(j).ec>>
         /\ setup.yaml[Bound(j).client][Bound(j).ec] = setup.joints[j]
         /\ Bound(j).zero = setup.zero[Bound(j).client][Bound(j).ec]
<1>1. PICK a \in Axes : /\ At(j, a) /\ ClientOf(j) = a[1] /\ Max({NoClient} \union Namers(j)) = a[1]
                        /\ AxisOf(a[1], j) = a[2] /\ a[1] # NoClient
  BY Binding
<1>2. a[1] \in Clients /\ a[2] \in {1, 2} /\ a = <<a[1], a[2]>>
  BY DEF Axes
<1>3. slot[j] \in Slots
  BY DEF TypeInv
<1>4. Bound(j) = [slot[j] EXCEPT !.client = a[1], !.ec = a[2], !.zero = setup.zero[a[1]][a[2]]]
  BY <1>1 DEF Bound
<1>5. setup.zero[a[1]][a[2]] \in Int
  BY <1>2, SetupFacts
<1>6. /\ Bound(j).client = a[1] /\ Bound(j).ec = a[2] /\ Bound(j).zero = setup.zero[a[1]][a[2]]
      /\ Bound(j) \in Slots
  BY <1>2, <1>3, <1>4, <1>5 DEF Slots
<1>7. setup.yaml[a[1]][a[2]] = setup.joints[j]
  BY <1>1, <1>2 DEF At
<1> QED
  BY <1>2, <1>6, <1>7 DEF Physical

LEMMA FoldedType ==
  ASSUME NEW zero \in Int, NEW count \in Int
  PROVE  Folded(zero, count) \in Int
BY InterfaceAssumption DEF Folded

LEMMA ZeroedSlot ==
  ASSUME NEW b \in Slots, NEW s, NEW z \in Int, NEW q \in Int, s = [b EXCEPT !.zero = z, !.pos = q]
  PROVE  s \in Slots /\ s.client = b.client /\ s.ec = b.ec /\ s.zero = z
BY DEF Slots

(* What a successful on_configure leaves behind.                           *)
LEMMA ConfigureBinds ==
  ASSUME Inv, Real, Configure, life' = "inactive"
  PROVE  slot' \in [Joints -> Slots] /\ OwnAxis' /\ ZeroFolded'
<1> DEFINE bound == [j \in Joints |-> Bound(j)]
           count(j) == raw[Physical(bound[j])]
           zero(j)  == Folded(bound[j].zero, count(j))
<1>1. /\ Fits /\ setup' = setup /\ began' = raw
      /\ slot' = [j \in Joints |-> [bound[j] EXCEPT !.zero = zero(j), !.pos = zero(j) - count(j)]]
  BY DEF Configure, Fits
<1>2. setup \in Setups /\ NamedOnce /\ TypeInv
  BY DEF Inv, Real
<1>3. ASSUME NEW j \in Joints
      PROVE  /\ slot'[j] \in Slots
             /\ <<slot'[j].client, slot'[j].ec>> \in Axes
             /\ setup.yaml[slot'[j].client][slot'[j].ec] = setup.joints[j]
             /\ slot'[j].zero = Folded(setup.zero[slot'[j].client][slot'[j].ec], raw[<<slot'[j].client, slot'[j].ec>>])
  <2> DEFINE b == Bound(j)
  <2>1. /\ b \in Slots /\ <<b.client, b.ec>> \in Axes /\ Physical(b) = <<b.client, b.ec>>
        /\ setup.yaml[b.client][b.ec] = setup.joints[j] /\ b.zero = setup.zero[b.client][b.ec]
    BY <1>1, <1>2, BoundSlot
  <2>2. raw[<<b.client, b.ec>>] \in Int
    BY <1>2, <2>1 DEF TypeInv
  <2> DEFINE z == Folded(b.zero, raw[<<b.client, b.ec>>])
  <2>3. z \in Int
    BY <2>1, <2>2, FoldedType DEF Slots
  <2>4. bound[j] = b
    OBVIOUS
  <2>5. slot'[j] = [b EXCEPT !.zero = z, !.pos = z - raw[<<b.client, b.ec>>]]
    <3> HIDE DEF b
    <3> QED
      BY <1>1, <2>1, <2>4
  <2> HIDE DEF z, b
  <2>6. /\ slot'[j].client = b.client /\ slot'[j].ec = b.ec /\ slot'[j].zero = z
        /\ slot'[j] \in Slots
    <3>1. b \in Slots /\ z \in Int /\ z - raw[<<b.client, b.ec>>] \in Int
      BY <2>1, <2>2, <2>3
    <3>2. PICK q \in Int : slot'[j] = [b EXCEPT !.zero = z, !.pos = q]
      BY <3>1, <2>5
    <3>3. slot'[j] = [client |-> b.client, ec |-> b.ec, zero |-> z, pos |-> q, cmd |-> b.cmd]
      BY <3>1, <3>2 DEF Slots
    <3> QED
      BY <3>1, <3>3 DEF Slots
  <2> QED
    BY <2>1, <2>6 DEF z
<1>4. slot' = [j \in Joints |-> slot'[j]]
  BY <1>1
<1>5. slot' \in [Joints -> Slots]
  BY <1>3, <1>4
<1>6. \A i, j \in Joints : <<slot'[i].client, slot'[i].ec>> = <<slot'[j].client, slot'[j].ec>> => i = j
  <2> SUFFICES ASSUME NEW i \in Joints, NEW j \in Joints,
                      <<slot'[i].client, slot'[i].ec>> = <<slot'[j].client, slot'[j].ec>>
               PROVE  i = j
    OBVIOUS
  <2>1. slot'[i].client = slot'[j].client /\ slot'[i].ec = slot'[j].ec
    OBVIOUS
  <2>2. setup.joints[i] = setup.joints[j]
    BY <1>3, <2>1
  <2> QED
    BY <1>1, <1>2, <2>2, Alone
<1>7. Joints' = Joints /\ Axes' = Axes /\ \A j \in Joints : On(j)' = <<slot'[j].client, slot'[j].ec>>
  BY <1>1 DEF Joints, Axes, Clients, On
<1>8. \A j \in Joints : On(j)'[1] = slot'[j].client /\ On(j)'[2] = slot'[j].ec
  BY <1>7
<1>9. OwnAxis'
  <2>1. \A j \in Joints : On(j)' \in Axes /\ setup.yaml[On(j)'[1]][On(j)'[2]] = setup.joints[j]
    BY <1>3, <1>7, <1>8
  <2>2. \A i, j \in Joints : On(i)' = On(j)' => i = j
    BY <1>6, <1>7
  <2> QED
    BY <1>1, <1>7, <2>1, <2>2 DEF OwnAxis
<1>10. ZeroFolded'
  BY <1>1, <1>3, <1>7, <1>8 DEF ZeroFolded
<1> QED
  BY <1>5, <1>9, <1>10

-----------------------------------------------------------------------------
(* The slots between two configurations                                    *)

LEMMA OnPhysical ==
  ASSUME TypeInv, OwnAxis, Up, NEW j \in Joints
  PROVE  /\ Physical(slot[j]) = On(j) /\ On(j)[1] = slot[j].client /\ On(j)[2] = slot[j].ec
         /\ On(j) \in Axes
BY DEF TypeInv, OwnAxis, Physical, On, Axes, Slots

LEMMA ReadSlot ==
  ASSUME TypeInv, OwnAxis, Up, NEW j \in Joints
  PROVE  LET r == Reading[j]
             a == Aligned(Reading)[j]
         IN /\ r \in Slots /\ r.client = slot[j].client /\ r.ec = slot[j].ec /\ r.zero = slot[j].zero
            /\ r.pos = slot[j].zero - raw[On(j)] /\ r.cmd = slot[j].cmd
            /\ a \in Slots /\ a.client = slot[j].client /\ a.ec = slot[j].ec /\ a.zero = slot[j].zero
            /\ a.pos = slot[j].zero - raw[On(j)] /\ a.cmd = slot[j].zero - raw[On(j)]
<1>1. slot[j] \in Slots
  BY DEF TypeInv
<1>2. PICK q \in Int : q = slot[j].zero - raw[On(j)]
  BY <1>1, OnPhysical DEF TypeInv, Slots
<1>3. Reading[j] = [slot[j] EXCEPT !.pos = q]
  BY <1>2, OnPhysical DEF Reading
<1>4. Reading[j] = [client |-> slot[j].client, ec |-> slot[j].ec, zero |-> slot[j].zero, pos |-> q, cmd |-> slot[j].cmd]
  BY <1>1, <1>3 DEF Slots
<1>5. Aligned(Reading)[j] = [Reading[j] EXCEPT !.cmd = Reading[j].pos]
  BY DEF Aligned
<1>6. Aligned(Reading)[j] = [client |-> slot[j].client, ec |-> slot[j].ec, zero |-> slot[j].zero, pos |-> q, cmd |-> q]
  BY <1>4, <1>5
<1> QED
  BY <1>1, <1>2, <1>4, <1>6 DEF Slots

(* A step that keeps the binding of the joints.                            *)
SameBinding ==
  /\ setup' = setup /\ began' = began
  /\ \A j \in Joints : /\ slot'[j].client = slot[j].client /\ slot'[j].ec = slot[j].ec
                        /\ slot'[j].zero = slot[j].zero

LEMMA BindingKept ==
  ASSUME SameBinding, OwnAxis, ZeroFolded, Up
  PROVE  /\ OwnAxis' /\ ZeroFolded' /\ Joints' = Joints /\ Axes' = Axes
         /\ \A j \in Joints : On(j)' = On(j)
<1>1. Joints' = Joints /\ Axes' = Axes
  BY DEF SameBinding, Joints, Axes, Clients
<1>2. \A j \in Joints : On(j)' = On(j)
  BY DEF SameBinding, On
<1>3. OwnAxis'
  BY <1>1, <1>2 DEF OwnAxis, SameBinding
<1>4. ZeroFolded'
  <2>1. ASSUME NEW j \in Joints
        PROVE  slot'[j].zero = Folded(setup.zero[On(j)[1]][On(j)[2]], began[On(j)])
    BY DEF SameBinding, ZeroFolded
  <2> QED
    BY <1>1, <1>2, <2>1 DEF ZeroFolded, SameBinding
<1> QED
  BY <1>1, <1>2, <1>3, <1>4

LEMMA SetupKept ==
  ASSUME setup' = setup
  PROVE  /\ Joints' = Joints /\ Axes' = Axes /\ Clients' = Clients /\ Slots' = Slots /\ NamedOnce' = NamedOnce
BY DEF Joints, Axes, Clients, Slots, NamedOnce

-----------------------------------------------------------------------------
(* The transitions                                                         *)

LEMMA InitInv == Init => Inv
<1> SUFFICES ASSUME Init PROVE Inv
  OBVIOUS
<1>1. setup \in Setups
  BY DEF Init
<1>2. ASSUME Real PROVE TypeInv /\ OwnAxis /\ ZeroFolded /\ Sequenced
  <2>1. slot \in [Joints -> Slots]
    BY <1>2 DEF Init, Slots, BlankSlot, Real, NoClient
  <2>2. raw \in [Axes -> Int]
    BY <1>1, SetupFacts DEF Init, Axes
  <2>3. TypeInv
    BY <2>1, <2>2 DEF Init, TypeInv, MaybeCount
  <2>4. ~Up
    BY DEF Init, Up
  <2> QED
    BY <2>3, <2>4 DEF Init, OwnAxis, ZeroFolded, Sequenced, Blank
<1> QED
  BY <1>1, <1>2 DEF Inv

LEMMA ConfigureInv ==
  ASSUME Inv, Real, Configure
  PROVE  Inv'
<1>1. setup' = setup /\ setup \in Setups /\ TypeInv /\ Sequenced
  BY DEF Inv, Configure
<1>2. /\ life = "unconfigured" /\ phase = "idle" /\ phase' = phase
      /\ UNCHANGED <<initialized, first_pass, raw, inPos, home, fresh>>
  BY DEF Configure, Call
<1>3. Blank /\ Blank'
  BY <1>1, <1>2, SetupKept DEF Sequenced, Blank
<1>4. CASE life' = "inactive"
  <2>1. slot' \in [Joints -> Slots] /\ OwnAxis' /\ ZeroFolded'
    BY <1>4, ConfigureBinds
  <2>2. seen' = raw /\ began' = raw /\ target' = [a \in Axes |-> Unset]
    BY <1>4 DEF Configure
  <2>3. TypeInv'
    BY <1>1, <1>2, <2>1, <2>2, SetupKept DEF TypeInv, MaybeCount
  <2>4. Sequenced'
    BY <1>2, <1>3, <1>4 DEF Sequenced, Up
  <2> QED
    BY <1>1, <2>1, <2>3, <2>4 DEF Inv
<1>5. CASE life' = "finalized" /\ UNCHANGED <<slot, target, seen, began>>
  <2>1. TypeInv'
    BY <1>1, <1>2, <1>5, SetupKept DEF TypeInv
  <2>2. ~Up' /\ Sequenced'
    BY <1>2, <1>5 DEF Up, Sequenced
  <2> QED
    BY <1>1, <2>1, <2>2 DEF Inv, OwnAxis, ZeroFolded
<1> QED
  BY <1>4, <1>5 DEF Configure

LEMMA ActivateInv ==
  ASSUME Inv, Real, Activate
  PROVE  Inv'
<1>1. setup' = setup /\ setup \in Setups /\ TypeInv /\ Sequenced /\ OwnAxis /\ ZeroFolded
  BY DEF Inv, Activate
<1>2. /\ Up /\ phase = "idle" /\ phase' = phase /\ fresh' = {} /\ slot' = Aligned(Reading)
      /\ seen' = raw /\ home' = raw /\ initialized' = TRUE /\ first_pass' = FALSE
      /\ UNCHANGED <<raw, target, inPos, began>>
  BY DEF Activate, Call, Real, Up, drives
<1>3. slot' \in [Joints -> Slots]
  <2>1. \A j \in Joints : slot'[j] \in Slots
    BY <1>1, <1>2, ReadSlot
  <2> QED
    BY <1>2, <2>1 DEF Aligned
<1>4. SameBinding
  BY <1>1, <1>2, ReadSlot DEF SameBinding
<1>5. OwnAxis' /\ ZeroFolded' /\ Joints' = Joints /\ Axes' = Axes /\ \A j \in Joints : On(j)' = On(j)
  BY <1>1, <1>2, <1>4, BindingKept
<1>6. TypeInv'
  BY <1>1, <1>2, <1>3, SetupKept DEF TypeInv, MaybeCount
<1>7. AlignedHome'
  <2>1. ASSUME NEW j \in Joints PROVE slot'[j].zero - slot'[j].cmd = raw[On(j)]
    <3>1. /\ slot'[j].zero = slot[j].zero /\ slot'[j].cmd = slot[j].zero - raw[On(j)]
          /\ slot[j].zero \in Int /\ raw[On(j)] \in Int
      BY <1>1, <1>2, ReadSlot, OnPhysical DEF TypeInv, Slots
    <3> QED
      BY <3>1
  <2> QED
    BY <1>1, <1>2, <1>5, <2>1 DEF AlignedHome, TypeInv
<1>8. Sequenced'
  BY <1>2, <1>7 DEF Sequenced, Up, Activate
<1> QED
  BY <1>1, <1>5, <1>6, <1>8 DEF Inv

LEMMA ReleaseInv ==
  ASSUME Inv, Real, phase = "idle", NEW then \in {"unconfigured", "finalized"}, Release(then)
  PROVE  Inv'
<1>1. setup' = setup /\ setup \in Setups /\ TypeInv
  BY DEF Inv, Release
<1>2. /\ life' = then /\ phase' = phase /\ slot' = Released /\ initialized' = FALSE /\ first_pass' = TRUE
      /\ fresh' = {} /\ inPos' = {} /\ home' = [a \in Axes |-> Unset]
      /\ UNCHANGED <<raw, target, seen, began>>
  BY DEF Release, Real
<1>3. slot' \in [Joints -> Slots]
  BY <1>1, <1>2 DEF Released, TypeInv, Slots, NoClient
<1>4. TypeInv'
  BY <1>1, <1>2, <1>3, SetupKept DEF TypeInv, MaybeCount
<1>5. Blank' /\ ~Up'
  BY <1>1, <1>2, SetupKept DEF Blank, Up
<1> QED
  BY <1>1, <1>2, <1>4, <1>5 DEF Inv, OwnAxis, ZeroFolded, Sequenced

LEMMA ReadInv ==
  ASSUME Inv, Real, Read
  PROVE  Inv'
<1>1. setup' = setup /\ setup \in Setups /\ TypeInv /\ Sequenced /\ OwnAxis /\ ZeroFolded
  BY DEF Inv, Read
<1> DEFINE first == first_pass /\ ~initialized
<1>2. /\ Up /\ phase = "idle" /\ phase' = "read" /\ life' = life
      /\ slot' = IF first THEN Aligned(Reading) ELSE Reading
      /\ fresh' = IF first THEN {} ELSE fresh
      /\ initialized' = (initialized \/ first)
      /\ seen' = raw
      /\ home' = [a \in Axes |-> IF home[a] = Unset THEN raw[a] ELSE home[a]]
      /\ UNCHANGED <<first_pass, raw, target, inPos, began>>
  BY DEF Read, Up, drives
<1>3. slot' \in [Joints -> Slots]
  <2>1. \A j \in Joints : slot'[j] \in Slots
    BY <1>1, <1>2, ReadSlot
  <2> QED
    BY <1>2, <2>1 DEF Aligned, Reading
<1>4. SameBinding
  BY <1>1, <1>2, ReadSlot DEF SameBinding
<1>5. OwnAxis' /\ ZeroFolded' /\ Joints' = Joints /\ Axes' = Axes /\ \A j \in Joints : On(j)' = On(j)
  BY <1>1, <1>2, <1>4, BindingKept
<1>6. home' \in [Axes -> Int]
  BY <1>1, <1>2 DEF TypeInv, MaybeCount
<1>7. TypeInv'
  BY <1>1, <1>2, <1>3, <1>6, SetupKept DEF TypeInv, MaybeCount
<1>8. ASSUME NEW j \in Joints
      PROVE  /\ slot'[j].pos = slot'[j].zero - seen'[On(j)]
             /\ j \notin fresh' => slot'[j].zero - slot'[j].cmd = home'[On(j)]
  <2>1. /\ On(j) \in Axes /\ slot[j].zero \in Int /\ raw[On(j)] \in Int
        /\ slot'[j].zero = slot[j].zero /\ slot'[j].pos = slot[j].zero - raw[On(j)]
    BY <1>1, <1>2, ReadSlot, OnPhysical DEF TypeInv, Slots
  <2>2. CASE first
    <3>1. Blank
      BY <1>1, <1>2, <2>2 DEF Sequenced
    <3>2. home[On(j)] = Unset /\ slot'[j].cmd = slot[j].zero - raw[On(j)]
      BY <1>1, <1>2, <2>1, <2>2, <3>1, ReadSlot DEF Blank
    <3> QED
      BY <1>2, <2>1, <3>2
  <2>3. CASE ~first
    <3>1. AlignedHome
      BY <1>1, <1>2, <2>3 DEF Sequenced, Blank
    <3>2. home[On(j)] \in Int /\ home'[On(j)] = home[On(j)] /\ slot'[j].cmd = slot[j].cmd /\ fresh' = fresh
      BY <1>1, <1>2, <2>1, <2>3, <3>1, ReadSlot, InterfaceAssumption DEF AlignedHome
    <3> QED
      BY <1>2, <2>1, <3>1, <3>2 DEF AlignedHome
  <2> QED
    BY <2>2, <2>3
<1>9. AlignedHome'
  BY <1>5, <1>6, <1>8 DEF AlignedHome
<1>10. initialized'
  BY <1>1, <1>2 DEF Sequenced, Blank
<1>11. Sequenced'
  BY <1>2, <1>5, <1>8, <1>9, <1>10 DEF Sequenced, Up
<1> QED
  BY <1>1, <1>5, <1>7, <1>11 DEF Inv

LEMMA UpdateInv ==
  ASSUME Inv, Real, Update
  PROVE  Inv'
<1>1. setup' = setup /\ setup \in Setups /\ TypeInv /\ Sequenced /\ OwnAxis /\ ZeroFolded
  BY DEF Inv, Update
<1>2. /\ phase = "read" /\ phase' = "updated" /\ life' = life
      /\ UNCHANGED <<initialized, first_pass, raw, target, inPos, seen, home, began>>
  BY DEF Update, drives
<1>3. Up /\ initialized /\ AlignedHome /\ \A j \in Joints : slot[j].pos = slot[j].zero - seen[On(j)]
  BY <1>1, <1>2 DEF Sequenced
<1>4. CASE UNCHANGED <<slot, fresh>>
  <2>1. SameBinding
    BY <1>1, <1>2, <1>4 DEF SameBinding
  <2>2. OwnAxis' /\ ZeroFolded' /\ Joints' = Joints /\ Axes' = Axes /\ \A j \in Joints : On(j)' = On(j)
    BY <1>1, <1>3, <2>1, BindingKept
  <2>3. TypeInv'
    BY <1>1, <1>2, <1>4, SetupKept DEF TypeInv, MaybeCount
  <2>4. AlignedHome'
    BY <1>2, <1>3, <1>4, <2>2 DEF AlignedHome
  <2>5. Sequenced'
    BY <1>2, <1>3, <1>4, <2>2, <2>4 DEF Sequenced, Up
  <2> QED
    BY <1>1, <2>2, <2>3, <2>5 DEF Inv
<1>5. ASSUME NEW j \in Joints, NEW d \in {-1, 1},
             slot' = [slot EXCEPT ![j].cmd = @ + d], fresh' = fresh \union {j}
      PROVE  Inv'
  <2>1. /\ slot' \in [Joints -> Slots]
        /\ \A i \in Joints : /\ slot'[i].client = slot[i].client /\ slot'[i].ec = slot[i].ec
                             /\ slot'[i].zero = slot[i].zero /\ slot'[i].pos = slot[i].pos
                             /\ i # j => slot'[i] = slot[i]
    BY <1>1, <1>5 DEF TypeInv, Slots
  <2>2. SameBinding
    BY <1>1, <1>2, <2>1 DEF SameBinding
  <2>3. OwnAxis' /\ ZeroFolded' /\ Joints' = Joints /\ Axes' = Axes /\ \A i \in Joints : On(i)' = On(i)
    BY <1>1, <1>3, <2>2, BindingKept
  <2>4. TypeInv'
    BY <1>1, <1>2, <1>5, <2>1, SetupKept DEF TypeInv, MaybeCount
  <2>5. AlignedHome'
    BY <1>2, <1>3, <1>5, <2>1, <2>3 DEF AlignedHome
  <2>6. Sequenced'
    BY <1>2, <1>3, <2>1, <2>3, <2>5 DEF Sequenced, Up
  <2> QED
    BY <1>1, <2>3, <2>4, <2>6 DEF Inv
<1> QED
  BY <1>4, <1>5 DEF Update

(* What write does to the commands and the axes.                           *)
LEMMA Written ==
  ASSUME Inv, Real, Write
  PROVE  /\ slot' \in [Joints -> Slots]
         /\ \A j \in Joints :
              /\ slot'[j].client = slot[j].client /\ slot'[j].ec = slot[j].ec
              /\ slot'[j].zero = slot[j].zero
              /\ slot'[j].cmd = IF slot[j].client \notin inPos THEN slot[j].pos ELSE slot[j].cmd
              /\ target'[On(j)] = slot'[j].zero - slot'[j].cmd
         /\ target' \in [Axes -> MaybeCount]
<1>1. TypeInv /\ OwnAxis /\ Up
  BY DEF Inv, Write, Sequenced
<1> DEFINE loose(j) == slot[j].client \notin inPos
           cmds == [j \in Joints |-> IF loose(j) THEN [slot[j] EXCEPT !.cmd = slot[j].pos] ELSE slot[j]]
           to(a) == {j \in Joints : Physical(slot[j]) = a}
<1>2. /\ slot' = cmds
      /\ target' = [a \in Axes |-> IF to(a) = {} THEN target[a] ELSE LET j == Max(to(a)) IN cmds[j].zero - cmds[j].cmd]
  BY DEF Write
<1>3. ASSUME NEW j \in Joints
      PROVE  /\ cmds[j] \in Slots /\ cmds[j].client = slot[j].client /\ cmds[j].ec = slot[j].ec
             /\ cmds[j].zero = slot[j].zero
             /\ cmds[j].cmd = IF loose(j) THEN slot[j].pos ELSE slot[j].cmd
  <2>1. slot[j] \in Slots
    BY <1>1 DEF TypeInv
  <2> QED
    BY <2>1 DEF Slots
<1>4. cmds \in [Joints -> Slots]
  BY <1>3
<1>5. \A j \in Joints : to(On(j)) = {j} /\ Max(to(On(j))) = j
  <2> SUFFICES ASSUME NEW j \in Joints PROVE to(On(j)) = {j} /\ Max({j}) = j
    OBVIOUS
  <2>1. to(On(j)) = {j}
    BY <1>1, OnPhysical DEF OwnAxis
  <2>2. j \in Int
    BY SetupFacts DEF Inv
  <2>3. Max({j}) = j
    BY <2>2 DEF Max
  <2> QED
    BY <2>1, <2>3
<1>6. \A a \in Axes : to(a) # {} => \E j \in Joints : a = On(j)
  BY <1>1, OnPhysical
<1> HIDE DEF cmds, to
<1>7. \A j \in Joints : On(j) \in Axes /\ target'[On(j)] = cmds[j].zero - cmds[j].cmd
  BY <1>1, <1>2, <1>5, OnPhysical
<1>8. target' \in [Axes -> MaybeCount]
  <2>1. ASSUME NEW a \in Axes PROVE target'[a] \in MaybeCount
    <3>1. CASE to(a) = {}
      BY <1>1, <1>2, <3>1 DEF TypeInv
    <3>2. CASE to(a) # {}
      <4>1. PICK j \in Joints : a = On(j)
        BY <1>6, <3>2
      <4>2. target'[a] = cmds[j].zero - cmds[j].cmd /\ cmds[j] \in Slots
        BY <1>3, <1>7, <4>1
      <4> QED
        BY <4>2 DEF Slots, MaybeCount
    <3> QED
      BY <3>1, <3>2
  <2> QED
    BY <1>2, <2>1
<1> QED
  BY <1>2, <1>3, <1>4, <1>7, <1>8

LEMMA WriteInv ==
  ASSUME Inv, Real, Write
  PROVE  Inv' /\ \A j \in Joints : j \notin fresh' => target'[On(j)] = home'[On(j)]
<1>1. setup' = setup /\ setup \in Setups /\ TypeInv /\ Sequenced /\ OwnAxis /\ ZeroFolded
  BY DEF Inv, Write
<1>2. /\ phase = "updated" /\ phase' = "idle" /\ life' = life
      /\ fresh' = {j \in fresh : slot[j].client \in inPos}
      /\ home' = [a \in Axes |-> IF a[1] \in inPos THEN home[a] ELSE seen[a]]
      /\ UNCHANGED <<initialized, first_pass, raw, inPos, seen, began>>
  BY DEF Write
<1>3. Up /\ initialized /\ AlignedHome /\ \A j \in Joints : slot[j].pos = slot[j].zero - seen[On(j)]
  BY <1>1, <1>2 DEF Sequenced
<1>4. SameBinding
  BY <1>1, <1>2, Written DEF SameBinding
<1>5. OwnAxis' /\ ZeroFolded' /\ Joints' = Joints /\ Axes' = Axes /\ \A j \in Joints : On(j)' = On(j)
  BY <1>1, <1>3, <1>4, BindingKept
<1>6. home' \in [Axes -> Int]
  BY <1>1, <1>2, <1>3 DEF TypeInv, AlignedHome
<1>7. TypeInv'
  BY <1>1, <1>2, <1>6, SetupKept, Written DEF TypeInv, MaybeCount
<1>8. ASSUME NEW j \in Joints, j \notin fresh'
      PROVE  slot'[j].zero - slot'[j].cmd = home'[On(j)]
  <2>1. /\ On(j) \in Axes /\ On(j)[1] = slot[j].client /\ slot[j].zero \in Int /\ slot[j].pos \in Int
        /\ slot[j].cmd \in Int /\ seen[On(j)] \in Int
    BY <1>1, <1>3, OnPhysical DEF TypeInv, Slots
  <2>2. CASE slot[j].client \notin inPos
    <3>1. home'[On(j)] = seen[On(j)] /\ slot'[j].cmd = slot[j].pos /\ slot'[j].zero = slot[j].zero
      BY <1>2, <2>1, <2>2, Written
    <3> QED
      BY <1>3, <2>1, <3>1
  <2>3. CASE slot[j].client \in inPos
    <3>1. home'[On(j)] = home[On(j)] /\ slot'[j].cmd = slot[j].cmd /\ slot'[j].zero = slot[j].zero /\ j \notin fresh
      BY <1>2, <1>8, <2>1, <2>3, Written
    <3> QED
      BY <1>3, <3>1 DEF AlignedHome
  <2> QED
    BY <2>2, <2>3
<1>9. AlignedHome'
  BY <1>5, <1>6, <1>8 DEF AlignedHome
<1>10. Sequenced'
  BY <1>2, <1>3, <1>9 DEF Sequenced, Up
<1>11. Inv'
  BY <1>1, <1>5, <1>7, <1>10 DEF Inv
<1>12. \A j \in Joints : j \notin fresh' => target'[On(j)] = home'[On(j)]
  BY <1>8, Written
<1> QED
  BY <1>11, <1>12

(* Steps that leave the slots alone: mode switches, the drives, an end of  *)
(* activity.                                                               *)
LEMMA OthersInv ==
  ASSUME Inv, Real, setup' = setup, UNCHANGED <<plugin, target, past>>,
         raw' \in [Axes -> Int],
         \/ life' = life /\ phase' = phase
         \/ Up /\ Up' /\ phase' = "idle" /\ phase = "idle"
         \/ life' = "thrown" /\ phase' = "idle"
  PROVE  Inv'
<1>1. /\ UNCHANGED <<slot, initialized, first_pass, target, seen, home, began, fresh>>
      /\ TypeInv /\ OwnAxis /\ ZeroFolded /\ Sequenced /\ setup \in Setups
  BY DEF Inv, plugin, past
<1>2. TypeInv'
  BY <1>1, SetupKept DEF TypeInv, MaybeCount
<1>3. Joints' = Joints /\ Axes' = Axes /\ \A j \in Joints : On(j)' = On(j)
  BY <1>1, SetupKept DEF On
<1>4. (Blank <=> Blank') /\ (AlignedHome <=> AlignedHome')
  BY <1>1, <1>3 DEF Blank, AlignedHome
<1>5. CASE Up'
  <2>1. Up /\ phase' = phase /\ life' # "unconfigured"
    BY <1>5 DEF Up
  <2>2. SameBinding
    BY <1>1 DEF SameBinding
  <2>3. OwnAxis' /\ ZeroFolded'
    BY <1>1, <2>1, <2>2, BindingKept
  <2>4. Sequenced'
    BY <1>1, <1>3, <1>4, <1>5, <2>1 DEF Sequenced
  <2> QED
    BY <1>1, <1>2, <2>3, <2>4 DEF Inv
<1>6. CASE ~Up'
  <2>1. life' = "unconfigured" => life = "unconfigured" /\ phase' = phase
    BY DEF Up
  <2>2. phase' = "idle"
    BY <1>1, <1>6 DEF Sequenced, Up
  <2>3. Sequenced'
    BY <1>1, <1>4, <1>6, <2>1, <2>2 DEF Sequenced
  <2> QED
    BY <1>1, <1>2, <1>6, <2>3 DEF Inv, OwnAxis, ZeroFolded
<1> QED
  BY <1>5, <1>6

LEMMA DriveInv ==
  ASSUME Inv, Real, Drive
  PROVE  Inv'
<1>1. /\ setup' = setup /\ UNCHANGED <<plugin, target, past, life, phase>> /\ TypeInv
  BY DEF Inv, Drive
<1>2. raw' \in [Axes -> Int]
  <2>1. CASE raw' = [a \in Axes |-> IF a[1] \in inPos /\ target[a] # Unset THEN target[a] ELSE raw[a]]
    BY <1>1, <2>1 DEF TypeInv, MaybeCount
  <2>2. CASE \E a \in Axes, d \in {-1, 1} : raw' = [raw EXCEPT ![a] = @ + d]
    BY <1>1, <2>2 DEF TypeInv
  <2>3. CASE UNCHANGED raw
    BY <1>1, <2>3 DEF TypeInv
  <2> QED
    BY <2>1, <2>2, <2>3 DEF Drive
<1> QED
  BY <1>1, <1>2, OthersInv

LEMMA StepInv == Inv /\ [Next]_vars => Inv'
<1> SUFFICES ASSUME Inv, [Next]_vars PROVE Inv'
  OBVIOUS
<1>1. setup' = setup /\ setup \in Setups
  BY DEF Inv, Next, vars, Configure, SimConfigure, Activate, Deactivate, Cleanup, Shutdown, Release,
         Read, SimRead, Update, Write, SimWrite, Switch, Drive
<1>2. CASE ~Real
  BY <1>1, <1>2, SetupKept DEF Inv, Real
<1>3. CASE Real
  <2> USE <1>3
  <2>1. raw \in [Axes -> Int]
    BY DEF Inv, TypeInv
  <2>2. CASE Configure
    BY <2>2, ConfigureInv
  <2>3. CASE Activate
    BY <2>3, ActivateInv
  <2>4. CASE Deactivate
    BY <1>1, <2>1, <2>4, OthersInv DEF Deactivate, Call, Up, drives
  <2>5. CASE Cleanup
    BY <2>5, ReleaseInv DEF Cleanup, Call
  <2>6. CASE Shutdown
    BY <2>6, ReleaseInv DEF Shutdown, Call
  <2>7. CASE Read
    BY <2>7, ReadInv
  <2>8. CASE Update
    BY <2>8, UpdateInv
  <2>9. CASE Write
    BY <2>9, WriteInv
  <2>10. CASE Switch
    <3>1. phase = "idle" /\ phase' = phase /\ (life' = life \/ life' = "thrown")
      BY <2>10 DEF Switch, Call
    <3>2. UNCHANGED <<plugin, target, past, raw>>
      BY <2>10 DEF Switch, drives
    <3> QED
      BY <1>1, <2>1, <3>1, <3>2, OthersInv
  <2>11. CASE Drive
    BY <2>11, DriveInv
  <2>12. CASE UNCHANGED vars
    BY <1>1, <2>1, <2>12, OthersInv DEF vars, drives
  <2>13. ~SimConfigure /\ ~SimRead /\ ~SimWrite
    BY DEF Real, SimConfigure, SimRead, SimWrite
  <2> QED
    BY <2>2, <2>3, <2>4, <2>5, <2>6, <2>7, <2>8, <2>9, <2>10, <2>11, <2>12, <2>13 DEF Next
<1> QED
  BY <1>2, <1>3

-----------------------------------------------------------------------------
(* The invariant: a joint keeps the axis of its name, and from the first   *)
(* reading on its command stays at its home until a controller commands it.*)
THEOREM InterfaceInvariant == Spec => []Inv
BY InitInv, StepInv, PTL DEF Spec

LEMMA FoldedNear ==
  ASSUME NEW zero \in Int, NEW count \in Int, Within(count - zero, 3)
  PROVE  Within(count - Folded(zero, count), 1)
BY InterfaceAssumption DEF Folded, Within

(* Each joint reads and commands the axis that carries its name, whatever  *)
(* the order of clients and names, and its folded zero puts it within half *)
(* a turn.                                                                 *)
THEOREM AxesAreBound == Spec => []AxesBound
<1>1. Inv => AxesBound
  <2> SUFFICES ASSUME Inv, Up, Real, NEW j \in Joints
               PROVE  /\ setup.yaml[slot[j].client][slot[j].ec] = setup.joints[j]
                      /\ Within(began[On(j)] - setup.zero[slot[j].client][slot[j].ec], 3)
                           => Within(began[On(j)] - slot[j].zero, 1)
    BY DEF AxesBound, Up, Real
  <2>1. TypeInv /\ OwnAxis /\ ZeroFolded /\ setup \in Setups
    BY DEF Inv
  <2>2. On(j) \in Axes /\ On(j)[1] = slot[j].client /\ On(j)[2] = slot[j].ec
    BY <2>1, OnPhysical
  <2>3. setup.zero[On(j)[1]][On(j)[2]] \in Int /\ began[On(j)] \in Int
    BY <2>1, <2>2, SetupFacts DEF Axes, TypeInv
  <2>4. slot[j].zero = Folded(setup.zero[On(j)[1]][On(j)[2]], began[On(j)])
    BY <2>1 DEF ZeroFolded
  <2>5. setup.yaml[On(j)[1]][On(j)[2]] = setup.joints[j]
    BY <2>1 DEF OwnAxis
  <2> QED
    BY <2>2, <2>3, <2>4, <2>5, FoldedNear
<1> QED
  BY <1>1, InterfaceInvariant, PTL

(* write sends no joint anywhere no controller sent it.                    *)
THEOREM NothingLurches == Spec => NoLurch
<1>1. ASSUME Inv, [Next]_vars
      PROVE  [(phase = "updated" /\ phase' = "idle" /\ ~setup.sim /\ NamedOnce) =>
                \A j \in Joints : j \notin fresh' => target'[On(j)] = home'[On(j)]]_vars
  <2>1. CASE ~UNCHANGED vars /\ phase = "updated" /\ phase' = "idle" /\ Real
    <3>1. Write
      BY <1>1, <2>1 DEF Next, Real, Configure, SimConfigure, Activate, Deactivate, Cleanup, Shutdown, Call,
            Read, SimRead, Update, SimWrite, Switch, Drive
    <3> QED
      BY <1>1, <2>1, <3>1, WriteInv
  <2> QED
    BY <2>1 DEF Real
<1> QED
  BY <1>1, InterfaceInvariant, PTL DEF Spec, NoLurch
=============================================================================
