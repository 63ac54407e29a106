-------------------------------- MODULE BusMap --------------------------------
(***************************************************************************)
(* ecx_config_map_group and ecx_config_overlap_map_group: how many bits a  *)
(* slave sends and takes (from its objects over CoE, over SoE, from an     *)
(* earlier slave of its identity, from its EEPROM), its sync managers, the *)
(* FMMUs that put them into the process image, and the segments in which   *)
(* the image travels.  The group is 0, all slaves, as the driver has it.   *)
(***************************************************************************)
EXTENDS BusScan

CONSTANTS
  MaxSegment,   (* EC_MAXLRWDATA - EC_FIRSTDCDATAGRAM, in bytes              *)
  MaxIoSegments (* EC_MAXIOSEGMENTS                                          *)

ASSUME MapAssumption == {MaxSegment, MaxIoSegments} \subseteq Nat \ {0}

VARIABLES
  overlap,  (* ecx_config_overlap_map_group was called                      *)
  area,     (* [log, bit, old, so]: LogAddr, BitPos, oLogAddr, soLogAddr    *)
  segs,     (* [done, size, full]: IOsegment[], segmentsize; full: no       *)
            (* segment was left for bytes that did not fit                  *)
  group,    (* grouplist[0]                                                 *)
  fm        (* the loop over one slave's FMMUs: SMc, ByteCount, BitCount,   *)
            (* FMMUdone                                                     *)

mapVars == <<overlap, area, segs, group, fm>>
-----------------------------------------------------------------------------
Out == 3                              \* the types of sync managers
In  == 4
Loop == [sm |-> 0, bytes |-> 0, bits |-> 0, done |-> 0]
Bytes(bits) == (bits + 7) \div 8

MapInit ==
  /\ overlap = bus.overlap
  /\ area = [log |-> 0, bit |-> 0, old |-> 0, so |-> 0]
  /\ segs = [done |-> <<>>, size |-> 0, full |-> FALSE]
  /\ group = [obytes |-> 0, ibytes |-> 0, isegment |-> 0, ioffset |-> 0, owkc |-> 0, iwkc |-> 0]
  /\ fm = Loop

(* Every choice of answers that are lost, out of a set, within the bound.  *)
Losses(S) == UNION {kSubset(i, S) : i \in 0 .. Min({bus.noise - lost, Cardinality(S)})}

(* Mutant: the last PDO is not counted.                                    *)
Assigned_short(k, m, miss) ==
  IF <<m, 0>> \in miss THEN 0
  ELSE SumFunctionOnSet(k.pdo[m], {j \in 1 .. Len(k.pdo[m]) - 1 : <<m, j>> \notin miss})

(* readPDOassign and readPDOassignCA: the bits of the PDOs of sync manager *)
(* m.  A PDO whose description is lost counts no bits.                     *)
Assigned(k, m, miss) ==
  IF <<m, 0>> \in miss THEN 0
  ELSE SumFunctionOnSet(k.pdo[m], {j \in DOMAIN k.pdo[m] : <<m, j>> \notin miss})

(* The objects that readPDOmap reads: the list of types (0, 0), a type     *)
(* (m, -1), an assignment (m, 0) and a PDO (m, j).                         *)
Objects(k, ca) ==
  {<<0, 0>>} \union (IF ca THEN {} ELSE (2 .. Len(k.comm) - 1) \X {-1})
             \union UNION {{m} \X (0 .. Len(k.pdo[m])) : m \in DOMAIN k.pdo}

(* readPDOmap and readPDOmapCA: the types of the sync managers from 2 on,  *)
(* corrected where SM2 is a mailbox (and, without complete access, where   *)
(* SM2 or SM3 is unused), their lengths, and the sizes in bits.            *)
ReadMap(r, k, ca, miss) ==
  LET sms  == IF <<0, 0>> \in miss \/ Len(k.comm) <= 2 THEN {}
              ELSE {m \in 2 .. Min({Len(k.comm), MaxSm}) - 1 : <<m, -1>> \notin miss}
      add  == IF 2 \in sms /\ k.comm[3] = 2 THEN 1 ELSE 0
      Type(m) == IF k.comm[m + 1] > 0 THEN k.comm[m + 1] + add
                 ELSE IF ~ca /\ m \in {2, 3} THEN m + 1 ELSE 0
      Size(m) == IF Type(m) \in {Out, In} THEN Assigned(k, m, miss) ELSE 0
  IN [r EXCEPT !.type = [m \in DOMAIN @ |-> IF m \in sms THEN Type(m) ELSE @[m]],
               !.sm = [m \in DOMAIN @ |-> IF m \notin sms THEN @[m]
                         ELSE [@[m] EXCEPT !.on = @ /\ Type(m) # 0,
                                           !.len = IF Size(m) > 0 THEN Bytes(Size(m)) ELSE @]],
               !.obits = MapThenSumSet(Size, {m \in sms : Type(m) = Out}),
               !.ibits = MapThenSumSet(Size, {m \in sms : Type(m) = In})]

Empty(r) == r.obits = 0 /\ r.ibits = 0

(* ecx_map_coe_soe: complete access, then single objects, then SoE.  A     *)
(* slave that did not reach PRE_OP has no mailbox yet: nothing is read.    *)
MapCoeSoe ==
  /\ pc = "coe"
  /\ LET own == slave[at]
         k   == Kind(at)
         on  == own.al = "pre"
         all == Objects(k, FALSE)
         coe == "coe" \in own.proto
         soe == "soe" \in own.proto
     IN \E m1 \in (IF coe /\ own.ca /\ on THEN Losses(Objects(k, TRUE)) ELSE {{}}) :
        LET byCa == IF coe /\ own.ca /\ on THEN ReadMap(own, k, TRUE, m1) ELSE own
        IN \E m2 \in (IF coe /\ Empty(byCa) /\ on THEN Losses(all) ELSE {{}}) :
           LET byCoe == IF coe /\ Empty(byCa) /\ on THEN ReadMap(byCa, k, FALSE, m2) ELSE byCa
           IN \E m3 \in (IF soe /\ Empty(byCoe) /\ on THEN Losses({"idn"}) ELSE {{}}) :
              LET got  == on /\ m3 = {}
                  o    == IF got THEN k.soe[1] ELSE 0
                  i    == IF got THEN k.soe[2] ELSE 0
              IN /\ Budget(Cardinality(m1) + Cardinality(m2) + Cardinality(m3))
                 /\ slave' = [slave EXCEPT ![at] =
                      IF soe /\ Empty(byCoe)
                      THEN [byCoe EXCEPT !.obits = o, !.ibits = i,
                                         !.sm = [@ EXCEPT ![2].len = Bytes(o), ![3].len = Bytes(i)]]
                      ELSE byCoe]
  /\ NextSlave("sii", "coe")
  /\ UNCHANGED <<bus, mapVars>>

(* ecx_lookup_mapping.                                                     *)
FromEarlier(r, e) ==
  [r EXCEPT !.type = e.type, !.obits = e.obits, !.ibits = e.ibits,
            !.sm = [m \in DOMAIN @ |-> [@[m] EXCEPT !.len = e.sm[m].len]]]

(* The PDO sections of the EEPROM: inputs (tx) first, then outputs (rx).   *)
FromPdoSections(r, k) ==
  [r EXCEPT !.ibits = SumFunction(k.tx), !.obits = SumFunction(k.rx),
            !.type = [m \in DOMAIN @ |-> IF m \in DOMAIN k.rx THEN Out ELSE IF m \in DOMAIN k.tx THEN In ELSE @[m]],
            !.sm = [m \in DOMAIN @ |-> [@[m] EXCEPT !.len =
                      IF m \in DOMAIN k.rx THEN Bytes(k.rx[m]) ELSE IF m \in DOMAIN k.tx THEN Bytes(k.tx[m]) ELSE @]]]

(* ecx_map_sm: a sync manager is enabled exactly if it has a length, and   *)
(* from eight bits on a slave is byte oriented.                            *)
Programmed(r) ==
  [r EXCEPT !.sm = [m \in DOMAIN @ |-> IF m < 2 \/ @[m].start = 0 THEN @[m] ELSE [@[m] EXCEPT !.on = r.sm[m].len > 0]],
            !.obytes = IF r.obits > 7 THEN Bytes(r.obits) ELSE 0,
            !.ibytes = IF r.ibits > 7 THEN Bytes(r.ibits) ELSE 0]

(* ecx_map_sii and ecx_map_sm.                                             *)
MapSiiSm ==
  /\ pc = "sii"
  /\ LET own  == slave[at]
         prev == IF Empty(own) /\ Earlier(at) # {} THEN FromEarlier(own, slave[Min(Earlier(at))]) ELSE own
     IN \E miss \in (IF Empty(prev) /\ own.adr THEN Losses({"pdo"}) ELSE {{}}) :
          /\ Budget(Cardinality(miss))
          /\ slave' = [slave EXCEPT ![at] =
               Programmed(IF Empty(prev) /\ own.adr /\ miss = {} THEN FromPdoSections(prev, Kind(at)) ELSE prev)]
  /\ NextSlave("out", "sii")
  /\ UNCHANGED <<bus, mapVars>>
-----------------------------------------------------------------------------
(* The first sync manager of a type from m on, or the last one.            *)
NextSm(r, dir, m) == Min({j \in m .. MaxSm - 2 : r.type[j] = dir} \union {MaxSm - 1})

(* The sync managers one FMMU takes: more than the first while bits are    *)
(* missing and the next one connects.  g[k]: after k more.                 *)
Gather(r, dir, first) ==
  LET need == IF dir = Out THEN r.obits ELSE r.ibits
      g[k \in 0 .. MaxSm] ==
        IF k = 0 THEN first
        ELSE LET h == g[k - 1]
                 m == NextSm(r, dir, h.sm + 1)
             IN IF ~h.open \/ h.bits >= need \/ h.sm >= MaxSm - 1 THEN h
                ELSE IF r.sm[m].start > h.end THEN [h EXCEPT !.sm = m, !.open = FALSE]
                ELSE [h EXCEPT !.sm = m, !.bytes = @ + r.sm[m].len, !.bits = @ + 8 * r.sm[m].len,
                               !.end = r.sm[m].start + r.sm[m].len]
  IN g[MaxSm]

More(r, dir) == fm.sm < MaxSm - 1 /\ fm.done < Bytes(IF dir = Out THEN r.obits ELSE r.ibits)

(* One FMMU of ecx_config_create_output_mappings or .._input_mappings.  A  *)
(* bit oriented slave goes on at the next bit, a byte oriented one at the  *)
(* next byte; an input FMMU without a length is not activated.             *)
Fmmu(dir) ==
  LET r     == slave[at]
      whole == IF dir = Out THEN r.obytes ELSE r.ibytes
      bits  == IF dir = Out THEN r.obits ELSE r.ibits
      m     == NextSm(r, dir, fm.sm)
      g     == Gather(r, dir, [sm |-> m, bytes |-> fm.bytes + r.sm[m].len, bits |-> fm.bits + 8 * r.sm[m].len,
                               end |-> r.sm[m].start + r.sm[m].len, open |-> TRUE])
      last  == area.bit + bits - 1
      start == IF whole > 0 /\ area.bit > 0 THEN area.log + 1 ELSE area.log
      f     == IF whole > 0
               THEN [dir |-> dir, phys |-> r.sm[m].start, log |-> start, bit |-> 0, endbit |-> 7,
                     len |-> IF g.bytes + fm.done > whole THEN whole - fm.done ELSE g.bytes]
               ELSE [dir |-> dir, phys |-> r.sm[m].start, log |-> start, bit |-> area.bit, endbit |-> last % 8,
                     len |-> 1 + last \div 8]
      next  == IF whole > 0 THEN 8 * (f.log + f.len) ELSE 8 * f.log + last + 1
  IN /\ More(r, dir)
     /\ slave' = [slave EXCEPT ![at].fmmu = Append(@, f),
                               ![at].outputs = IF dir = Out /\ @ = <<>> THEN <<f.log, f.bit>> ELSE @,
                               ![at].inputs = IF dir = In /\ @ = <<>> THEN <<f.log, f.bit>> ELSE @]
     /\ group' = [group EXCEPT !.owkc = IF dir = Out THEN @ + 1 ELSE @,
                               !.iwkc = IF dir = In /\ f.len > 0 THEN @ + 1 ELSE @]
     /\ area' = [area EXCEPT !.log = next \div 8, !.bit = next % 8]
     /\ fm' = [sm |-> g.sm, bytes |-> g.bytes, bits |-> g.bits, done |-> fm.done + f.len]
     /\ UNCHANGED <<bus, pc, at, lost, overlap, segs>>

FmmuOut == pc = "out" /\ Fmmu(Out)
FmmuIn  == pc = "in" /\ Fmmu(In)

(* Mutant: a segment begins without the bytes that did not fit.            *)
Account_drop(g, diff) ==
  IF g.size + diff <= MaxSegment THEN [g EXCEPT !.size = @ + diff]
  ELSE IF Len(g.done) < MaxIoSegments - 1 THEN [g EXCEPT !.done = Append(@, g.size), !.size = 0]
  ELSE [g EXCEPT !.full = TRUE]

(* Bytes are added to a segment while they fit; the last one is closed and *)
(* the next begun with them; without a next one they are in none.          *)
Account(g, diff) ==
  IF g.size + diff <= MaxSegment THEN [g EXCEPT !.size = @ + diff]
  ELSE IF Len(g.done) < MaxIoSegments - 1 THEN [g EXCEPT !.done = Append(@, g.size), !.size = diff]
  ELSE [g EXCEPT !.full = TRUE]

Padded == area.log + (IF area.bit > 0 THEN 1 ELSE 0)

(* The outputs of a slave are mapped: in the overlapping image its inputs  *)
(* follow, at the same addresses, otherwise the next slave's outputs.      *)
OutputsDone ==
  /\ pc = "out" /\ ~More(slave[at], Out)
  /\ fm' = Loop
  /\ IF overlap
     THEN /\ area' = [area EXCEPT !.so = Padded, !.log = area.old, !.bit = 0]
          /\ pc' = "in" /\ UNCHANGED <<at, segs>>
     ELSE /\ area' = [area EXCEPT !.old = area.log]
          /\ segs' = Account(segs, area.log - area.old)
          /\ NextSlave("outputs", "out")
  /\ UNCHANGED <<bus, slave, lost, overlap, group>>

(* The last byte is filled up, and the inputs begin where the outputs end. *)
PadByte == segs' = IF area.bit > 0 THEN Account(segs, 1) ELSE segs
OutputsEnd ==
  /\ pc = "outputs" /\ PadByte
  /\ area' = [area EXCEPT !.log = Padded, !.old = Padded, !.bit = 0]
  /\ group' = [group EXCEPT !.obytes = Padded, !.isegment = Len(segs'.done), !.ioffset = segs'.size]
  /\ pc' = "in"
  /\ UNCHANGED <<bus, at, slave, lost, overlap, fm>>

(* A slave is mapped; SAFE_OP is requested of it.                          *)
InputsDone ==
  /\ pc = "in" /\ ~More(slave[at], In)
  /\ fm' = Loop
  /\ LET end == IF overlap THEN Max({area.so, Padded}) ELSE area.log
     IN /\ area' = [area EXCEPT !.log = end, !.old = end, !.bit = IF overlap THEN 0 ELSE @]
        /\ segs' = Account(segs, end - area.old)
        /\ group' = IF overlap THEN [group EXCEPT !.obytes = area.so, !.ibytes = Padded] ELSE group
  /\ \E reached \in BOOLEAN :
       /\ IF slave[at].adr THEN Budget(IF reached THEN 0 ELSE 1) ELSE ~reached /\ Budget(0)
       /\ slave' = [slave EXCEPT ![at].pdi = TRUE,
                                 ![at].al = IF reached /\ @ = "pre" THEN "safe" ELSE @]
  /\ NextSlave("total", IF overlap THEN "out" ELSE "in")
  /\ UNCHANGED <<bus, overlap>>

(* The end: the size of the inputs, or, in the overlapping image, the move *)
(* of every slave's inputs behind the outputs.                             *)
InputsEnd ==
  /\ pc = "total"
  /\ IF overlap
     THEN /\ slave' = [s \in DOMAIN slave |-> [slave[s] EXCEPT !.inputs =
                         IF @ = <<>> THEN @ ELSE <<@[1] + group.obytes, @[2]>>]]
          /\ UNCHANGED <<area, segs, group>>
     ELSE /\ PadByte
          /\ area' = [area EXCEPT !.log = Padded, !.old = Padded, !.bit = 0]
          /\ group' = [group EXCEPT !.ibytes = Padded - group.obytes]
          /\ UNCHANGED slave
  /\ pc' = "clock"
  /\ UNCHANGED <<bus, at, lost, overlap, fm>>

Map == MapCoeSoe \/ MapSiiSm \/ FmmuOut \/ OutputsDone \/ OutputsEnd \/ FmmuIn \/ InputsDone \/ InputsEnd
-----------------------------------------------------------------------------
Mapped    == pc \in {"clock", "sync", "done"}
Segments  == Append(segs.done, segs.size)
Total     == area.log
Windows   == UNION {{s} \X DOMAIN slave[s].fmmu : s \in DOMAIN slave}
Window(w) == slave[w[1]].fmmu[w[2]]
BitsOf(f) == 8 * f.log + f.bit .. 8 * (f.log + f.len - 1) + f.endbit
PhysOf(r, f) == f.phys .. f.phys + (IF (IF f.dir = Out THEN r.obytes ELSE r.ibytes) > 0 THEN f.len ELSE 1) - 1
Memory(r, m) == r.sm[m].start .. r.sm[m].start + r.sm[m].len - 1
Owners(r, dir) == {m \in DOMAIN r.sm : r.type[m] = dir /\ r.sm[m].len > 0}
Places(r, dir) == Cardinality({m \in Owners(r, dir) : ~\E j \in Owners(r, dir) : j < m /\ r.sm[j].start + r.sm[j].len = r.sm[m].start})
Claimed(s, dir) == UNION {BitsOf(slave[s].fmmu[i]) : i \in {j \in DOMAIN slave[s].fmmu : slave[s].fmmu[j].dir = dir}}

(* When nothing is lost, every slave has the sizes its device really has,  *)
(* wherever they were read: objects with wrong types, SoE, an earlier      *)
(* slave or the EEPROM.  One kind is beyond this: with complete access and *)
(* one of SM2 and SM3 marked unused, the other's data is all that is found.*)
SizesRight ==
  (Mapped /\ lost = 0) =>
    \A s \in DOMAIN slave :
      Kind(s).real = <<slave[s].obits, slave[s].ibits>>
        \/ (Kind(s).ca /\ Cardinality({m \in {3, 4} : Kind(s).comm[m] = 0}) = 1)

(* No bit belongs to two FMMUs (of one direction, where inputs and outputs *)
(* overlap), and all lie in the image, outputs before inputs.              *)
WindowsApart ==
  \A v, w \in Windows :
    (v # w /\ (overlap => Window(v).dir = Window(w).dir)) => BitsOf(Window(v)) \cap BitsOf(Window(w)) = {}
Side(dir) ==
  IF dir = Out THEN 0 .. 8 * group.obytes - 1
  ELSE IF overlap THEN 0 .. 8 * group.ibytes - 1 ELSE 8 * group.obytes .. 8 * Total - 1
WindowsInside == \A w \in Windows : BitsOf(Window(w)) \subseteq Side(Window(w).dir)

(* A slave has all its bits, or its bytes, in the image.                   *)
WindowsWhole ==
  \A s \in DOMAIN slave :
    LET r == slave[s]
    IN /\ Cardinality(Claimed(s, Out)) = IF r.obytes > 0 THEN 8 * r.obytes ELSE r.obits
       /\ Cardinality(Claimed(s, In)) = IF r.ibytes > 0 THEN 8 * r.ibytes ELSE r.ibits

(* If nothing was lost, an FMMU reaches only memory of the slave's own sync*)
(* managers of its direction, if that is in two places at most: ByteCount  *)
(* is not reset, so the second of three would take the length of both.     *)
MemoryOwn ==
  lost = 0 => \A s \in DOMAIN slave :
    LET r == slave[s]
    IN \A i \in DOMAIN r.fmmu : Places(r, r.fmmu[i].dir) <= 2 =>
         PhysOf(r, r.fmmu[i]) \subseteq UNION {Memory(r, m) : m \in Owners(r, r.fmmu[i].dir)}

(* The segments the image travels in are as long as it together, none too  *)
(* long for a frame; the inputs begin in the segment and at the offset     *)
(* where the master looks for them; and the FMMU of a byte oriented slave  *)
(* lies in one segment, so its data is of one frame.                       *)
Begin(i) == SumFunctionOnSet(Segments, 1 .. i - 1)
SegmentsFit ==
  /\ Begin(Len(Segments) + 1) = Total
  /\ \A i \in DOMAIN Segments : Segments[i] <= MaxSegment
  /\ ~overlap => Begin(group.isegment + 1) + group.ioffset = group.obytes
  /\ \A w \in Windows :
       (IF Window(w).dir = Out THEN slave[w[1]].obytes ELSE slave[w[1]].ibytes) > 0 =>
         \E i \in DOMAIN Segments : BitsOf(Window(w)) \subseteq 8 * Begin(i) .. 8 * Begin(i + 1) - 1

(* The process image is sound however the reads of its parts went, and so  *)
(* are its segments, unless there were too few of them.                    *)
ImageSound ==
  Mapped => /\ WindowsApart /\ WindowsInside /\ WindowsWhole /\ MemoryOwn
            /\ ~segs.full => SegmentsFit
=============================================================================
