------------------------------- MODULE BusScan -------------------------------
(***************************************************************************)
(* ecx_config_init: the master counts the slaves of the bus, gives each    *)
(* one its address, reads its identity and mailbox from its EEPROM word by *)
(* word over all slaves, reads which of its ports are open, searches its   *)
(* parent, and fills its sync managers: from an earlier slave of the same  *)
(* identity, or from the EEPROM.                                           *)
(*                                                                         *)
(* The bus is a tree.  A frame that enters a slave leaves it by its open   *)
(* ports in the order of PortOrder and comes back, so the slaves are       *)
(* numbered in the order in which a frame meets them.                      *)
(***************************************************************************)
EXTENDS Integers, Sequences, FiniteSets, FiniteSetsExt, SequencesExt, Functions

CONSTANTS
  Buses,     (* the buses, and what is done with them: see MCBus            *)
  Device,    (* Device[k]: what a slave of the kind k holds (see MCBus)     *)
  MaxSlave,  (* EC_MAXSLAVE                                                 *)
  MaxSm      (* EC_MAXSM                                                    *)

Ports == 0 .. 3

ASSUME BusAssumption ==
  /\ \A b \in Buses :
       /\ b.n \in Nat \ {0}
       /\ \A s \in 1 .. b.n : b.entry[s] \in Ports /\ b.kind[s] \in DOMAIN Device
       /\ b.up[1] = 0
       /\ \A s \in 2 .. b.n :
            /\ b.up[s] \in 1 .. s - 1
            /\ b.out[s] \in Ports \ {b.entry[b.up[s]]}
            \* a frame passes all of one branch before it comes to the next
            /\ \A r \in b.up[s] + 1 .. s - 1 : b.up[r] >= b.up[s] /\ (b.up[r] = b.up[s] => b.out[r] # b.out[s])
  /\ {MaxSlave, MaxSm} \subseteq Nat /\ MaxSm > 4

VARIABLES
  bus,      (* the bus there is                                             *)
  pc,       (* where the master is                                          *)
  at,       (* the slave its loop is at                                     *)
  slave,    (* slavelist[1 ..]; its length is slavecount                    *)
  lost      (* datagrams and answers lost so far                            *)

scanVars == <<bus, pc, at, slave, lost>>
-----------------------------------------------------------------------------
PortOrder == <<0, 3, 1, 2>>          \* in which a frame passes the ports
NoSm      == [start |-> 0, len |-> 0, on |-> FALSE]
Kind(s)   == Device[bus.kind[s]]

(* ec_slavet after the memset of ecx_init_context.                         *)
Blank == [adr |-> FALSE, man |-> 0, id |-> 0, rev |-> 0, mbx |-> FALSE, proto |-> {},
          ca |-> FALSE, hasdc |-> FALSE, ports |-> {}, parent |-> 0,
          sm |-> [k \in 0 .. MaxSm - 1 |-> NoSm], type |-> [k \in 0 .. MaxSm - 1 |-> 0],
          obits |-> 0, ibits |-> 0, obytes |-> 0, ibytes |-> 0,
          fmmu |-> <<>>, outputs |-> <<>>, inputs |-> <<>>,
          al |-> "init", pdi |-> FALSE]

Children(b, s)  == {c \in 1 .. b.n : b.up[c] = s}
OpenPorts(b, s) == {b.entry[s]} \union {b.out[c] : c \in Children(b, s)}
Topology(s)     == Cardinality(slave[s].ports)

ScanInit ==
  /\ bus \in Buses
  /\ pc = "detect" /\ at = 1 /\ slave = <<>> /\ lost = 0

(* k datagrams or answers are lost; what is read of them counts as zero.   *)
(* Bound: bus.noise of them.                                               *)
Budget(k) == lost + k <= bus.noise /\ lost' = lost + k
-----------------------------------------------------------------------------
(* ecx_init_context, ecx_detect_slaves and ecx_set_slaves_to_default: the  *)
(* working counter of one broadcast read is the number of slaves.          *)
Detect ==
  /\ pc = "detect"
  /\ \/ /\ Budget(0) /\ bus.n < MaxSlave
        /\ slave' = [s \in 1 .. bus.n |-> Blank]
        /\ pc' = "address"
     \/ /\ \/ Budget(1)
           \/ bus.n >= MaxSlave /\ Budget(0)
        /\ pc' = "none" /\ UNCHANGED slave
  /\ UNCHANGED <<bus, at>>

NextSlave(then, again) ==
  IF at = Len(slave) THEN at' = 1 /\ pc' = then ELSE at' = at + 1 /\ pc' = again

(* The station address is written and read back: a slave whose address is  *)
(* not read answers none of the reads below.                               *)
Address ==
  /\ pc = "address"
  /\ \E answers \in BOOLEAN :
       /\ Budget(IF answers THEN 0 ELSE 1)
       /\ slave' = [slave EXCEPT ![at].adr = answers]
  /\ NextSlave("man", "address")
  /\ UNCHANGED bus

(* One word of the EEPROM of every slave.                                  *)
SiiWord(field, value, nothing, then) ==
  /\ pc = field
  /\ \E read \in BOOLEAN :
       /\ IF slave[at].adr THEN Budget(IF read THEN 0 ELSE 1) ELSE ~read /\ Budget(0)
       /\ slave' = [slave EXCEPT ![at][field] = IF read THEN value ELSE nothing]
  /\ NextSlave(then, field)
  /\ UNCHANGED bus

ReadMan == SiiWord("man", Kind(at).man, 0, "id")
ReadId  == SiiWord("id", Kind(at).id, 0, "rev")
ReadRev == SiiWord("rev", Kind(at).rev, 0, "mbx")
ReadMbx == SiiWord("mbx", Kind(at).mbx, FALSE, "setup")

Same(x, y) == x.man = y.man /\ x.id = y.id /\ x.rev = y.rev
Earlier(s) == {i \in 1 .. s - 1 : Same(slave[i], slave[s])}

(* Mutant: the nearest earlier slave with another port open.               *)
SearchParent_near(s) ==
  IF s = 1 THEN 0 ELSE Max({1} \union {i \in 1 .. s - 1 : Topology(i) > 1})

(* The search of ecx_config_init: backwards over the earlier slaves, an    *)
(* end point closes a branch, a split or a cross opens one or two more.    *)
Topoc(i, s) ==
  Cardinality({e \in (i .. s - 1) \X {1, 2} : e[2] <= Topology(e[1]) - 2})
    - Cardinality({j \in i .. s - 1 : Topology(j) = 1})
SearchParent(s) ==
  IF s = 1 THEN 0 ELSE Max({i \in 1 .. s - 1 : i = 1 \/ (Topoc(i, s) >= 0 /\ Topology(i) > 1)})

(* ecx_lookup_prev_sii.                                                    *)
Copied(s, r) == [r EXCEPT !.sm = slave[Min(Earlier(s))].sm, !.ca = slave[Min(Earlier(s))].ca]

(* The EEPROM's general and sync manager sections.                         *)
FromSii(k, r) ==
  [r EXCEPT !.ca = k.ca,
            !.sm = [m \in DOMAIN r.sm |-> IF m < Len(k.sm) THEN [k.sm[m + 1] EXCEPT !.on = TRUE] ELSE @[m]]]

MailboxTypes == [m \in 0 .. MaxSm - 1 |-> IF m < 4 THEN m + 1 ELSE 0]
DefaultMbx   == (0 :> [start |-> 4096, len |-> 128, on |-> TRUE]) @@ (1 :> [start |-> 4224, len |-> 128, on |-> TRUE])

(* The last loop, for one slave: the rest of the mailbox, DC support, the  *)
(* open ports, the parent, the sync managers; at its end the EEPROM goes   *)
(* to the slave and PRE_OP is requested.                                   *)
Setup ==
  /\ pc = "setup"
  /\ \E got \in SUBSET {"proto", "dc", "ports", "sii", "preop"} :
       LET k    == Kind(at)
           miss == {"proto", "dc", "ports", "sii", "preop"} \ got
           own  == slave[at]
           read == [own EXCEPT !.hasdc = "dc" \in got /\ k.dc,
                               !.ports = IF "ports" \in got THEN OpenPorts(bus, at) ELSE {},
                               !.parent = SearchParent(at)]
           mbox == IF ~own.mbx THEN read
                   ELSE [read EXCEPT !.type = MailboxTypes,
                                     !.sm = (0 :> k.sm[1]) @@ (1 :> k.sm[2]) @@ @,
                                     !.proto = IF "proto" \in got THEN k.proto ELSE {}]
           sms  == IF Earlier(at) # {} THEN Copied(at, mbox)
                   ELSE IF "sii" \in got THEN FromSii(k, mbox) ELSE mbox
           safe == IF ~own.mbx THEN sms
                   ELSE [sms EXCEPT !.sm = [m \in DOMAIN @ |->
                          IF m < 2 /\ @[m].start = 0 THEN DefaultMbx[m] ELSE @[m]]]
       IN /\ IF own.adr THEN Budget(Cardinality(miss)) ELSE got = {} /\ Budget(0)
          /\ "proto" \in miss => own.mbx \/ ~own.adr
          /\ "sii" \in miss => Earlier(at) = {} \/ ~own.adr
          /\ slave' = [slave EXCEPT ![at] =
                         [safe EXCEPT !.pdi = TRUE, !.al = IF "preop" \in got THEN "pre" ELSE @]]
  /\ NextSlave("coe", "setup")
  /\ UNCHANGED bus

Scan == Detect \/ Address \/ ReadMan \/ ReadId \/ ReadRev \/ ReadMbx \/ Setup
-----------------------------------------------------------------------------
(* The master's picture of the tree is the tree: the slave it takes for    *)
(* the parent of another is the one whose port leads there, if the open    *)
(* ports of all slaves before it were read.  (A slave that did not answer  *)
(* counts as one without ports, and the search then skips it.)             *)
ParentRight ==
  \A s \in DOMAIN slave :
    (slave[s].al # "init" /\ \A j \in 1 .. s - 1 : slave[j].ports # {}) => slave[s].parent = bus.up[s]
=============================================================================
