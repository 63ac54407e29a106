------------------------------- MODULE Eeprom -------------------------------
(***************************************************************************)
(* The EEPROM (SII) of the slaves as the master uses it: the byte cache of *)
(* ecx_siigetbyte, the commands of its EEPROM interface over a line that   *)
(* loses datagrams, the control over it that master and PDI hand to each   *)
(* other, and the functions that look up and decode its sections.          *)
(***************************************************************************)
EXTENDS Integers, Sequences, FiniteSets, SequencesExt

CONSTANTS
  Slaves,     (* a set of positions, 1 .. N                                 *)
  Contents,   (* Contents[s]: the sections [cat, value] of slave s's EEPROM *)
  Wide,       (* the slaves that answer with eight bytes (eep_8byte)        *)
  SiiStart,   (* ECT_SII_START, in words                                    *)
  MaxEepBuf,  (* EC_MAXEEPBUF                                               *)
  Retries,    (* EC_DEFAULTRETRIES                                          *)
  MaxSm, MaxPdo, MaxName,   (* EC_MAXSM, EC_MAXEEPDO, EC_MAXNAME            *)
  Lookups,    (* the calls a client makes: see Begin                        *)
  MaxLookups, (* bound: number of calls                                     *)
  MaxFaults   (* bound: datagrams lost, commands refused, EEPROMs too slow  *)

ASSUME SlavesAssumption ==
  /\ Cardinality(Slaves) \in Nat \ {0}
  /\ Slaves = 1 .. Cardinality(Slaves)

ASSUME LookupsAssumption ==   (* addresses, in words, and counts            *)
  /\ SiiStart \in Nat
  /\ \A c \in Lookups :
       c.s \in Slaves /\ (IF c.op \in {"write", "writeAP"} THEN c.arg.word ELSE c.arg) \in Nat

ASSUME EepromAssumption ==
  /\ Wide \subseteq Slaves
  /\ \A s \in Slaves : \A k \in 1 .. Len(Contents[s]) : Contents[s][k].cat \in 1 .. 65534
  /\ {MaxEepBuf, Retries, MaxSm, MaxPdo, MaxName, MaxLookups, MaxFaults} \subseteq Nat

VARIABLES
  esislave, (* the slave whose bytes are in the cache                       *)
  esimap,   (* the addresses that are in it                                 *)
  esibuf,   (* the cache                                                    *)
  pdi,      (* slavelist[].eep_pdi                                          *)
  pc,       (* where the master is                                          *)
  call,     (* the call: [op, s, arg]                                       *)
  eectl,    (* eep_pdi when it began                                        *)
  walk,     (* what it still reads: the addresses of each pass              *)
  word,     (* the word that is being read or written                       *)
  tries, nackcnt, edat,
  ids,      (* what ecx_readeeprom2 returned for each slave                 *)
  answer,   (* what the last call returned                                  *)
  eeprom,   (* the words of every EEPROM, as bytes                          *)
  owner,    (* who has control over it: "master", "pdi" or "none"           *)
  reg,      (* its interface: [busy, nack, word, value, out]                *)
  faults, lookups,
  trouble,  (* history: retries ran out, or the EEPROM refused three times  *)
  stale     (* history: the cached addresses that were written since        *)

cache == <<esislave, esimap, esibuf>>
job   == <<call, eectl, walk, word, nackcnt, edat, ids, answer>>
chip  == <<eeprom, owner, reg>>
vars  == <<cache, pdi, pc, job, tries, chip, faults, lookups, trouble, stale>>
-----------------------------------------------------------------------------
String == 10
Fmmu   == 40
Sm     == 41
Pdo    == 50     \* and 51: inputs and outputs

Low(n)   == n % 256
High(n)  == n \div 256
Even(b)  == IF Len(b) % 2 = 0 THEN b ELSE Append(b, 0)
Join(f(_), v) == FlattenSeq([k \in 1 .. Len(v) |-> f(v[k])])

(* How the contents lie in the EEPROM: the layout the decoders expect.     *)
SmBytes(m)    == <<Low(m.start), High(m.start), Low(m.length), High(m.length), m.control, 0, m.active, 0>>
EntryBytes(n) == <<0, 0, 0, 0, 0, n, 0, 0>>
PdoBytes(p)   == <<Low(p.index), High(p.index), Len(p.entries), p.sm, 0, 0, 0, 0>> \o Join(EntryBytes, p.entries)
TextBytes(t)  == <<Len(t)>> \o t
Body(x) ==
  CASE x.cat = String -> Even(<<Len(x.value)>> \o Join(TextBytes, x.value))
    [] x.cat = Sm -> Join(SmBytes, x.value)
    [] x.cat \in {Pdo, Pdo + 1} -> Join(PdoBytes, x.value)
    [] OTHER -> x.value
Section(x)  == <<Low(x.cat), High(x.cat), Low(Len(Body(x)) \div 2), High(Len(Body(x)) \div 2)>> \o Body(x)
Encoded(xs) == [a \in 1 .. 2 * SiiStart |-> 0] \o Join(Section, xs) \o <<255, 255>>

(* The byte at an address: addresses count from 0.                         *)
ByteAt(image, a) == IF a < MaxEepBuf /\ a + 1 \in DOMAIN image THEN image[a + 1] ELSE 255
WordAt(image, a) == ByteAt(image, a) + 256 * ByteAt(image, a + 1)

(* ecx_siifind: from section to section until the category or the end; the *)
(* result points behind the category.                                      *)
SiiFind(image, cat) ==
  LET at[a \in 0 .. MaxEepBuf + 4] ==
        IF WordAt(image, a) = cat THEN a + 2
        ELSE IF WordAt(image, a) = 65535 THEN 0
        ELSE at[a + 4 + 2 * WordAt(image, a + 2)]
  IN  at[2 * SiiStart]

(* The addresses it reads.                                                 *)
FindReads(image, cat) ==
  LET reads[a \in 0 .. MaxEepBuf + 4] ==
        {a, a + 1} \cup IF WordAt(image, a) \in {cat, 65535} THEN {}
                        ELSE {a + 2, a + 3} \cup reads[a + 4 + 2 * WordAt(image, a + 2)]
  IN  reads[2 * SiiStart]

(* ecx_siistring: strings are a length and that many characters.           *)
SiiString(image, n) ==
  LET pos   == SiiFind(image, String)
      begin[i \in 1 .. n] == IF i = 1 THEN pos + 3 ELSE begin[i - 1] + 1 + ByteAt(image, begin[i - 1])
      l     == ByteAt(image, begin[n])
  IN  IF pos = 0 \/ n > ByteAt(image, pos + 2) THEN << >>
      ELSE [j \in 1 .. (IF l < MaxName THEN l ELSE MaxName) |-> ByteAt(image, begin[n] + j)]

(* Mutant: two FMMUs at most.                                              *)
SiiFMMU_two(image) ==
  LET pos == SiiFind(image, Fmmu)
  IN  IF pos = 0 THEN << >> ELSE [k \in 1 .. 2 |-> ByteAt(image, pos + 1 + k)]

(* ecx_siiFMMU: the functions of up to four FMMUs.                         *)
SiiFMMU(image) ==
  LET pos == SiiFind(image, Fmmu)
      n   == 2 * WordAt(image, pos)
  IN  IF pos = 0 THEN << >>
      ELSE [k \in 1 .. (IF n > 2 THEN 4 ELSE 2) |-> ByteAt(image, pos + 1 + k)]

(* ecx_siiSM and ecx_siiSMnext: eight bytes for each sync manager.         *)
SiiSM(image) ==
  LET pos == SiiFind(image, Sm)
      n   == WordAt(image, pos) \div 4
      at(k) == pos + 2 + 8 * (k - 1)
  IN  IF pos = 0 THEN << >>
      ELSE [k \in 1 .. n |-> [start |-> WordAt(image, at(k)), length |-> WordAt(image, at(k) + 2),
                              control |-> ByteAt(image, at(k) + 4), active |-> ByteAt(image, at(k) + 6)]]

(* ecx_siiPDO: c counts the words of the section that are dealt with.      *)
SiiPDO(image, t) ==
  LET pos    == SiiFind(image, Pdo + t)
      length == WordAt(image, pos)
      Bits(a, e) == FoldFunction(+, 0, [k \in 1 .. e |-> ByteAt(image, a + 8 * k + 5)])
      from[a, c, n \in Nat] ==
        LET e    == ByteAt(image, a + 2)
            sm   == ByteAt(image, a + 3)
            one  == [index |-> WordAt(image, a), sm |-> sm, bits |-> IF sm < MaxSm THEN Bits(a, e) ELSE 0]
            next == IF n >= MaxPdo - 1 THEN length ELSE c + 4 + 4 * e
        IN  <<one>> \o IF next < length THEN from[a + 8 + 8 * e, next, n + 1] ELSE << >>
  IN  IF pos = 0 THEN << >> ELSE from[pos + 2, 1, 1]

Category(c) ==
  CASE c.op = "string" -> String [] c.op = "FMMU" -> Fmmu [] c.op = "SM" -> Sm
    [] c.op = "PDO" -> Pdo + c.arg [] OTHER -> c.arg

(* What a look-up makes of the bytes.                                      *)
Decoded(image, c) ==
  CASE c.op = "string" -> SiiString(image, c.arg) [] c.op = "FMMU" -> SiiFMMU(image)
    [] c.op = "SM" -> SiiSM(image) [] c.op = "PDO" -> SiiPDO(image, c.arg)
    [] OTHER -> SiiFind(image, c.arg)

(* The bytes of its section, all of them.                                  *)
SectionReads(image, c) ==
  LET pos == SiiFind(image, Category(c)) IN
  IF pos = 0 \/ c.op = "find" THEN {} ELSE pos .. pos + 1 + 2 * WordAt(image, pos)

(* What it should be, from the contents.                                   *)
PdoSize(p) == [index |-> p.index, sm |-> p.sm, bits |-> IF p.sm < MaxSm THEN FoldSeq(+, 0, p.entries) ELSE 0]
Expected(c) ==
  LET xs == SelectSeq(Contents[c.s], LAMBDA x : x.cat = Category(c))
      v  == xs[1].value
  IN  IF xs = << >> THEN << >>
      ELSE CASE c.op = "string" -> IF c.arg > Len(v) THEN << >> ELSE SubSeq(v[c.arg], 1, IF Len(v[c.arg]) < MaxName THEN Len(v[c.arg]) ELSE MaxName)
             [] c.op = "PDO" -> [k \in 1 .. (IF Len(v) < MaxPdo THEN Len(v) ELSE MaxPdo - 1) |-> PdoSize(v[k])]
             [] OTHER -> v
-----------------------------------------------------------------------------
NoCall    == [op |-> "none", s |-> 1, arg |-> 0]
LookupOps == {"find", "string", "FMMU", "SM", "PDO"}
ReadAP    == {"readAP"}    \* ecx_readeepromAP: by position, step for step as by address,
WriteAP   == {"writeAP"}   \* ecx_writeeepromAP: but nobody is asked for the control
Writes    == {"write"} \cup WriteAP

Init ==
  /\ esislave = 0 /\ esimap = {} /\ esibuf = << >>
  /\ \E b \in BOOLEAN : pdi = [s \in Slaves |-> b]   \* as before and after ecx_config_init
  /\ owner = [s \in Slaves |-> IF pdi[s] THEN "pdi" ELSE "master"]
  /\ pc = "idle" /\ call = NoCall /\ eectl = FALSE /\ walk = << >> /\ word = 0
  /\ tries = 0 /\ nackcnt = 0 /\ edat = << >> /\ ids = [s \in Slaves |-> << >>] /\ answer = << >>
  /\ eeprom = [s \in Slaves |-> Encoded(Contents[s])]
  /\ reg = [s \in Slaves |-> [busy |-> FALSE, nack |-> FALSE, op |-> "none", word |-> 0, value |-> <<0, 0>>,
                         out |-> [k \in 1 .. 8 |-> 0]]]
  /\ faults = 0 /\ lookups = 0 /\ trouble = FALSE /\ stale = {}

slave   == call.s
Of(s)   == [op |-> call.op, s |-> s, arg |-> call.arg]
Width   == IF slave \in Wide THEN 8 ELSE 4
Zero    == [k \in 1 .. Width |-> 0]
Go(to)  == pc' = to /\ tries' = 0
Fault   == faults < MaxFaults /\ faults' = faults + 1
Take(s) == IF pdi[s] THEN "force" ELSE "wait"   \* ecx_eeprom2master, first of all

(* A look-up, or ecx_readeeprom, ecx_writeeeprom, or ecx_readeeprom1 and 2 *)
(* for all slaves (ident), as ecx_config_init uses them; or by position, as*)
(* by tools that have taken the EEPROM from the PDI themselves.            *)
Begin ==
  /\ pc = "idle" /\ lookups < MaxLookups
  /\ lookups' = lookups + 1
  /\ \E c \in Lookups :
       /\ c.op \in ReadAP \cup WriteAP => owner[c.s] = "master"
       /\ call' = c
       /\ eectl' = pdi[c.s]
       /\ walk' = IF c.op \in LookupOps THEN <<FindReads(eeprom[c.s], Category(c)), SectionReads(eeprom[c.s], c)>> ELSE << >>
       /\ word' = IF c.op \in LookupOps THEN 0 ELSE IF c.op \in Writes THEN c.arg.word ELSE IF c.op = "dump" THEN SiiStart ELSE c.arg
       /\ Go(IF c.op \in LookupOps THEN "bytes" ELSE IF c.op \in ReadAP \cup WriteAP THEN "wait" ELSE Take(c.s))
  /\ nackcnt' = 0 /\ answer' = << >>
  /\ UNCHANGED <<cache, pdi, edat, ids, chip, faults, trouble, stale>>

Cached(a) == esislave = slave /\ a \in esimap
Missing   == {a \in 0 .. MaxEepBuf - 1 : a \in Head(walk) /\ ~Cached(a)}
First(a)  == \A b \in Missing : a <= b

(* Mutant: esimap is kept when another slave is read.                      *)
GetByte_kept ==
  /\ pc = "bytes" /\ walk # << >>
  /\ \E a \in Missing : First(a) /\ word' = a \div 2
  /\ esislave' = slave
  /\ nackcnt' = 0 /\ Go(Take(slave))
  /\ UNCHANGED <<esimap, stale, esibuf, pdi, call, eectl, walk, edat, ids, answer, chip, faults, lookups, trouble>>

(* ecx_siigetbyte for the bytes of a pass; the cache belongs to one slave. *)
GetByte ==
  /\ pc = "bytes" /\ walk # << >>
  /\ \E a \in Missing : First(a) /\ word' = a \div 2
  /\ esislave' = slave
  /\ esimap' = IF esislave = slave THEN esimap ELSE {}
  /\ stale' = IF esislave = slave THEN stale ELSE {}
  /\ nackcnt' = 0 /\ Go(Take(slave))
  /\ UNCHANGED <<esibuf, pdi, call, eectl, walk, edat, ids, answer, chip, faults, lookups, trouble>>

(* Mutant: the master keeps the control.                                   *)
PassDone_kept ==
  /\ pc = "bytes" /\ walk # << >> /\ Missing = {}
  /\ walk' = Tail(walk)
  /\ Go("bytes")
  /\ UNCHANGED <<cache, pdi, call, eectl, word, nackcnt, edat, ids, answer, chip, faults, lookups, trouble, stale>>

(* The end of a pass: ecx_eeprom2pdi if the PDI had control when it began. *)
PassDone ==
  /\ pc = "bytes" /\ walk # << >> /\ Missing = {}
  /\ walk' = Tail(walk)
  /\ Go(IF eectl /\ ~pdi[slave] THEN "restore" ELSE "bytes")
  /\ UNCHANGED <<cache, pdi, call, eectl, word, nackcnt, edat, ids, answer, chip, faults, lookups, trouble, stale>>

View == [i \in 1 .. MaxEepBuf |-> IF Cached(i - 1) THEN esibuf[i - 1] ELSE 255]

(* A look-up that was led astray by wrong bytes is not followed further.   *)
Return ==
  /\ pc = "bytes" /\ walk = << >>
  /\ answer' = IF call.op = "dump" THEN answer ELSE IF trouble THEN << >> ELSE Decoded(View, call)
  /\ Go("idle")
  /\ UNCHANGED <<cache, pdi, call, eectl, walk, word, nackcnt, edat, ids, chip, faults, lookups, trouble, stale>>
-----------------------------------------------------------------------------
(* A datagram that is sent up to EC_DEFAULTRETRIES times more.  When none  *)
(* is answered the code goes on all the same.                              *)
Try(to, Done, Undone) ==
  \/ Done /\ Go(to) /\ UNCHANGED <<faults, trouble>>
  \/ /\ Fault
     /\ Done \/ Undone
     /\ \/ tries < Retries /\ tries' = tries + 1 /\ UNCHANGED <<pc, trouble>>
        \/ tries >= Retries /\ Go(to) /\ trouble' = TRUE

Owned(by) == Try(CASE pc = "force" -> "set" [] pc = "set" -> "wait" [] pc = "restore" -> "bytes",
                 owner' = [owner EXCEPT ![slave] = by], UNCHANGED owner)

(* ecx_eeprom2master, and ecx_eeprom2pdi.                                  *)
Hand ==
  /\ \/ pc = "force" /\ Owned("none") /\ UNCHANGED pdi
     \/ pc = "set" /\ Owned("master") /\ pdi' = IF pc' = "set" THEN pdi ELSE [pdi EXCEPT ![slave] = FALSE]
     \/ pc = "restore" /\ Owned("pdi") /\ pdi' = IF pc' = "restore" THEN pdi ELSE [pdi EXCEPT ![slave] = TRUE]
  /\ UNCHANGED <<cache, job, eeprom, reg, lookups, stale>>

End(value) == answer' = value /\ Go("idle")
Abandon ==
  IF call.op \in Writes THEN End(0) /\ UNCHANGED <<edat, trouble>>
  ELSE edat' = Zero /\ Go("store") /\ trouble' = TRUE /\ UNCHANGED answer

(* ecx_eeprom_waitnotbusyFP before the command.  At the deadline it reports*)
(* a busy EEPROM, but one that was never heard of as ready.                *)
Wait ==
  /\ pc = "wait"
  /\ \/ /\ ~reg[slave].busy
        /\ Go(IF reg[slave].nack THEN "clear" ELSE IF call.op \in Writes THEN "value" ELSE "command")
        /\ UNCHANGED <<edat, answer, faults, trouble>>
     \/ /\ Fault
        /\ \/ UNCHANGED <<pc, tries, trouble>>
           \/ Go(IF call.op \in Writes THEN "value" ELSE "command") /\ trouble' = TRUE
        /\ UNCHANGED <<edat, answer>>
     \/ /\ reg[slave].busy /\ Fault
        /\ IF call.op = "ident" THEN Go("next") /\ trouble' = TRUE /\ UNCHANGED <<edat, answer>> ELSE Abandon
  /\ UNCHANGED <<cache, pdi, call, eectl, walk, word, nackcnt, ids, chip, lookups, stale>>

(* Error bits are cleared, once.                                           *)
Clear ==
  /\ pc = "clear"
  /\ Go(IF call.op \in Writes THEN "value" ELSE "command")
  /\ \/ reg' = [reg EXCEPT ![slave].nack = FALSE] /\ UNCHANGED faults
     \/ Fault /\ UNCHANGED reg
  /\ UNCHANGED <<cache, pdi, job, eeprom, owner, lookups, trouble, stale>>

(* The word to write, and the command; the EEPROM takes it from its owner. *)
Value ==
  /\ pc = "value"
  /\ Try("command", reg' = [reg EXCEPT ![slave].value = call.arg.value], UNCHANGED reg)
  /\ UNCHANGED <<cache, pdi, job, eeprom, owner, lookups, stale>>

Started ==
  reg' = IF owner[slave] # "master" \/ reg[slave].busy THEN reg
         ELSE [reg EXCEPT ![slave] = [@ EXCEPT !.busy = TRUE, !.nack = FALSE, !.word = word,
                                              !.op = IF call.op \in Writes THEN "write" ELSE "read"]]

Command ==
  /\ pc = "command"
  /\ Try(IF call.op = "ident" THEN "next" ELSE "wait again", Started, UNCHANGED reg)
  /\ UNCHANGED <<cache, pdi, job, eeprom, owner, lookups, stale>>

(* After the command: what was not acknowledged is tried three times.      *)
WaitAgain ==
  /\ pc = "wait again"
  /\ \/ /\ ~reg[slave].busy /\ ~reg[slave].nack
        /\ nackcnt' = 0
        /\ IF call.op \in Writes THEN End(1) ELSE Go("data") /\ UNCHANGED answer
        /\ UNCHANGED <<edat, faults, trouble>>
     \/ /\ ~reg[slave].busy /\ reg[slave].nack
        /\ nackcnt' = nackcnt + 1
        /\ IF nackcnt' < 3
           THEN Go(IF call.op \in Writes THEN "value" ELSE "command") /\ UNCHANGED <<edat, answer, trouble>>
           ELSE Abandon
        /\ UNCHANGED faults
     \/ /\ Fault
        /\ UNCHANGED <<pc, tries, nackcnt, edat, answer, trouble>>
     \/ /\ reg[slave].busy
        /\ IF nackcnt > 0
           THEN Go(IF call.op \in Writes THEN "value" ELSE "command") /\ UNCHANGED <<edat, answer, trouble>>
           ELSE Abandon
        /\ Fault /\ UNCHANGED nackcnt
  /\ UNCHANGED <<cache, pdi, call, eectl, walk, word, ids, chip, lookups, stale>>

Data ==
  /\ pc = "data"
  /\ Try("store", edat' = [k \in 1 .. Width |-> reg[slave].out[k]], edat' = Zero)
  /\ UNCHANGED <<cache, pdi, call, eectl, walk, word, nackcnt, ids, answer, chip, lookups, stale>>

Bytes == {2 * word + k : k \in 0 .. Width - 1}

(* Into the cache, whatever was read, or to the caller.                    *)
Store ==
  /\ pc = "store"
  /\ \/ /\ call.op \in LookupOps
        /\ esimap' = esimap \cup Bytes /\ stale' = stale \ Bytes
        /\ esibuf' = [a \in DOMAIN esibuf \cup Bytes |-> IF a \in Bytes THEN edat[a - 2 * word + 1] ELSE esibuf[a]]
        /\ Go("bytes") /\ UNCHANGED <<esislave, word, nackcnt, call, ids, answer>>
     \/ call.op \in {"read"} \cup ReadAP /\ End(edat) /\ UNCHANGED <<cache, word, nackcnt, call, ids, stale>>
     \/ /\ call.op = "dump"   \* ecx_esidump: up to four bytes of 0xff, or its end
        /\ answer' = answer \o edat
        /\ word' = word + Width \div 2 /\ nackcnt' = 0
        /\ Go(IF word' <= MaxEepBuf \div 2 /\ SubSeq(edat, 1, 4) # [k \in 1 .. 4 |-> 255] THEN "wait"
              ELSE IF eectl THEN "restore" ELSE "bytes")
        /\ UNCHANGED <<cache, call, ids, stale>>
     \/ /\ call.op = "ident"
        /\ ids' = [ids EXCEPT ![slave] = edat]
        /\ IF slave = Cardinality(Slaves) THEN Go("idle") /\ UNCHANGED call
           ELSE Go("collect") /\ call' = Of(slave + 1)
        /\ UNCHANGED <<cache, word, nackcnt, answer, stale>>
  /\ UNCHANGED <<pdi, eectl, walk, edat, chip, faults, lookups, trouble>>

(* ecx_readeeprom1 for one slave after the other, then ecx_readeeprom2,    *)
(* which does not look whether the EEPROM has acknowledged.                *)
NextIdent ==
  /\ pc = "next"
  /\ LET s == IF slave = Cardinality(Slaves) THEN 1 ELSE slave + 1 IN
     call' = Of(s) /\ Go(IF s = 1 THEN "collect" ELSE Take(s))
  /\ UNCHANGED <<cache, pdi, eectl, walk, word, nackcnt, edat, ids, answer, chip, faults, lookups, trouble, stale>>

Collect ==
  /\ pc = "collect"
  /\ \/ /\ ~reg[slave].busy /\ Go("data")
        /\ trouble' = (trouble \/ reg[slave].nack)
        /\ UNCHANGED <<edat, faults>>
     \/ Fault /\ UNCHANGED <<pc, tries, edat, trouble>>
     \/ reg[slave].busy /\ Fault /\ edat' = Zero /\ Go("store") /\ trouble' = TRUE
  /\ UNCHANGED <<cache, pdi, call, eectl, walk, word, nackcnt, ids, answer, chip, lookups, stale>>
-----------------------------------------------------------------------------
Written(s, w, v) == [eeprom[s] EXCEPT ![2 * w + 1] = v[1], ![2 * w + 2] = v[2]]

(* The EEPROM, which is external, carries a command out, or refuses it.    *)
Chip(s) ==
  /\ reg[s].busy
  /\ \/ /\ Fault
        /\ reg' = [reg EXCEPT ![s].busy = FALSE, ![s].nack = TRUE]
        /\ UNCHANGED <<eeprom, stale>>
     \/ /\ reg[s].op = "read"
        /\ reg' = [reg EXCEPT ![s].busy = FALSE,
                     ![s].out = [k \in 1 .. (IF s \in Wide THEN 8 ELSE 4) |-> ByteAt(eeprom[s], 2 * reg[s].word + k - 1)]]
        /\ UNCHANGED <<faults, eeprom, stale>>
     \/ /\ reg[s].op = "write"
        /\ reg' = [reg EXCEPT ![s].busy = FALSE]
        /\ eeprom' = [eeprom EXCEPT ![s] = Written(s, reg[s].word, reg[s].value)]
        /\ stale' = IF esislave = s THEN stale \cup (esimap \cap {2 * reg[s].word, 2 * reg[s].word + 1}) ELSE stale
        /\ UNCHANGED faults
  /\ UNCHANGED <<cache, pdi, pc, job, tries, owner, lookups, trouble>>

Next ==
  \/ Begin \/ GetByte \/ PassDone \/ Return \/ Hand \/ Wait \/ Clear \/ Value \/ Command \/ WaitAgain
  \/ Data \/ Store \/ NextIdent \/ Collect
  \/ \E s \in Slaves : Chip(s)

Spec == Init /\ [][Next]_vars
-----------------------------------------------------------------------------
(* The cache holds what is in the EEPROM of its slave, other than the      *)
(* words the master has written past it: neither retries nor refusals nor  *)
(* the change from slave to slave leave a wrong byte, as long as one of    *)
(* the retries is answered.                                                *)
CacheHonest ==
  ~trouble => \A a \in esimap \ stale : esibuf[a] = ByteAt(eeprom[esislave], a)

Returns == pc # "idle" /\ pc' = "idle"

(* A look-up finds what the EEPROM was filled with; ecx_readeeprom,        *)
(* ecx_readeeprom2 and ecx_writeeeprom tell the truth.                     *)
SiiRight ==
  [][Returns /\ ~trouble' /\ stale = {} =>
       CASE call.op \in LookupOps \ {"find"} -> answer' = Expected(call)
         [] call.op = "find" -> (answer' = 0) = (\A k \in 1 .. Len(Contents[slave]) : Contents[slave][k].cat # call.arg)
         [] call.op \in {"read"} \cup ReadAP -> \A k \in 1 .. 4 : answer'[k] = ByteAt(eeprom[slave], 2 * word + k - 1)
         [] call.op = "dump" -> \A k \in 1 .. Len(eeprom[slave]) - 2 * SiiStart : answer'[k] = eeprom[slave][2 * SiiStart + k]
         [] call.op \in Writes -> answer' = 1 => \A k \in 1 .. 2 : ByteAt(eeprom[slave], 2 * word + k - 1) = call.arg.value[k]
         [] call.op = "ident" -> \A s \in Slaves, k \in 1 .. 4 : ids'[s][k] = ByteAt(eeprom[s], 2 * word + k - 1)]_vars

(* A look-up leaves the control over the EEPROM to whom it belonged, also  *)
(* when one look-up is part of another; and the master knows who has it.   *)
ControlReturned ==
  [][Returns /\ ~trouble' => /\ call.op \in LookupOps \cup {"dump"} => pdi'[slave] = eectl
                             /\ \A s \in Slaves : pdi'[s] = (owner[s] = "pdi")]_vars
=============================================================================
