---------------------------- MODULE BulkServices ----------------------------
(***************************************************************************)
(* The services that move files (FoE), IDN parameters (SoE) and Ethernet   *)
(* frames (EoE) through the mailbox of a slave in pieces, against a slave  *)
(* that holds one of each.                                                 *)
(***************************************************************************)
EXTENDS Mailbox

CONSTANTS
  MaxFile,    (* bytes in a FoE packet: mailbox size - 12                   *)
  MaxData,    (* bytes in a SoE fragment: mailbox size - 10                 *)
  Block,      (* EoE counts offsets in blocks of 32 bytes                   *)
  Stamp,      (* size of a time stamp                                       *)
  FrameNos,   (* EoE counts frames modulo 16                                *)
  FileSize, IdnSize, FrameSizes,  (* what the slave holds and sends         *)
  MaxFrames   (* bound: frames the slave sends                              *)

BulkOps == {"FOEread", "FOEwrite", "SoEread", "SoEwrite", "EOEsend", "EOErecv", "EOEreadfragment",
        "EOEsetIp", "EOEgetIp"}

(* n: the size of the data to write, or of the buffer to read into; known: *)
(* the slave has the file or the IDN.                                      *)
BulkCall == [op : BulkOps, n : Nat, known : BOOLEAN]

ASSUME BulkAssumption ==
  /\ MaxFrames \in Nat /\ FileSize \in Nat /\ IdnSize \in Nat
  /\ MaxFile \in Nat \ {0} /\ Block \in Nat \ {0} /\ FrameNos \in Nat \ {0, 1} /\ Stamp \in Nat
  /\ MaxData \in Nat /\ MaxData >= Block      \* below, EOEsend never ends
  /\ FrameSizes \subseteq Nat \ {0}
  /\ \A c \in Clients : {x \in c.calls : x.op \in BulkOps} \subseteq BulkCall

Listens(c) == \E x \in c.calls : x.op \in {"EOErecv", "EOEreadfragment"}

(* Needed for FramesWhole: frame numbers do not come round while fragments *)
(* of an earlier frame may be about; answers to EOEsetIp and EOEgetIp do   *)
(* not meet EOErecv, which takes any EoE message for a fragment; and       *)
(* EOEreadfragment has room for every frame, which it does not check.      *)
ASSUME FramesAssumption ==
  /\ MaxFrames <= FrameNos
  /\ \A c \in Clients :
       /\ c.max < FrameNos
       /\ Listens(c) => \A x \in c.calls : x.op \notin {"EOEsetIp", "EOEgetIp"}
       /\ \A x \in c.calls : x.op = "EOEreadfragment" => \A n \in FrameSizes : n + Stamp <= x.n

VARIABLES
  number,    (* prevpacket, sendpacket or txfragmentno                      *)
  size,      (* size of the segment last sent (segmentdata)                 *)
  finalzero, (* dofinalzero                                                 *)
  rx,        (* the frame EOErecv puts together                             *)
  rxf,       (* the one of EOEreadfragment, kept between its calls          *)
  txframeno,
  remote,    (* the slave: its file, IDN, parameters, transfer and frames   *)
  sent       (* history: the frames either side has sent                    *)

transfer == <<number, size, finalzero, rx, rxf, txframeno>>
device   == <<remote, sent>>
bulkVars == <<transfer, device>>

Blocks(n)   == (n + Block - 1) \div Block

(* no: the packet or fragment number; more: incomplete, or not the last    *)
(* fragment; at: EoE's offset in blocks, in fragment 0 the frame's size.   *)
Msg(type, op, no, d) ==
  [type |-> type, cnt |-> 0, op |-> op, no |-> no, data |-> d, more |-> FALSE, at |-> 0, frame |-> 0, stamp |-> FALSE]

NoRx   == [no |-> 0, frame |-> 0, size |-> 0, data |-> << >>]

BulkInit ==
  /\ number = 0 /\ size = 0 /\ finalzero = FALSE /\ rx = NoRx /\ rxf = NoRx /\ txframeno = 0
  /\ remote = [file |-> Bytes(0, FileSize), idn |-> Bytes(0, IdnSize), ip |-> 0, xfer |-> "none",
               rest |-> << >>, no |-> 0, rx |-> NoRx, frames |-> << >>, frameno |-> 0]
  /\ sent = [slave |-> << >>, master |-> << >>]
-----------------------------------------------------------------------------
(* All but the frame services begin by emptying SM1.                       *)
BulkBegin ==
  /\ pc = "idle" /\ at = "idle"
  /\ calls < client.max /\ calls' = calls + 1
  /\ \E c \in {x \in client.calls : x.op \in BulkOps} :
       /\ call' = c
       /\ p' = IF c.op \in {"FOEwrite", "SoEwrite", "EOEsend"} THEN Bytes(calls', c.n) ELSE << >>
       /\ pc' = IF c.op \in {"EOEsend", "EOErecv", "EOEreadfragment"} THEN c.op ELSE "clear"
       /\ IF c.op = "EOEsend"
          THEN at' = "end" /\ wkc' = 1 /\ UNCHANGED <<quick, want, mbxOut, mbxIn>>
          ELSE at' = "poll" /\ quick' = (pc' = "clear") /\ mbxIn' = None /\ UNCHANGED <<want, mbxOut, wkc>>
       /\ txframeno' = IF c.op = "EOEsend" THEN (txframeno + 1) % FrameNos ELSE txframeno
       /\ sent' = IF c.op = "EOEsend" THEN [sent EXCEPT !.master = Append(@, p')] ELSE sent
  /\ UNCHANGED <<cnt, errors, slave, seen, faults, number, size, finalzero, rx, rxf, result, remote, client>>

Conclude(status, data) ==
  /\ pc' = "idle" /\ call' = NoCall
  /\ result' = [op |-> call.op, status |-> status, data |-> data]
  /\ p' = << >> /\ number' = 0 /\ size' = 0 /\ finalzero' = FALSE /\ rx' = NoRx
  /\ at' = "idle" /\ mbxIn' = None /\ mbxOut' = None /\ wkc' = 0 /\ want' = FALSE /\ quick' = FALSE
  /\ UNCHANGED <<client, calls, txframeno, cnt, slave, seen, faults, device>>

Quietly(A) == A /\ UNCHANGED errors

Goto(to, m, w) ==
  /\ pc' = to /\ Send(m, w)
  /\ UNCHANGED <<client, call, calls, rx, rxf, txframeno, result, slave, seen, faults, device>>

Await(to) ==
  /\ pc' = to /\ Receive(FALSE)
  /\ UNCHANGED <<client, call, calls, number, size, finalzero, txframeno, result, slave, seen, lost, emergencies, device>>

(* The first message of a service.                                         *)
BulkRequest ==
  /\ pc = "clear" /\ at = "end" /\ call.op \in BulkOps
  /\ UNCHANGED <<number, finalzero, errors>>
  /\ IF call.op = "SoEwrite"
     THEN /\ Goto("SoEwrite", [Msg("soe", "write", 0, First(p, MaxData)) EXCEPT !.more = Len(p) > MaxData], FALSE)
          /\ p' = Rest(p, MaxData) /\ size' = 1
     ELSE /\ Goto(call.op, Msg(CASE call.op \in {"FOEread", "FOEwrite"} -> "foe"
                                 [] call.op = "SoEread" -> "soe"
                                 [] OTHER -> "eoe", call.op, calls, <<call.known>>), TRUE)
          /\ UNCHANGED <<p, size>>

Ended(to) == pc = to /\ at = "end"
Failed    == wkc <= 0 /\ Conclude("failed", << >>) /\ UNCHANGED rxf
Unexpected == Conclude("failed", << >>) /\ UNCHANGED rxf
-----------------------------------------------------------------------------
(* ecx_FOEread: every packet is acknowledged, and a packet that is not full*)
(* is the last one.  It returns when that acknowledgement is sent.         *)
FOEread ==
  \/ /\ Ended("FOEread") /\ wkc > 0
     /\ LET good == mbxIn.type = "foe" /\ mbxIn.op = "data" /\ mbxIn.no = number + 1
                    /\ Len(p) + Len(mbxIn.data) <= call.n
            full == Len(mbxIn.data) = MaxFile
        IN \/ /\ good
              /\ p' = p \o mbxIn.data /\ number' = number + 1
              /\ Goto(IF full THEN "FOEread" ELSE "FOElast", Msg("foe", "ack", mbxIn.no, << >>), full)
              /\ UNCHANGED <<size, finalzero, errors>>
           \/ ~good /\ Quietly(Unexpected)
  \/ Ended("FOElast") /\ wkc > 0 /\ Quietly(Conclude("ok", p)) /\ UNCHANGED rxf
  \/ (Ended("FOEread") \/ Ended("FOElast")) /\ Quietly(Failed)

(* ecx_FOEwrite: the next packet goes when the one before is acknowledged; *)
(* a full last packet is followed by an empty one.                         *)
FOEwrite ==
  /\ Ended("FOEwrite")
  /\ \/ /\ wkc > 0 /\ mbxIn.type = "foe" /\ mbxIn.op = "ack" /\ mbxIn.no = number
        /\ LET d == First(p, MaxFile) IN
           IF d # << >> \/ finalzero
           THEN /\ p' = Rest(p, MaxFile) /\ number' = number + 1 /\ size' = Len(d)
                /\ finalzero' = (p' = << >> /\ Len(d) = MaxFile)
                /\ Quietly(Goto("FOEwrite", Msg("foe", "data", number', d), TRUE))
           ELSE Quietly(Conclude("ok", << >>)) /\ UNCHANGED rxf
     \/ /\ wkc > 0 /\ mbxIn.type = "foe" /\ mbxIn.op = "busy"   \* worktodo stays FALSE
        /\ Quietly(Conclude("ok", << >>)) /\ UNCHANGED rxf
     \/ /\ wkc > 0 /\ ~(mbxIn.type = "foe" /\ (mbxIn.op = "busy" \/ (mbxIn.op = "ack" /\ mbxIn.no = number)))
        /\ Quietly(Unexpected)
     \/ Quietly(Failed)
-----------------------------------------------------------------------------
SoeAnswer(op) == mbxIn.type = "soe" /\ mbxIn.op = op

(* ecx_SoEread: fragments come by themselves; what does not fit is dropped.*)
SoEread ==
  /\ Ended("SoEread")
  /\ \/ /\ wkc > 0 /\ SoeAnswer("readanswer")
        /\ IF mbxIn.more
           THEN p' = First(p \o mbxIn.data, call.n) /\ Quietly(Await("SoEread")) /\ UNCHANGED <<rx, rxf, late>>
           ELSE Quietly(Conclude("ok", First(p \o mbxIn.data, call.n))) /\ UNCHANGED rxf
     \/ /\ wkc > 0 /\ ~SoeAnswer("readanswer")
        /\ Report(IF SoeAnswer("error") THEN "SoE" ELSE "packet") /\ Unexpected
     \/ ~want /\ Report("packet") /\ Failed                   \* no response
     \/ want /\ Quietly(Failed)                              \* not even sent

(* Mutant: the pointer moves one byte too far.                             *)
SoeSegment_off ==
  /\ p' = Rest(p, MaxData + 1) /\ size' = size + 1
  /\ Goto("SoEwrite", [Msg("soe", "write", 0, First(p, MaxData)) EXCEPT !.more = Len(p) > MaxData], FALSE)
  /\ UNCHANGED <<number, finalzero>>

SoeSegment ==
  /\ p' = Rest(p, MaxData) /\ size' = size + 1
  /\ Goto("SoEwrite", [Msg("soe", "write", 0, First(p, MaxData)) EXCEPT !.more = Len(p) > MaxData], FALSE)
  /\ UNCHANGED <<number, finalzero>>

(* ecx_SoEwrite: the next segment goes when the slave has taken the one    *)
(* before, also when that could not be sent.  After the last one, or when  *)
(* it is not taken, an answer is expected.                                 *)
SoEwrite ==
  /\ Ended("SoEwrite") /\ UNCHANGED errors
  /\ \/ wkc > 0 /\ mbxOut.more /\ sm0 = None /\ SoeSegment
     \/ /\ wkc > 0 /\ (mbxOut.more => sm0 # None)
        /\ Expire(~mbxOut.more)
        /\ Await("SoEanswer") /\ UNCHANGED <<p, rx, rxf>>
     \/ wkc <= 0 /\ mbxOut.more /\ SoeSegment
     \/ ~mbxOut.more /\ Failed

(* Its answer.  An error answer is looked for as one to a read; without an *)
(* answer the next segment goes.                                           *)
SoEwritten ==
  /\ Ended("SoEanswer")
  /\ \/ wkc > 0 /\ SoeAnswer("writeanswer") /\ Quietly(Conclude("ok", << >>)) /\ UNCHANGED rxf
     \/ wkc > 0 /\ ~SoeAnswer("writeanswer") /\ Report("packet") /\ Unexpected
     \/ wkc <= 0 /\ Report("packet") /\ IF mbxOut.more THEN SoeSegment ELSE Unexpected
-----------------------------------------------------------------------------
(* ecx_EOEsetIp and ecx_EOEgetIp: an answer of another kind is no success. *)
EOEsetIp ==
  /\ Ended("EOEsetIp")
  /\ \/ wkc > 0 /\ mbxIn.type = "eoe" /\ mbxIn.op = pc /\ Quietly(Conclude("ok", << >>)) /\ UNCHANGED rxf
     \/ wkc > 0 /\ ~(mbxIn.type = "eoe" /\ mbxIn.op = pc) /\ Quietly(Unexpected)
     \/ Quietly(Failed)

EOEgetIp ==
  /\ Ended("EOEgetIp")
  /\ \/ wkc > 0 /\ mbxIn.type = "eoe" /\ mbxIn.op = pc /\ Quietly(Conclude("ok", mbxIn.data)) /\ UNCHANGED rxf
     \/ wkc > 0 /\ ~(mbxIn.type = "eoe" /\ mbxIn.op = pc) /\ Quietly(Unexpected)
     \/ Quietly(Failed)

(* ecx_EOEsend: all fragments but the last are whole blocks.               *)
Fragment(d, no, frame, total) ==
  LET len  == IF Len(d) > MaxData THEN (MaxData \div Block) * Block ELSE Len(d)
  IN  [Msg("eoe", "frame", no, First(d, len)) EXCEPT
         !.more = len < Len(d), !.frame = frame,
         !.at = IF no > 0 THEN (total - Len(d)) \div Block ELSE Blocks(total)]

EOEsend ==
  /\ Ended("EOEsend")
  /\ \/ /\ wkc > 0 /\ p # << >>
        /\ LET m == Fragment(p, number, txframeno, call.n) IN
           /\ Quietly(Goto("EOEsend", m, FALSE))
           /\ p' = Rest(p, Len(m.data)) /\ number' = number + 1 /\ UNCHANGED <<size, finalzero>>
     \/ wkc > 0 /\ p = << >> /\ Quietly(Conclude("ok", << >>)) /\ UNCHANGED rxf
     \/ Quietly(Failed)

Length(r, m)   == Len(r.data) + Len(m.data)
Unstamped(d, m) == IF m.stamp THEN First(d, Len(d) - Stamp) ELSE d

(* Mutant: every fragment belongs to the frame.                            *)
Foreign_none(m) == FALSE

(* ecx_EOErecv.                                                            *)
Foreign(m) ==
  \/ rx.no # m.no /\ m.no > 0
  \/ rx.no = 0 /\ m.at * Block > call.n
  \/ rx.no > 0 /\ (rx.frame # m.frame \/ Len(rx.data) # m.at * Block)

EOErecv ==
  /\ Ended("EOErecv")
  /\ \/ /\ wkc > 0 /\ mbxIn.type = "eoe" /\ ~Foreign(mbxIn)
        /\ LET next == IF Length(rx, mbxIn) <= call.n
                       THEN [rx EXCEPT !.no = @ + 1, !.frame = mbxIn.frame, !.data = @ \o mbxIn.data]
                       ELSE rx
           IN IF mbxIn.more
              THEN rx' = next /\ Quietly(Await("EOErecv")) /\ UNCHANGED <<p, rxf, late>>
              ELSE Quietly(Conclude("ok", Unstamped(next.data, mbxIn))) /\ UNCHANGED rxf
     \/ wkc > 0 /\ (mbxIn.type # "eoe" \/ Foreign(mbxIn)) /\ Quietly(Unexpected)
     \/ Quietly(Failed)

(* ecx_EOEreadfragment: one received message.  A fragment that does not    *)
(* belong to the frame ends that frame; fragment 0 begins another.         *)
EOEreadfragment ==
  /\ Ended("EOEreadfragment")
  /\ \/ /\ wkc > 0 /\ mbxIn.type = "eoe"
        /\ LET m     == mbxIn
               old   == IF rxf.no # m.no THEN NoRx ELSE rxf
               r     == IF old.no = 0 THEN [NoRx EXCEPT !.frame = m.frame, !.size = m.at * Block] ELSE old
               bad   == \/ m.no > 0 /\ rxf.no # m.no
                        \/ old.no > 0 /\ (old.frame # m.frame \/ Len(old.data) # m.at * Block)
               next  == IF Length(r, m) <= r.size /\ Length(r, m) <= call.n
                        THEN [r EXCEPT !.no = @ + 1, !.data = @ \o m.data] ELSE r
           IN \/ bad /\ rxf' = NoRx /\ Quietly(Conclude("failed", << >>))
              \/ ~bad /\ m.more /\ rxf' = next /\ Quietly(Conclude("part", << >>))
              \/ ~bad /\ ~m.more /\ rxf' = NoRx /\ Quietly(Conclude("ok", Unstamped(next.data, m)))
     \/ wkc > 0 /\ mbxIn.type # "eoe" /\ Quietly(Unexpected)
     \/ Quietly(Failed)
-----------------------------------------------------------------------------
(* The slave is external.                                                  *)
Answer(ms) == Take(ms) /\ UNCHANGED <<program, transfer, sent>>
FilePacket(rest, no) == Msg("foe", "data", no, First(rest, MaxFile))

ServeFile ==
  /\ sm0.type = "foe"
  /\ \/ /\ sm0.op = "FOEread"
        /\ IF sm0.data[1]
           THEN /\ Answer(<<FilePacket(remote.file, 1)>>)
                /\ remote' = [remote EXCEPT !.xfer = "send", !.rest = remote.file, !.no = 1]
           ELSE Answer(<<Msg("foe", "error", 0, << >>)>>) /\ UNCHANGED remote
     \/ /\ sm0.op = "ack" /\ remote.xfer = "send" /\ sm0.no = remote.no
        /\ IF Len(remote.rest) >= MaxFile
           THEN /\ Answer(<<FilePacket(Rest(remote.rest, MaxFile), remote.no + 1)>>)
                /\ remote' = [remote EXCEPT !.rest = Rest(@, MaxFile), !.no = @ + 1]
           ELSE Answer(<< >>) /\ remote' = [remote EXCEPT !.xfer = "none"]
     \/ /\ sm0.op = "FOEwrite"
        /\ Answer(<<Msg("foe", "ack", 0, << >>)>>)
        /\ remote' = [remote EXCEPT !.xfer = "take", !.rest = << >>, !.no = 0]
     \/ /\ sm0.op = "data" /\ remote.xfer = "take" /\ sm0.no = remote.no + 1
        /\ \/ /\ Answer(<<Msg("foe", "ack", sm0.no, << >>)>>)
              /\ remote' = IF Len(sm0.data) < MaxFile
                           THEN [remote EXCEPT !.file = remote.rest \o sm0.data, !.xfer = "none"]
                           ELSE [remote EXCEPT !.rest = @ \o sm0.data, !.no = @ + 1]
           \/ Answer(<<Msg("foe", "busy", 0, << >>)>>) /\ UNCHANGED remote
     \/ /\ \/ sm0.op = "ack" /\ ~(remote.xfer = "send" /\ sm0.no = remote.no)
           \/ sm0.op = "data" /\ ~(remote.xfer = "take" /\ sm0.no = remote.no + 1)
        /\ Answer(<<Msg("foe", "error", 0, << >>)>>)
        /\ remote' = [remote EXCEPT !.xfer = "none"]

IdnFragments ==
  LET n == IF remote.idn = << >> THEN 1 ELSE (Len(remote.idn) + MaxData - 1) \div MaxData IN
  [k \in 1 .. n |-> [Msg("soe", "readanswer", 0, First(Rest(remote.idn, (k - 1) * MaxData), MaxData)) EXCEPT
                       !.more = k < n]]

ServeIdn ==
  /\ sm0.type = "soe"
  /\ \/ /\ sm0.op = "SoEread" /\ UNCHANGED remote
        /\ Answer(IF sm0.data[1] THEN IdnFragments ELSE <<Msg("soe", "error", 0, << >>)>>)
     \/ /\ sm0.op = "write" /\ sm0.more
        /\ Answer(<< >>) /\ remote' = [remote EXCEPT !.xfer = "idn", !.rest = IF remote.xfer = "idn" THEN @ \o sm0.data ELSE sm0.data]
     \/ /\ sm0.op = "write" /\ ~sm0.more
        /\ Answer(<<Msg("soe", "writeanswer", 0, << >>)>>)
        /\ remote' = [remote EXCEPT !.xfer = "none",
                        !.idn = IF remote.xfer = "idn" THEN remote.rest \o sm0.data ELSE sm0.data]

ServeFrame ==
  /\ sm0.type = "eoe"
  /\ \/ /\ sm0.op = "EOEsetIp"
        /\ Answer(<<Msg("eoe", "EOEsetIp", 0, << >>)>>) /\ remote' = [remote EXCEPT !.ip = sm0.no]
     \/ /\ sm0.op = "EOEgetIp"
        /\ Answer(<<Msg("eoe", "EOEgetIp", 0, <<remote.ip>>)>>) /\ UNCHANGED remote
     \/ /\ sm0.op = "frame"
        /\ Answer(<< >>)
        /\ LET old  == IF sm0.no = 0 THEN [NoRx EXCEPT !.frame = sm0.frame] ELSE remote.rx
               good == old.no = sm0.no /\ old.frame = sm0.frame /\ (sm0.no > 0 => Len(old.data) = sm0.at * Block)
               next == [old EXCEPT !.no = @ + 1, !.data = @ \o sm0.data]
           IN remote' = IF ~good THEN [remote EXCEPT !.rx = NoRx]
                        ELSE IF sm0.more THEN [remote EXCEPT !.rx = next]
                        ELSE [remote EXCEPT !.rx = NoRx, !.frames = Append(@, next.data)]

(* A frame of the slave, all fragments at once, with or without a stamp.   *)
SlaveFrame ==
  /\ Listens(client)
  /\ Len(sent.slave) < MaxFrames
  /\ \E n \in FrameSizes, stamped \in BOOLEAN :
       LET d == Bytes(<<"slave", remote.frameno>>, n)
           all == IF stamped THEN d \o [b \in 1 .. Stamp |-> <<"stamp">>] ELSE d
           len == (MaxData \div Block) * Block
           count == IF Len(all) <= MaxData THEN 1 ELSE 1 + ((Len(all) - MaxData + len - 1) \div len)
           tail(k) == Rest(all, (k - 1) * len)
       IN /\ sent' = [sent EXCEPT !.slave = Append(@, [data |-> d, stamped |-> stamped])]
          /\ outq' = outq \o [k \in 1 .. count |->
               [Fragment(tail(k), k - 1, remote.frameno % FrameNos, Len(all)) EXCEPT !.stamp = stamped]]
          /\ remote' = [remote EXCEPT !.frameno = @ + 1]
  /\ UNCHANGED <<master, cnt, errors, sm0, sm1, lastout, again, seen, faults, program, transfer>>

BulkClient ==
  \/ BulkBegin \/ BulkRequest \/ FOEread \/ FOEwrite \/ SoEread \/ SoEwrite \/ SoEwritten
  \/ EOEsetIp \/ EOEgetIp \/ EOEsend \/ EOErecv \/ EOEreadfragment
BulkServer == ServeFile \/ ServeIdn \/ ServeFrame
-----------------------------------------------------------------------------
Returns(op) == pc # "idle" /\ pc' = "idle" /\ call.op = op /\ result'.status = "ok"

(* A file that FoE reports as transferred is complete and in order on the  *)
(* other side, whichever packets, acknowledgements or answers were lost,   *)
(* repeated or late (ecx_FOEread, ecx_FOEwrite); except that a slave which *)
(* is busy gets no file, which is taken for success.                       *)
FilesWhole ==
  /\ Returns("FOEread") => result'.data = remote.file
  /\ Returns("FOEwrite") /\ mbxIn.op # "busy" => remote.file = Bytes(calls, call.n)

(* While no datagram is lost and no answer late, an IDN is read and written*)
(* as a whole; SoEread and SoEwrite do not compare fragmentsleft.          *)
IdnWhole ==
  lost = 0 /\ late = 0 =>
    /\ Returns("SoEread") => result'.data = First(remote.idn, call.n)
    /\ Returns("SoEwrite") => remote.idn = Bytes(calls, call.n)

(* What a service reports as transferred has arrived, all of it.           *)
TransfersWhole == [][FilesWhole /\ IdnWhole]_<<program, box, bulkVars>>

(* What EOErecv and EOEreadfragment deliver is a frame the slave has sent, *)
(* and the slave gets only frames the master has sent: pieces of different *)
(* frames are never joined and no piece is missing.                        *)
FramesWhole ==
  /\ result.op \in {"EOErecv", "EOEreadfragment"} /\ result.status = "ok" =>
       \E k \in DOMAIN sent.slave : result.data = sent.slave[k].data
  /\ \A k \in DOMAIN remote.frames : \E j \in DOMAIN sent.master : remote.frames[k] = sent.master[j]
=============================================================================
