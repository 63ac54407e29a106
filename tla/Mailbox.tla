------------------------------ MODULE Mailbox ------------------------------
(***************************************************************************)
(* The mailbox of one slave: ecx_mbxempty, ecx_mbxsend and ecx_mbxreceive  *)
(* over a line that loses datagrams, against the two sync managers of the  *)
(* slave and its repeat service, and the error list that the mailbox       *)
(* services report to.  CoE and BulkServices put their protocols on top.   *)
(* One program calls their services one after the other.                   *)
(***************************************************************************)
EXTENDS Integers, Sequences, FiniteSets

CONSTANTS
  MaxElist,    (* EC_MAXELIST                                               *)
  MaxMbxCnt,   (* the largest mailbox counter, 7                            *)
  MaxLost,     (* bound: datagrams the line loses                           *)
  Clients      (* programs, each with the slave it calls: calls, the calls  *)
               (* it may make, each [op, ...]; max, a bound on their number;*)
               (* late, a bound on the time-outs that pass before the slave *)
               (* is done; emergencies, a bound on the emergency messages;  *)
               (* overtakes, TRUE if the slave repeats a message in front   *)
               (* of one not yet read                                       *)

ASSUME MailboxAssumption ==
  /\ MaxElist \in Nat \ {0} /\ MaxMbxCnt \in Nat \ {0}
  /\ MaxLost \in Nat
  /\ \A c \in Clients : {c.max, c.late, c.emergencies} \subseteq Nat /\ c.overtakes \in BOOLEAN

VARIABLES
  client,   (* the program                                                  *)
  pc,       (* where its call is                                            *)
  call,     (* the call                                                     *)
  calls,    (* how many there were                                          *)
  p,        (* the buffer: bytes read, or bytes still to write              *)
  result,   (* what the last call returned, and its data                    *)
  at,       (* where the master is in sending or receiving                  *)
  quick,    (* it receives with timeout 0                                   *)
  want,     (* it still has to send and then to receive                     *)
  mbxOut,   (* MbxOut                                                       *)
  mbxIn,    (* MbxIn                                                        *)
  wkc,      (* what ecx_mbxsend or ecx_mbxreceive returns                   *)
  cnt,      (* slavelist[slave].mbx_cnt                                     *)
  elist,    (* elist: head, tail and Error[]                                *)
  newest,   (* history: the errors the list should hold, oldest first       *)
  sm0, sm1, (* the messages in the two sync managers of the slave           *)
  outq,     (* messages the slave has ready for SM1                         *)
  lastout,  (* the message last taken out of SM1                            *)
  again,    (* the master has asked for it again                            *)
  seen,     (* the counter of the last request the slave took               *)
  lost, late, emergencies

program == <<client, pc, call, calls, p, result>>
master == <<at, quick, want, mbxOut, mbxIn, wkc>>
errors == <<elist, newest>>
slave  == <<sm0, sm1, outq, lastout, again>>
faults == <<lost, late, emergencies>>
box    == <<master, cnt, errors, slave, seen, faults>>

(* A message is a record with a field type; further fields depend on it.   *)
None      == [type |-> "none"]
Emergency == [type |-> "emergency"]
MbxError  == [type |-> "error"]

(* The bytes the k-th call writes; those of the slave to begin with: k = 0.*)
Bytes(k, n) == [b \in 1 .. n |-> <<k, b>>]
First(d, n) == SubSeq(d, 1, IF Len(d) < n THEN Len(d) ELSE n)
Rest(d, n)  == SubSeq(d, n + 1, Len(d))

NoCall      == [op |-> "none"]

BoxInit ==
  /\ client \in Clients
  /\ pc = "idle" /\ call = NoCall /\ calls = 0 /\ p = << >>
  /\ result = [op |-> "none", status |-> "none", data |-> << >>]
  /\ at = "idle" /\ quick = FALSE /\ want = FALSE
  /\ mbxOut = None /\ mbxIn = None /\ wkc = 0 /\ cnt = 0
  /\ elist = [head |-> 0, tail |-> 0, Error |-> [k \in 0 .. MaxElist |-> "none"]]
  /\ newest = << >>
  /\ sm0 = None /\ sm1 = None /\ outq = << >> /\ lastout = None
  /\ again = FALSE /\ seen = 0 /\ lost = 0 /\ late = 0 /\ emergencies = 0
-----------------------------------------------------------------------------
(* ec_nextmbxcnt: the counter never comes back to 0.                       *)
NextMbxCnt(c) == IF c + 1 > MaxMbxCnt THEN 1 ELSE c + 1

Wrapped(k) == IF k > MaxElist THEN 0 ELSE k

(* Mutant: a full ring keeps its oldest error.                             *)
PushError_full(l, e) ==
  [head |-> Wrapped(l.head + 1), tail |-> l.tail, Error |-> [l.Error EXCEPT ![l.head] = e]]

(* ecx_pusherror: when the ring is full the oldest error goes.             *)
PushError(l, e) ==
  LET head == Wrapped(l.head + 1)
      tail == IF head = l.tail THEN Wrapped(l.tail + 1) ELSE l.tail
  IN  [head |-> head, tail |-> tail, Error |-> [l.Error EXCEPT ![l.head] = e]]

Report(e) ==
  /\ elist' = PushError(elist, e)
  /\ newest' = IF Len(newest) = MaxElist THEN Append(Tail(newest), e) ELSE Append(newest, e)

(* ecx_poperror, by whoever watches the list.                              *)
PopError ==
  /\ elist.head # elist.tail                                 \* ecx_iserror
  /\ elist' = [elist EXCEPT !.tail = Wrapped(@ + 1)]
  /\ newest' = Tail(newest)
  /\ UNCHANGED <<master, cnt, slave, seen, faults>>
-----------------------------------------------------------------------------
(* Nothing is under way that could still change SM0 or SM1.                *)
Quiet == sm0 = None /\ sm1 = None /\ outq = << >> /\ ~again

(* A time-out passes when there is nothing to wait for; others are late.   *)
Expire(due) == IF due THEN UNCHANGED late ELSE late < client.late /\ late' = late + 1

Lose == lost < MaxLost /\ lost' = lost + 1
End(w) == at' = "end" /\ wkc' = w

(* A service sends m, which gets a new counter, and receives if w.         *)
Send(m, w) ==
  /\ cnt' = NextMbxCnt(cnt)
  /\ mbxOut' = [m EXCEPT !.cnt = NextMbxCnt(cnt)]
  /\ at' = "empty" /\ want' = w /\ quick' = FALSE
  /\ UNCHANGED <<mbxIn, wkc>>

Receive(q) ==
  /\ at' = "poll" /\ quick' = q /\ want' = FALSE
  /\ mbxIn' = None
  /\ UNCHANGED <<cnt, mbxOut, wkc>>

(* ecx_mbxempty.                                                           *)
MbxEmpty ==
  /\ at = "empty"
  /\ \/ sm0 = None /\ at' = "write" /\ UNCHANGED <<wkc, late>>
     \/ sm0 # None /\ Expire(FALSE) /\ End(0)
  /\ UNCHANGED <<quick, want, mbxOut, mbxIn, cnt, errors, slave, seen, lost, emergencies>>

(* The datagram of ecx_mbxsend: SM0 takes it when it is empty.  When it or *)
(* its answer is lost, ecx_srconfirm sends it again until its own short    *)
(* deadline.                                                               *)
MbxSend ==
  /\ at = "write"
  /\ \/ /\ sm0' = IF sm0 = None THEN mbxOut ELSE sm0
        /\ UNCHANGED lost
        /\ IF sm0 = None /\ want
           THEN at' = "poll" /\ mbxIn' = None /\ want' = FALSE /\ UNCHANGED wkc
           ELSE End(IF sm0 = None THEN 1 ELSE 0) /\ UNCHANGED <<mbxIn, want>>
     \/ /\ Lose
        /\ sm0' \in {sm0, IF sm0 = None THEN mbxOut ELSE sm0}
        /\ UNCHANGED <<mbxIn, want>>
        /\ (at' = "write" /\ UNCHANGED wkc) \/ End(-1)
  /\ UNCHANGED <<quick, mbxOut, cnt, errors, sm1, outq, lastout, again, seen, late, emergencies>>

(* Mutant: without the deadline.                                           *)
MbxPoll_forever ==
  /\ at = "poll"
  /\ \/ sm1 # None /\ at' = "fetch" /\ UNCHANGED <<wkc, lost, late>>
     \/ quick /\ Lose /\ End(-1) /\ UNCHANGED late
  /\ UNCHANGED <<quick, want, mbxOut, mbxIn, cnt, errors, slave, seen, emergencies>>

(* ecx_mbxreceive waits for a message in SM1.                              *)
MbxPoll ==
  /\ at = "poll"
  /\ \/ sm1 # None /\ at' = "fetch" /\ UNCHANGED <<wkc, lost, late>>
     \/ sm1 = None /\ Expire(quick \/ Quiet) /\ End(-5) /\ UNCHANGED lost
     \/ quick /\ Lose /\ End(-1) /\ UNCHANGED late
  /\ UNCHANGED <<quick, want, mbxOut, mbxIn, cnt, errors, slave, seen, emergencies>>

(* The message is read, which empties SM1.  An error or emergency message  *)
(* is reported and the loop goes on with wkc = 0, at once with the next    *)
(* reading; a reading of an empty SM1 counts as a message that got lost.   *)
MbxFetch ==
  /\ at = "fetch"
  /\ \/ /\ sm1 # None
        /\ mbxIn' = sm1 /\ lastout' = sm1 /\ sm1' = None
        /\ IF sm1.type \in {"error", "emergency"}
           THEN /\ Report(sm1.type)
                /\ \/ Expire(quick \/ (sm0 = None /\ outq = << >>)) /\ End(0)
                   \/ ~quick /\ UNCHANGED <<at, wkc, late>>
           ELSE End(1) /\ UNCHANGED <<errors, late>>
        /\ UNCHANGED lost
     \/ /\ sm1 = None
        /\ at' = "repeat"
        /\ UNCHANGED <<mbxIn, sm1, lastout, errors, wkc, lost, late>>
     \/ /\ Lose
        /\ at' \in {"fetch", "repeat"}
        /\ \/ sm1 # None /\ lastout' = sm1 /\ sm1' = None
           \/ UNCHANGED <<sm1, lastout>>
        /\ UNCHANGED <<mbxIn, errors, wkc, late>>
  /\ UNCHANGED <<quick, want, mbxOut, cnt, sm0, outq, again, seen, emergencies>>

(* The repeat request: its bit in SM1 is toggled.                          *)
MbxRepeat ==
  /\ at = "repeat"
  /\ \/ again' = TRUE /\ at' = "ack" /\ UNCHANGED lost
     \/ UNCHANGED again /\ at' = "unheard" /\ Lose
  /\ UNCHANGED <<quick, want, mbxOut, mbxIn, wkc, cnt, errors, sm0, sm1, outq, lastout, seen, late, emergencies>>

(* Then it waits for the slave to toggle as well and for a message.        *)
MbxAck ==
  /\ \/ at = "ack" /\ ~quick /\ ~again /\ sm1 # None /\ at' = "fetch" /\ UNCHANGED <<wkc, late>>
     \/ at = "ack" /\ Expire(quick \/ Quiet) /\ End(0)
     \/ at = "unheard" /\ End(0) /\ UNCHANGED late
  /\ UNCHANGED <<quick, want, mbxOut, mbxIn, cnt, errors, slave, seen, lost, emergencies>>
-----------------------------------------------------------------------------
(* The slave is external.  It puts its messages into SM1 in order, after a *)
(* repeat request first the last one once more, and leaves out a request   *)
(* whose counter it has just seen.                                         *)
SlavePut ==
  /\ sm1 = None /\ ~again /\ outq # << >>
  /\ sm1' = Head(outq) /\ outq' = Tail(outq)
  /\ UNCHANGED <<master, cnt, errors, sm0, lastout, again, seen, faults>>

SlaveRepeat ==
  /\ again
  /\ again' = FALSE
  /\ IF sm1 # None /\ ~client.overtakes THEN UNCHANGED <<sm1, outq>>
     ELSE sm1' = lastout /\ outq' = IF sm1 = None THEN outq ELSE <<sm1>> \o outq
  /\ UNCHANGED <<master, cnt, errors, sm0, lastout, seen, faults>>

SlaveEmergency ==
  /\ emergencies < client.emergencies
  /\ emergencies' = emergencies + 1
  /\ outq' = Append(outq, IF emergencies % 2 = 0 THEN Emergency ELSE MbxError)
  /\ UNCHANGED <<master, cnt, errors, sm0, sm1, lastout, again, seen, lost, late>>

Fresh(m) == m.cnt # seen

Ignore ==
  /\ sm0 # None /\ ~Fresh(sm0)
  /\ sm0' = None
  /\ UNCHANGED <<master, cnt, errors, sm1, outq, lastout, again, seen, faults>>

(* Slave takes a fresh request and has the answers for it.                 *)
Take(answers) ==
  /\ sm0 # None /\ Fresh(sm0)
  /\ seen' = sm0.cnt
  /\ sm0' = None
  /\ outq' = outq \o answers
  /\ UNCHANGED <<master, cnt, errors, sm1, lastout, again, faults>>

(* A deadline ends the receiving.                                          *)
Deadline   == (MbxPoll \/ MbxFetch \/ MbxAck) /\ at' = "end"
MasterStep == MbxEmpty \/ MbxSend \/ MbxPoll \/ MbxFetch \/ MbxRepeat \/ MbxAck
SlaveStep  == SlavePut \/ SlaveRepeat \/ Ignore
Box        == MasterStep \/ SlaveStep \/ SlaveEmergency \/ PopError
-----------------------------------------------------------------------------
(* The error list holds the newest EC_MAXELIST errors in the order they    *)
(* were reported, whoever reports them and however often it was read: the  *)
(* ring of ecx_pusherror and ecx_poperror is a bounded queue.              *)
Stored == (elist.head + MaxElist + 1 - elist.tail) % (MaxElist + 1)
RingKeepsNewest ==
  newest = [k \in 1 .. Stored |-> elist.Error[(elist.tail + k - 1) % (MaxElist + 1)]]
=============================================================================
