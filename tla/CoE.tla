-------------------------------- MODULE CoE --------------------------------
(***************************************************************************)
(* CANopen over EtherCAT: ecx_SDOread and ecx_SDOwrite with their expedited*)
(* and segmented transfers, the PDO and the object dictionary services, in *)
(* one slave's mailbox, against a slave that follows CiA 301.              *)
(***************************************************************************)
EXTENDS Mailbox

CONSTANTS
  InitData, (* data bytes in an initiating message: mailbox size - 16       *)
  Sizes,    (* the size of every object of the slave, in bytes              *)
  Dictionary, (* the indexes in the object dictionary of the slave          *)
  MaxODlist   (* EC_MAXODLIST                                               *)

SegData == InitData + 7     (* data bytes in a segment                      *)
Objects == DOMAIN Sizes     (* [idx, sub, ca]: ca is Complete Access        *)

(* n: the size of the data to write, or of the buffer to read into, or the *)
(* largest subindex.                                                       *)
CoeOps  == {"read", "write", "txpdo", "rxpdo", "odlist", "describe", "entries"}
CoeCall == [op : CoeOps, o : Objects, n : Nat]

ASSUME CoEAssumption ==
  /\ InitData \in Nat \ {0} /\ MaxODlist \in Nat \ {0}
  /\ \A o \in Objects : DOMAIN o = {"idx", "sub", "ca"} /\ Sizes[o] \in Nat \ {0}
  /\ Dictionary \in Seq(Seq(Nat))
  /\ \A c \in Clients : {x \in c.calls : x.op \in CoeOps} \subseteq CoeCall

VARIABLES
  toggle,   (* the toggle bit of the next segment                           *)
  store,    (* the objects of the slave                                     *)
  server,   (* its segmented transfer                                       *)
  unapplied,(* history: writes begun that have not reached the object       *)
  sound     (* history: every request so far was answered as expected       *)

session == <<program, toggle, sound>>
objects == <<store, server, unapplied>>
coeVars == <<toggle, sound, objects>>

Pad         == << >>
ListType    == <<0>>
Padded(d)   == d \o [b \in 1 .. 7 - Len(d) |-> Pad]

(* service: the upper bits of CANOpen; cmd: Command.  re: history, counter *)
(* of the request a slave answers.                                         *)
Coe(service, cmd, o, d) ==
  [type |-> "coe", cnt |-> 0, re |-> 0, service |-> service, cmd |-> cmd, o |-> o, data |-> d,
   size |-> 0, toggle |-> FALSE, last |-> FALSE, unused |-> 0]

NoServer == [kind |-> "none"]

CoeInit ==
  /\ toggle = FALSE
  /\ store = [o \in Objects |-> Bytes(0, Sizes[o])]
  /\ server = NoServer /\ unapplied = {} /\ sound = TRUE
-----------------------------------------------------------------------------
(* Every service begins by emptying SM1 of what may be in it.              *)
Begin ==
  /\ pc = "idle" /\ at = "idle"
  /\ calls < client.max /\ calls' = calls + 1
  /\ \E c \in {x \in client.calls : x.op \in CoeOps} :
       /\ call' = c
       /\ p' = IF c.op \in {"write", "rxpdo"} THEN Bytes(calls', c.n) ELSE << >>
       /\ unapplied' = IF c.op = "write" THEN unapplied \cup {[o |-> c.o, k |-> calls', n |-> c.n]} ELSE unapplied
  /\ pc' = "clear"
  /\ Receive(TRUE)
  /\ UNCHANGED <<client, toggle, result, sound, errors, slave, seen, faults, store, server>>

Finish(status, data) ==
  /\ pc' = "idle" /\ call' = NoCall
  /\ result' = [op |-> call.op, status |-> status, data |-> data]
  /\ p' = << >> /\ toggle' = FALSE
  /\ sound' = (sound /\ wkc > 0 /\ status # "failed")
  /\ at' = "idle" /\ mbxIn' = None /\ mbxOut' = None /\ wkc' = 0 /\ want' = FALSE /\ quick' = FALSE
  /\ UNCHANGED <<client, calls, cnt, slave, seen, faults, objects>>

(* A response that is not the expected one.                                *)
Refuse ==
  /\ Report(IF mbxIn.type = "coe" /\ mbxIn.cmd = "abort" THEN "SDO" ELSE "packet")
  /\ Finish("failed", << >>)

Continue(to, m) ==
  /\ pc' = to
  /\ Send(m, TRUE)
  /\ sound' = (sound /\ (pc = "clear" \/ wkc > 0))
  /\ UNCHANGED <<client, call, calls, result, errors, slave, seen, faults, objects>>

Expedited == call.n <= 4 /\ ~call.o.ca

(* ecx_readOE reads the entries of an object one after the other.          *)
NextEntry == [call.o EXCEPT !.sub = IF mbxOut = None THEN 0 ELSE mbxOut.o.sub + 1]

(* The first request of each service.                                      *)
Request ==
  /\ pc = "clear" /\ at = "end" /\ call.op \in CoeOps
  /\ UNCHANGED toggle
  /\ CASE call.op = "read" ->
            Continue("answer", Coe("sdoreq", "up", call.o, << >>)) /\ UNCHANGED p
       [] call.op = "write" /\ Expedited ->
            Continue("answer", Coe("sdoreq", "down expedited", call.o, p)) /\ p' = << >>
       [] call.op = "write" /\ ~Expedited ->
            /\ Continue("answer", [Coe("sdoreq", "down", call.o, First(p, InitData)) EXCEPT !.size = Len(p)])
            /\ p' = Rest(p, InitData)
       [] call.op = "txpdo" ->
            Continue("answer", Coe("txpdo rr", "pdo", call.o, << >>)) /\ UNCHANGED p
       [] call.op = "odlist" ->
            Continue("list", Coe("info", "list", call.o, << >>)) /\ UNCHANGED p
       [] call.op = "describe" ->
            Continue("answer", Coe("info", "describe", call.o, << >>)) /\ UNCHANGED p
       [] call.op = "entries" ->
            Continue("answer", Coe("info", "entry", NextEntry, << >>)) /\ UNCHANGED p
       [] call.op = "rxpdo" ->
            /\ pc' = "sent"
            /\ Send(Coe("rxpdo", "pdo", call.o, First(p, InitData + 8)), FALSE)
            /\ p' = << >>
            /\ UNCHANGED <<client, call, calls, result, sound, errors, slave, seen, faults, objects>>

(* ecx_RxPDO ends with the message in SM0.                                 *)
Sent ==
  /\ pc = "sent" /\ at = "end"
  /\ Finish(IF wkc > 0 THEN "ok" ELSE "failed", << >>)
  /\ UNCHANGED errors

(* No answer, whatever the service.                                        *)
NoAnswer ==
  /\ pc \in {"answer", "list"} /\ at = "end" /\ wkc <= 0 /\ call.op # "entries"
  /\ Finish("failed", << >>)
  /\ UNCHANGED errors

Answered(to) == pc = to /\ at = "end" /\ wkc > 0

SdoResponse == mbxIn.type = "coe" /\ mbxIn.service = "sdores"

(* ecx_SDOread takes an answer with the right index.  Of a write's answer  *)
(* it makes a parameter of size 0.                                         *)
ReadAnswer ==
  /\ Answered("answer") /\ call.op = "read"
  /\ \/ /\ SdoResponse /\ mbxIn.o.idx = call.o.idx
        /\ \/ /\ mbxIn.cmd = "up expedited" /\ Len(mbxIn.data) <= call.n
              /\ Finish("ok", mbxIn.data)
              /\ UNCHANGED errors
           \/ /\ mbxIn.cmd # "up expedited" /\ mbxIn.size <= call.n
              /\ IF Len(mbxIn.data) < mbxIn.size
                 THEN /\ p' = mbxIn.data /\ toggle' = TRUE
                      /\ Continue("segment", Coe("sdoreq", "segment up", call.o, << >>))
                 ELSE Finish("ok", First(mbxIn.data, mbxIn.size)) /\ UNCHANGED errors
           \/ /\ (IF mbxIn.cmd = "up expedited" THEN Len(mbxIn.data) ELSE mbxIn.size) > call.n
              /\ Report("packet")
              /\ Finish("small", << >>)
     \/ ~(SdoResponse /\ mbxIn.o.idx = call.o.idx) /\ Refuse

(* Mutant: the toggle bit stays.                                           *)
NextSegmentUp_same ==
  /\ UNCHANGED toggle
  /\ Continue("segment", Coe("sdoreq", "segment up", call.o, << >>))

(* The toggle bit of the next request flips, whether an answer came or not.*)
NextSegmentUp ==
  /\ toggle' = ~toggle
  /\ Continue("segment", [Coe("sdoreq", "segment up", call.o, << >>) EXCEPT !.toggle = toggle])

(* Mutant: the unused bytes of the last segment are kept.                  *)
ReadSegment_padded ==
  /\ pc = "segment" /\ at = "end" /\ call.op = "read"
  /\ \/ wkc <= 0 /\ NextSegmentUp /\ UNCHANGED p
     \/ /\ wkc > 0 /\ SdoResponse /\ mbxIn.cmd = "segment up"
        /\ IF mbxIn.last
           THEN Finish("ok", p \o mbxIn.data) /\ UNCHANGED errors
           ELSE p' = p \o mbxIn.data /\ NextSegmentUp
     \/ wkc > 0 /\ ~(SdoResponse /\ mbxIn.cmd = "segment up") /\ Refuse

ReadSegment ==
  /\ pc = "segment" /\ at = "end" /\ call.op = "read"
  /\ \/ wkc <= 0 /\ NextSegmentUp /\ UNCHANGED p
     \/ /\ wkc > 0 /\ SdoResponse /\ mbxIn.cmd = "segment up"
        /\ LET d == IF mbxIn.last /\ Len(mbxIn.data) = 7
                    THEN First(mbxIn.data, 7 - mbxIn.unused) ELSE mbxIn.data
           IN IF mbxIn.last
              THEN Finish("ok", p \o d) /\ UNCHANGED errors
              ELSE p' = p \o d /\ NextSegmentUp
     \/ wkc > 0 /\ ~(SdoResponse /\ mbxIn.cmd = "segment up") /\ Refuse

(* A segment of a write; the last one has at least seven bytes.            *)
NextSegmentDown(t) ==
  LET d == First(p, SegData) IN
  /\ p' = Rest(p, SegData)
  /\ toggle' = ~t
  /\ Continue("segment", [Coe("sdoreq", "segment down", call.o, Padded(d)) EXCEPT
       !.toggle = t, !.last = Len(p) <= SegData, !.unused = IF Len(d) < 7 THEN 7 - Len(d) ELSE 0])

WriteAnswer ==
  /\ Answered("answer") /\ call.op = "write"
  /\ \/ /\ SdoResponse /\ mbxIn.o.idx = call.o.idx /\ mbxIn.o.sub = call.o.sub
        /\ IF p # << >> THEN NextSegmentDown(FALSE) ELSE Finish("ok", << >>) /\ UNCHANGED errors
     \/ ~(SdoResponse /\ mbxIn.o.idx = call.o.idx /\ mbxIn.o.sub = call.o.sub) /\ Refuse

(* The segments go on when one of them was not answered.                   *)
WriteSegment ==
  /\ pc = "segment" /\ at = "end" /\ call.op = "write"
  /\ \/ /\ wkc <= 0 \/ (SdoResponse /\ mbxIn.cmd = "segment down")
        /\ IF p # << >> THEN NextSegmentDown(toggle)
           ELSE Finish(IF wkc > 0 THEN "ok" ELSE "failed", << >>) /\ UNCHANGED errors
     \/ wkc > 0 /\ ~(SdoResponse /\ mbxIn.cmd = "segment down") /\ Refuse

(* ecx_TxPDO.                                                              *)
TxPdoAnswer ==
  /\ Answered("answer") /\ call.op = "txpdo"
  /\ \/ /\ mbxIn.type = "coe" /\ mbxIn.service = "txpdo"
        /\ IF Len(mbxIn.data) > call.n
           THEN Report("packet") /\ Finish("small", << >>)
           ELSE Finish("ok", mbxIn.data) /\ UNCHANGED errors
     \/ ~(mbxIn.type = "coe" /\ mbxIn.service = "txpdo") /\ Refuse

(* ecx_readODdescription.                                                  *)
DescribeAnswer ==
  /\ Answered("answer") /\ call.op = "describe"
  /\ \/ mbxIn.type = "coe" /\ mbxIn.cmd = "describe" /\ Finish("ok", mbxIn.data) /\ UNCHANGED errors
     \/ ~(mbxIn.type = "coe" /\ mbxIn.cmd = "describe") /\ Refuse

(* ecx_readOEsingle for ecx_readOE, which goes on whatever came of it and  *)
(* returns what came of the last one.                                      *)
EntryAnswer ==
  LET good == wkc > 0 /\ mbxIn.type = "coe" /\ mbxIn.cmd = "entry"
      list == IF good THEN Append(p, mbxIn.data) ELSE p
  IN
  /\ pc = "answer" /\ at = "end" /\ call.op = "entries"
  /\ IF wkc > 0 /\ ~good THEN Report("packet") ELSE UNCHANGED errors
  /\ IF mbxOut.o.sub = call.n
     THEN Finish(IF good THEN "ok" ELSE "failed", list)
     ELSE /\ p' = list /\ pc' = "clear" /\ sound' = (sound /\ good)
          /\ Receive(TRUE)
          /\ UNCHANGED <<client, call, calls, toggle, result, slave, seen, faults, objects>>

(* ecx_readODlist: fragments come without being asked for one by one.  The *)
(* first begins with the list type; entries beyond the buffer are dropped. *)
ListAnswer ==
  LET entries == IF p = << >> THEN Tail(mbxIn.data) ELSE mbxIn.data
      over    == Len(p) + Len(entries) > MaxODlist
      list    == First(p \o entries, MaxODlist)
  IN
  /\ Answered("list")
  /\ \/ /\ mbxIn.type = "coe" /\ mbxIn.cmd = "list"
        /\ IF over THEN Report("SDO info") ELSE UNCHANGED errors
        /\ IF mbxIn.last
           THEN Finish("ok", list)
           ELSE /\ p' = list
                /\ Receive(FALSE)
                /\ UNCHANGED <<client, pc, call, calls, toggle, result, sound, slave, seen, faults, objects>>
     \/ ~(mbxIn.type = "coe" /\ mbxIn.cmd = "list") /\ Refuse
-----------------------------------------------------------------------------
(* The slave is external: the SDO server of CiA 301.                       *)
Reply(m) == Take(<<[m EXCEPT !.re = sm0.cnt]>>)
Abort    == Reply(Coe("sdoreq", "abort", sm0.o, << >>)) /\ server' = NoServer /\ UNCHANGED <<store, unapplied>>

Apply(o, d) ==
  /\ store' = [store EXCEPT ![o] = d]
  /\ unapplied' = {w \in unapplied : w.o # o \/ w.k # d[1][1]}

ServeUpload ==
  /\ sm0.type = "coe" /\ sm0.cmd = "up"
  /\ LET d == store[sm0.o] IN
     IF Len(d) <= 4 /\ ~sm0.o.ca
     THEN Reply(Coe("sdores", "up expedited", sm0.o, d)) /\ server' = NoServer
     ELSE /\ Reply([Coe("sdores", "up", sm0.o, First(d, InitData)) EXCEPT !.size = Len(d)])
          /\ server' = IF Len(d) > InitData
                       THEN [kind |-> "up", o |-> sm0.o, data |-> Rest(d, InitData), toggle |-> FALSE]
                       ELSE NoServer
  /\ UNCHANGED <<store, unapplied, session>>

ServeUploadSegment ==
  /\ sm0.type = "coe" /\ sm0.cmd = "segment up"
  /\ IF server.kind = "up" /\ server.toggle = sm0.toggle
     THEN LET d == First(server.data, SegData) IN
          /\ Reply([Coe("sdores", "segment up", sm0.o, Padded(d)) EXCEPT
               !.last = Len(server.data) <= SegData, !.unused = IF Len(d) < 7 THEN 7 - Len(d) ELSE 0])
          /\ server' = IF Len(server.data) <= SegData THEN NoServer
                       ELSE [server EXCEPT !.data = Rest(@, SegData), !.toggle = ~@]
          /\ UNCHANGED <<store, unapplied>>
     ELSE Abort
  /\ UNCHANGED session

ServeDownload ==
  /\ sm0.type = "coe" /\ sm0.cmd \in {"down", "down expedited"}
  /\ Reply(Coe("sdores", "down", sm0.o, << >>))
  /\ IF sm0.cmd = "down" /\ Len(sm0.data) < sm0.size
     THEN /\ server' = [kind |-> "down", o |-> sm0.o, data |-> sm0.data, size |-> sm0.size, toggle |-> FALSE]
          /\ UNCHANGED <<store, unapplied>>
     ELSE server' = NoServer /\ Apply(sm0.o, sm0.data)
  /\ UNCHANGED session

ServeDownloadSegment ==
  /\ sm0.type = "coe" /\ sm0.cmd = "segment down"
  /\ LET d == IF server.kind # "down" THEN << >>
              ELSE server.data \o First(sm0.data, Len(sm0.data) - sm0.unused)
         good == server.kind = "down" /\ server.toggle = sm0.toggle
                 /\ (IF sm0.last THEN Len(d) = server.size ELSE Len(d) < server.size)
     IN
     \/ /\ good /\ ~sm0.last
        /\ Reply([Coe("sdores", "segment down", sm0.o, << >>) EXCEPT !.toggle = sm0.toggle])
        /\ server' = [server EXCEPT !.data = d, !.toggle = ~@]
        /\ UNCHANGED <<store, unapplied>>
     \/ /\ good /\ sm0.last
        /\ Reply([Coe("sdores", "segment down", sm0.o, << >>) EXCEPT !.toggle = sm0.toggle])
        /\ server' = NoServer
        /\ Apply(server.o, d)
     \/ ~good /\ Abort
  /\ UNCHANGED session

(* Fragments of the dictionary, two entries in each, behind the list type. *)
Fragments(d) ==
  LET parts == (Len(d) + 1) \div 2 IN
  [k \in 1 .. parts |-> [Coe("info", "list", sm0.o, First(Rest(d, 2 * k - 2), 2)) EXCEPT
                           !.re = sm0.cnt, !.last = k = parts]]

ServeOther ==
  /\ sm0.type = "coe"
  /\ \/ sm0.service = "txpdo rr" /\ Reply(Coe("txpdo", "pdo", sm0.o, store[sm0.o]))
     \/ sm0.service = "rxpdo" /\ Take(<< >>)
     \/ sm0.cmd = "list" /\ Take(Fragments(<<ListType>> \o Dictionary))
     \/ sm0.cmd = "entry" /\ Reply(Coe("info", "entry", sm0.o, <<sm0.o.sub>>))
     \/ sm0.cmd = "describe" /\ Reply(Coe("info", "describe", sm0.o, store[sm0.o]))
  /\ UNCHANGED <<objects, session>>

CoeClient ==
  \/ Begin \/ Request \/ Sent \/ NoAnswer \/ ReadAnswer \/ ReadSegment \/ WriteAnswer
  \/ WriteSegment \/ TxPdoAnswer \/ DescribeAnswer \/ EntryAnswer \/ ListAnswer
CoeServer == ServeUpload \/ ServeUploadSegment \/ ServeDownload \/ ServeDownloadSegment \/ ServeOther
-----------------------------------------------------------------------------
(* What the services promise while every request was answered: see there.  *)
(* The calls of other services are none of its calls.                      *)
Ours == result.op \in CoeOps \cup {"none"} /\ call.op \in CoeOps \cup {"none"}
Service == INSTANCE ObjectService WITH
  Calls    <- {x \in UNION {c.calls : c \in Clients} : x.op \in CoeOps},
  MaxCalls <- Cardinality(UNION {1 .. c.max : c \in Clients}),
  call     <- IF Ours THEN call ELSE NoCall,
  calls    <- IF Ours THEN calls ELSE 0,
  result   <- IF Ours THEN result ELSE [op |-> "none", status |-> "none", data |-> << >>]

(* The services of this slave implement it, whatever datagrams are lost    *)
(* and recovered, with emergency messages between the answers; but fewer in*)
(* a row than the mailbox counter has values: when it comes round, the     *)
(* slave takes a new request for a repetition of one it has answered.      *)
Implements == Service!Spec

(* As long as no datagram is lost, no call fails: the two ends agree on    *)
(* segments, toggle bits, padding and counters, and an emergency message   *)
(* does not cost an answer.                                                *)
NoFalseAlarm == lost = 0 /\ result.op \in CoeOps => result.status # "failed"
=============================================================================
