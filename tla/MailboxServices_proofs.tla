----------------------- MODULE MailboxServices_proofs -----------------------
(***************************************************************************)
(* Proofs about the mailbox services: the error list every service reports *)
(* to is a bounded queue, for every slave, program and size of the list;   *)
(* Ethernet frames come through the mailbox whole or not at all; and while *)
(* no datagram is lost and no answer late, CoE calls do not fail and are   *)
(* what ObjectService says of them.                                        *)
(***************************************************************************)
EXTENDS MailboxServices, FiniteSetTheorems, TLAPS

(* The ring without the remainder of a division: how many entries are       *)
(* between tail t and head h, and where the k-th of them is.                *)
Count(h, t) == IF t <= h THEN h - t ELSE h + MaxElist + 1 - t
Slot(t, k)  == IF t + k - 1 <= MaxElist THEN t + k - 1 ELSE t + k - 2 - MaxElist

Errors == {"none", "error", "emergency", "packet", "SDO", "SDO info", "SoE"}

RingType ==
  /\ elist \in [head : 0 .. MaxElist, tail : 0 .. MaxElist, Error : [0 .. MaxElist -> Errors]]
  /\ newest \in Seq(Errors)

Held(l, q) ==
  /\ Len(q) = Count(l.head, l.tail)
  /\ \A k \in 1 .. Len(q) : q[k] = l.Error[Slot(l.tail, k)]

Ring == RingType /\ Held(elist, newest)
-----------------------------------------------------------------------------
(* What % does to a number below twice the divisor.                         *)
LEMMA ModOnce ==
  ASSUME NEW n \in Nat \ {0}, NEW a \in Nat, a < 2 * n
  PROVE  a % n = IF a < n THEN a ELSE a - n
<1>1. CASE a < n
  BY <1>1
<1>2. CASE a >= n
  BY <1>2
<1> QED BY <1>1, <1>2

(* One more entry: the next head is the tail exactly when MaxElist entries   *)
(* are there, and then the oldest one has to go.                            *)
LEMMA HeadMoves ==
  ASSUME MaxElist \in Nat \ {0}, NEW h \in 0 .. MaxElist, NEW t \in 0 .. MaxElist
  PROVE  LET g == Wrapped(h + 1) IN
         /\ g \in 0 .. MaxElist /\ g # h /\ Count(h, t) \in 0 .. MaxElist
         /\ g = t <=> Count(h, t) = MaxElist
         /\ g = t => Count(g, Wrapped(t + 1)) = MaxElist
         /\ g # t => Count(g, t) = Count(h, t) + 1
BY DEF Wrapped, Count

LEMMA SlotsStay ==
  ASSUME MaxElist \in Nat \ {0}, NEW h \in 0 .. MaxElist, NEW t \in 0 .. MaxElist,
         NEW k \in 1 .. Count(h, t)
  PROVE  Slot(t, k) \in 0 .. MaxElist /\ Slot(t, k) # h
BY DEF Slot, Count

LEMMA NextSlotIsHead ==
  ASSUME MaxElist \in Nat \ {0}, NEW h \in 0 .. MaxElist, NEW t \in 0 .. MaxElist
  PROVE  Slot(t, Count(h, t) + 1) = h
BY DEF Slot, Count

LEMMA TailMoves ==
  ASSUME MaxElist \in Nat \ {0}, NEW t \in 0 .. MaxElist
  PROVE  /\ Wrapped(t + 1) \in 0 .. MaxElist
         /\ \A k \in 1 .. MaxElist : Slot(Wrapped(t + 1), k) = Slot(t, k + 1)
         /\ \A h \in 0 .. MaxElist : h # t => Count(h, Wrapped(t + 1)) = Count(h, t) - 1
BY DEF Wrapped, Slot, Count
-----------------------------------------------------------------------------
(* Sequences *)

LEMMA AppendAt ==
  ASSUME NEW S, NEW q \in Seq(S), NEW e \in S
  PROVE  /\ Append(q, e) \in Seq(S) /\ Len(Append(q, e)) = Len(q) + 1
         /\ Append(q, e)[Len(q) + 1] = e
         /\ \A k \in 1 .. Len(q) : Append(q, e)[k] = q[k]
OBVIOUS

LEMMA TailAt ==
  ASSUME NEW S, NEW q \in Seq(S), Len(q) > 0
  PROVE  /\ Tail(q) \in Seq(S) /\ Len(Tail(q)) = Len(q) - 1
         /\ \A k \in 1 .. Len(q) - 1 : Tail(q)[k] = q[k + 1]
OBVIOUS
-----------------------------------------------------------------------------
(* ecx_pusherror puts the new error behind the others; when the list is full *)
(* the oldest one goes.                                                      *)
LEMMA ReportKeeps ==
  ASSUME MaxElist \in Nat \ {0}, Ring, NEW e \in Errors, Report(e)
  PROVE  Ring'
<1> DEFINE h == elist.head  t == elist.tail  g == Wrapped(h + 1)
<1>1. /\ h \in 0 .. MaxElist /\ t \in 0 .. MaxElist
      /\ elist.Error \in [0 .. MaxElist -> Errors] /\ newest \in Seq(Errors)
      /\ Len(newest) = Count(h, t)
      /\ \A k \in 1 .. Len(newest) : newest[k] = elist.Error[Slot(t, k)]
  BY DEF Ring, RingType, Held
<1>2. /\ g \in 0 .. MaxElist /\ g # h
      /\ g = t <=> Len(newest) = MaxElist
      /\ g = t => Count(g, Wrapped(t + 1)) = MaxElist
      /\ g # t => Count(g, t) = Count(h, t) + 1
  BY <1>1, HeadMoves
<1>3. /\ elist' = [head |-> g, tail |-> IF g = t THEN Wrapped(t + 1) ELSE t,
                   Error |-> [elist.Error EXCEPT ![h] = e]]
      /\ newest' = IF g = t THEN Append(Tail(newest), e) ELSE Append(newest, e)
  BY <1>2 DEF Report, PushError
<1>4. Wrapped(t + 1) \in 0 .. MaxElist
  BY <1>1, TailMoves
<1>5. \A k \in 1 .. Len(newest) : Slot(t, k) \in 0 .. MaxElist /\ Slot(t, k) # h
  BY <1>1, SlotsStay
<1>6. Slot(t, Len(newest) + 1) = h
  BY <1>1, NextSlotIsHead
<1> HIDE DEF h, t, g
<1>7. CASE g = t
  <2> DEFINE q == Tail(newest)
  <2>1. Len(newest) = MaxElist /\ Len(newest) > 0
    BY <1>1, <1>2, <1>7
  <2>2. /\ q \in Seq(Errors) /\ Len(q) = MaxElist - 1
        /\ \A k \in 1 .. MaxElist - 1 : q[k] = newest[k + 1]
    BY <1>1, <2>1, TailAt
  <2>3. newest' = Append(q, e)
    BY <1>3, <1>7
  <2> HIDE DEF q
  <2>4. /\ newest' \in Seq(Errors) /\ Len(newest') = MaxElist /\ newest'[MaxElist] = e
        /\ \A k \in 1 .. MaxElist - 1 : newest'[k] = newest[k + 1]
    BY <2>2, <2>3, AppendAt
  <2>5. /\ elist'.head = g /\ elist'.tail = Wrapped(t + 1)
        /\ elist'.Error = [elist.Error EXCEPT ![h] = e]
    BY <1>3, <1>7
  <2>6. RingType'
    BY <1>1, <1>2, <1>3, <1>4, <1>7, <2>4 DEF RingType
  <2>7. \A k \in 1 .. MaxElist : Slot(Wrapped(t + 1), k) = Slot(t, k + 1)
    BY <1>1, TailMoves
  <2>8. ASSUME NEW k \in 1 .. MaxElist
        PROVE newest'[k] = elist'.Error[Slot(Wrapped(t + 1), k)]
    <3>1. CASE k = MaxElist
      BY <1>1, <1>6, <2>1, <2>4, <2>5, <2>7, <3>1
    <3>2. CASE k # MaxElist
      <4>1. k + 1 \in 1 .. Len(newest) /\ k \in 1 .. MaxElist - 1
        BY <2>1, <3>2
      <4>2. newest'[k] = elist.Error[Slot(t, k + 1)]
        BY <1>1, <2>4, <4>1
      <4> QED BY <1>1, <1>5, <2>5, <2>7, <4>1, <4>2
    <3> QED BY <3>1, <3>2
  <2> QED BY <1>2, <1>7, <2>4, <2>5, <2>6, <2>8 DEF Ring, Held
<1>8. CASE g # t
  <2>1. /\ newest' \in Seq(Errors) /\ Len(newest') = Len(newest) + 1
        /\ newest'[Len(newest) + 1] = e
        /\ \A k \in 1 .. Len(newest) : newest'[k] = newest[k]
    BY <1>1, <1>3, <1>8, AppendAt
  <2>2. /\ elist'.head = g /\ elist'.tail = t
        /\ elist'.Error = [elist.Error EXCEPT ![h] = e]
    BY <1>3, <1>8
  <2>3. RingType'
    BY <1>1, <1>2, <1>3, <1>8, <2>1 DEF RingType
  <2>4. ASSUME NEW k \in 1 .. Len(newest) + 1 PROVE newest'[k] = elist'.Error[Slot(t, k)]
    <3>1. CASE k = Len(newest) + 1
      BY <1>1, <1>6, <2>1, <2>2, <3>1
    <3>2. CASE k # Len(newest) + 1
      <4>1. k \in 1 .. Len(newest)
        BY <1>1, <3>2
      <4> QED BY <1>1, <1>5, <2>1, <2>2, <4>1
    <3> QED BY <3>1, <3>2
  <2> QED BY <1>1, <1>2, <1>8, <2>1, <2>2, <2>3, <2>4 DEF Ring, Held
<1> QED BY <1>7, <1>8

(* ecx_poperror takes the oldest error.                                      *)
LEMMA PopKeeps ==
  ASSUME MaxElist \in Nat \ {0}, Ring, PopError
  PROVE  Ring'
<1> DEFINE h == elist.head  t == elist.tail
<1>1. /\ h \in 0 .. MaxElist /\ t \in 0 .. MaxElist /\ h # t
      /\ elist.Error \in [0 .. MaxElist -> Errors] /\ newest \in Seq(Errors)
      /\ Len(newest) = Count(h, t)
      /\ \A k \in 1 .. Len(newest) : newest[k] = elist.Error[Slot(t, k)]
  BY DEF Ring, RingType, Held, PopError
<1>2. /\ elist' = [head |-> h, tail |-> Wrapped(t + 1), Error |-> elist.Error]
      /\ newest' = Tail(newest)
  BY DEF PopError, Ring, RingType
<1>3. /\ Wrapped(t + 1) \in 0 .. MaxElist /\ Count(h, Wrapped(t + 1)) = Count(h, t) - 1
      /\ \A k \in 1 .. MaxElist : Slot(Wrapped(t + 1), k) = Slot(t, k + 1)
  BY <1>1, TailMoves
<1>4. Len(newest) > 0 /\ Len(newest) <= MaxElist
  <2>1. Count(h, t) > 0
    BY <1>1 DEF Count
  <2>2. Count(h, t) \in 0 .. MaxElist
    BY <1>1, HeadMoves
  <2> HIDE DEF h, t
  <2> QED BY <1>1, <2>1, <2>2
<1> HIDE DEF h, t
<1>5. /\ newest' \in Seq(Errors) /\ Len(newest') = Len(newest) - 1
      /\ \A k \in 1 .. Len(newest) - 1 : newest'[k] = newest[k + 1]
  BY <1>1, <1>2, <1>4, TailAt
<1>6. RingType'
  BY <1>1, <1>2, <1>3, <1>5 DEF RingType
<1>7. ASSUME NEW k \in 1 .. Len(newest')
      PROVE newest'[k] = elist'.Error[Slot(elist'.tail, k)]
  <2>1. k \in 1 .. MaxElist /\ k + 1 \in 1 .. Len(newest) /\ k \in 1 .. Len(newest) - 1
    BY <1>1, <1>4, <1>5
  <2> QED BY <1>1, <1>2, <1>3, <1>5, <2>1
<1> QED BY <1>1, <1>2, <1>3, <1>5, <1>6, <1>7 DEF Ring, Held
-----------------------------------------------------------------------------
(* Only ecx_pusherror and ecx_poperror touch the list, whichever service     *)
(* runs.                                                                     *)
Reports ==
  \/ Report("error") \/ Report("emergency") \/ Report("packet")
  \/ Report("SDO") \/ Report("SDO info") \/ Report("SoE")
Keeps   == UNCHANGED errors

LEMMA BoxReports ==
  ASSUME Box
  PROVE  Keeps \/ Reports \/ PopError
<1> USE DEF Keeps, Reports, errors
<1>1. CASE MbxFetch
  BY <1>1 DEF MbxFetch
<1>2. CASE MbxEmpty \/ MbxSend \/ MbxPoll \/ MbxRepeat \/ MbxAck
  BY <1>2 DEF MbxEmpty, MbxSend, MbxPoll, MbxRepeat, MbxAck
<1>3. CASE SlaveStep \/ SlaveEmergency
  BY <1>3 DEF SlaveStep, SlavePut, SlaveRepeat, Ignore, SlaveEmergency
<1> QED BY <1>1, <1>2, <1>3 DEF Box, MasterStep

LEMMA CoeReports ==
  ASSUME CoeClient \/ CoeServer
  PROVE  Keeps \/ Reports
<1> USE DEF Keeps, Reports, Refuse
<1>1. CASE Begin \/ Sent \/ NoAnswer
  BY <1>1 DEF Begin, Sent, NoAnswer
<1>2. CASE Request
  BY <1>2 DEF Request, Continue, CoeOps
<1>3. CASE ReadAnswer
  BY <1>3 DEF ReadAnswer, Continue
<1>4. CASE ReadSegment
  BY <1>4 DEF ReadSegment, NextSegmentUp, Continue
<1>5. CASE WriteAnswer \/ WriteSegment
  BY <1>5 DEF WriteAnswer, WriteSegment, NextSegmentDown, Continue
<1>6. CASE TxPdoAnswer \/ DescribeAnswer \/ EntryAnswer \/ ListAnswer
  BY <1>6 DEF TxPdoAnswer, DescribeAnswer, EntryAnswer, ListAnswer
<1>7. CASE CoeServer
  BY <1>7 DEF CoeServer, ServeUpload, ServeUploadSegment, ServeDownload, ServeDownloadSegment,
    ServeOther, Abort, Reply, Take
<1> QED BY <1>1, <1>2, <1>3, <1>4, <1>5, <1>6, <1>7 DEF CoeClient

LEMMA BulkReports ==
  ASSUME BulkClient \/ BulkServer \/ SlaveFrame
  PROVE  Keeps \/ Reports
<1> USE DEF Keeps, Reports, Quietly
<1>1. CASE BulkBegin \/ BulkRequest
  BY <1>1 DEF BulkBegin, BulkRequest
<1>2. CASE FOEread
  BY <1>2 DEF FOEread
<1>3. CASE FOEwrite
  BY <1>3 DEF FOEwrite
<1>4. CASE SoEread \/ SoEwrite \/ SoEwritten
  BY <1>4 DEF SoEread, SoEwrite, SoEwritten
<1>5. CASE EOEsetIp \/ EOEgetIp \/ EOEsend \/ EOErecv
  BY <1>5 DEF EOEsetIp, EOEgetIp, EOEsend, EOErecv
<1>6. CASE EOEreadfragment
  BY <1>6 DEF EOEreadfragment
<1>7. CASE BulkServer
  BY <1>7 DEF BulkServer, ServeFile, ServeIdn, ServeFrame, Answer, Take
<1>8. CASE SlaveFrame
  BY <1>8 DEF SlaveFrame
<1> QED BY <1>1, <1>2, <1>3, <1>4, <1>5, <1>6, <1>7, <1>8 DEF BulkClient

LEMMA StepReports ==
  ASSUME [Next]_vars
  PROVE  Keeps \/ Reports \/ PopError
BY BoxReports, CoeReports, BulkReports DEF Next, Program, External, vars, box, Keeps

LEMMA RingKept ==
  ASSUME MaxElist \in Nat \ {0}, Ring, [Next]_vars
  PROVE  Ring'
<1>1. CASE Keeps
  BY <1>1 DEF Keeps, errors, Ring, RingType, Held
<1>2. CASE Reports
  <2>1. ASSUME NEW e \in Errors, Report(e) PROVE Ring'
    BY <2>1, ReportKeeps
  <2> QED BY <1>2, <2>1 DEF Reports, Errors
<1>3. CASE PopError
  BY <1>3, PopKeeps
<1> QED BY <1>1, <1>2, <1>3, StepReports

LEMMA RingBegins ==
  ASSUME MaxElist \in Nat \ {0}, Init
  PROVE  Ring
<1>1. /\ elist = [head |-> 0, tail |-> 0, Error |-> [k \in 0 .. MaxElist |-> "none"]]
      /\ newest = << >>
  BY DEF Init, BoxInit
<1>2. RingType
  <2>1. [k \in 0 .. MaxElist |-> "none"] \in [0 .. MaxElist -> Errors]
    BY DEF Errors
  <2>2. << >> \in Seq(Errors)
    OBVIOUS
  <2> QED BY <1>1, <2>1, <2>2 DEF RingType
<1>3. Len(newest) = 0 /\ Count(elist.head, elist.tail) = 0
  BY <1>1 DEF Count
<1> QED BY <1>2, <1>3 DEF Ring, Held

(* The ring with its remainders.                                             *)
LEMMA RingIsQueue ==
  ASSUME MaxElist \in Nat \ {0}, Ring
  PROVE  RingKeepsNewest
<1> DEFINE h == elist.head  t == elist.tail
<1>1. /\ h \in 0 .. MaxElist /\ t \in 0 .. MaxElist /\ newest \in Seq(Errors)
      /\ Len(newest) = Count(h, t)
      /\ \A k \in 1 .. Len(newest) : newest[k] = elist.Error[Slot(t, k)]
  BY DEF Ring, RingType, Held
<1>2. Stored = Count(h, t)
  <2> DEFINE n == MaxElist + 1  a == h + MaxElist + 1 - t
  <2>1. n \in Nat \ {0} /\ a \in Nat /\ a < 2 * n
    BY <1>1
  <2>2. Stored = a % n
    BY DEF Stored
  <2> HIDE DEF n, a
  <2>3. Stored = IF a < n THEN a ELSE a - n
    BY <2>1, <2>2, ModOnce
  <2> USE DEF n, a
  <2> QED BY <1>1, <2>3 DEF Count
<1>3. Count(h, t) \in 0 .. MaxElist
  BY <1>1, HeadMoves
<1>4. ASSUME NEW k \in 1 .. Stored PROVE (t + k - 1) % (MaxElist + 1) = Slot(t, k)
  <2> DEFINE n == MaxElist + 1  a == t + k - 1
  <2>1. n \in Nat \ {0} /\ a \in Nat /\ a < 2 * n
    BY <1>1, <1>2, <1>3
  <2> HIDE DEF n, a
  <2>2. a % n = IF a < n THEN a ELSE a - n
    BY <2>1, ModOnce
  <2> USE DEF n, a
  <2> QED BY <1>1, <1>2, <1>3, <2>2 DEF Slot
<1>5. newest = [k \in 1 .. Stored |-> newest[k]]
  BY <1>1, <1>2
<1> QED BY <1>1, <1>2, <1>4, <1>5 DEF RingKeepsNewest

(* The error list holds the newest EC_MAXELIST errors in the order they were *)
(* reported, whichever services of the four protocols report them, whatever  *)
(* the line loses and however the list is read in between (ecx_pusherror,    *)
(* ecx_poperror).                                                            *)
THEOREM ErrorsQueue == Spec => []RingKeepsNewest
<1>1. MaxElist \in Nat \ {0}
  BY MailboxAssumption DEF MailboxAssumption
<1>2. Init => Ring
  BY <1>1, RingBegins
<1>3. Ring /\ [Next]_vars => Ring'
  BY <1>1, RingKept
<1>4. Ring => RingKeepsNewest
  BY <1>1, RingIsQueue
<1> QED BY <1>2, <1>3, <1>4, PTL DEF Spec
-----------------------------------------------------------------------------
(* Frames.  First what is known of sequences, whatever their elements are.  *)
IsSeq(q) == Len(q) \in Nat /\ q = [k \in 1 .. Len(q) |-> q[k]]

LEMMA SeqIs ==
  ASSUME NEW S, NEW q \in Seq(S)
  PROVE  IsSeq(q)
BY DEF IsSeq

LEMMA IsIn ==
  ASSUME NEW S, NEW q, IsSeq(q), \A k \in 1 .. Len(q) : q[k] \in S
  PROVE  q \in Seq(S)
<1>1. q \in [1 .. Len(q) -> S] /\ Len(q) \in Nat
  BY DEF IsSeq
<1> QED BY <1>1

(* Two sequences have their elements in one set.                            *)
LEMMA Common ==
  ASSUME NEW q, NEW r, IsSeq(q), IsSeq(r)
  PROVE  \E S : q \in Seq(S) /\ r \in Seq(S)
<1> DEFINE S == {q[k] : k \in 1 .. Len(q)} \cup {r[k] : k \in 1 .. Len(r)}
<1>1. q \in Seq(S)
  <2>1. \A k \in 1 .. Len(q) : q[k] \in S
    OBVIOUS
  <2> HIDE DEF S
  <2> QED BY <2>1, IsIn
<1>2. r \in Seq(S)
  <2>1. \A k \in 1 .. Len(r) : r[k] \in S
    OBVIOUS
  <2> HIDE DEF S
  <2> QED BY <2>1, IsIn
<1> QED BY <1>1, <1>2

LEMMA JoinIs ==
  ASSUME NEW q, NEW r, IsSeq(q), IsSeq(r)
  PROVE  /\ IsSeq(q \o r) /\ Len(q \o r) = Len(q) + Len(r)
         /\ \A k \in 1 .. Len(q) : (q \o r)[k] = q[k]
         /\ \A k \in Len(q) + 1 .. Len(q) + Len(r) : (q \o r)[k] = r[k - Len(q)]
<1>1. PICK S : q \in Seq(S) /\ r \in Seq(S)
  BY Common
<1>2. q \o r \in Seq(S)
  BY <1>1
<1>3. IsSeq(q \o r)
  BY <1>2, SeqIs
<1>4. Len(q \o r) = Len(q) + Len(r) /\ \A k \in 1 .. Len(q) : (q \o r)[k] = q[k]
  BY <1>1
<1>5. \A k \in Len(q) + 1 .. Len(q) + Len(r) : (q \o r)[k] = r[k - Len(q)]
  BY <1>1
<1> QED BY ONLY <1>3, <1>4, <1>5

LEMMA AppendIs ==
  ASSUME NEW q, NEW e, IsSeq(q)
  PROVE  /\ IsSeq(Append(q, e)) /\ Len(Append(q, e)) = Len(q) + 1
         /\ Append(q, e)[Len(q) + 1] = e
         /\ \A k \in 1 .. Len(q) : Append(q, e)[k] = q[k]
<1> DEFINE S == {q[k] : k \in 1 .. Len(q)} \cup {e}
<1>1. q \in Seq(S) /\ e \in S
  <2>1. \A k \in 1 .. Len(q) : q[k] \in S
    OBVIOUS
  <2>2. e \in S
    OBVIOUS
  <2> HIDE DEF S
  <2> QED BY <2>1, <2>2, IsIn
<1> HIDE DEF S
<1>2. IsSeq(Append(q, e))
  <2>1. Append(q, e) \in Seq(S)
    BY <1>1
  <2> QED BY <2>1, SeqIs
<1>3. /\ Len(Append(q, e)) = Len(q) + 1 /\ Append(q, e)[Len(q) + 1] = e
      /\ \A k \in 1 .. Len(q) : Append(q, e)[k] = q[k]
  BY <1>1, AppendAt
<1> QED BY <1>2, <1>3

LEMMA TailIs ==
  ASSUME NEW q, IsSeq(q), q # << >>
  PROVE  /\ Len(q) > 0 /\ Head(q) = q[1]
         /\ IsSeq(Tail(q)) /\ Len(Tail(q)) = Len(q) - 1
         /\ \A k \in 1 .. Len(q) - 1 : Tail(q)[k] = q[k + 1]
<1>1. PICK S : q \in Seq(S)
  BY Common
<1>2. Len(q) > 0 /\ Head(q) = q[1]
  BY <1>1
<1>3. /\ Tail(q) \in Seq(S) /\ Len(Tail(q)) = Len(q) - 1
      /\ \A k \in 1 .. Len(q) - 1 : Tail(q)[k] = q[k + 1]
  BY <1>1, <1>2, TailAt
<1>4. IsSeq(Tail(q))
  BY <1>3, SeqIs
<1> QED BY <1>2, <1>3, <1>4

LEMMA CutIs ==
  ASSUME NEW q, IsSeq(q), NEW i \in 0 .. Len(q), NEW j \in 0 .. Len(q), i <= j
  PROVE  /\ IsSeq(SubSeq(q, i + 1, j)) /\ Len(SubSeq(q, i + 1, j)) = j - i
         /\ \A k \in 1 .. j - i : SubSeq(q, i + 1, j)[k] = q[i + k]
<1>1. PICK S : q \in Seq(S)
  BY Common
<1>2. SubSeq(q, i + 1, j) \in Seq(S)
  BY <1>1
<1>3. IsSeq(SubSeq(q, i + 1, j))
  BY <1>2, SeqIs
<1>4. Len(SubSeq(q, i + 1, j)) = j - i
  BY <1>1
<1>5. ASSUME NEW k \in 1 .. j - i PROVE SubSeq(q, i + 1, j)[k] = q[i + k]
  BY <1>1
<1> QED BY ONLY <1>3, <1>4, <1>5

LEMMA PrefixIs ==
  ASSUME NEW q, IsSeq(q), NEW j \in 0 .. Len(q)
  PROVE  /\ IsSeq(SubSeq(q, 1, j)) /\ Len(SubSeq(q, 1, j)) = j
         /\ \A k \in 1 .. j : SubSeq(q, 1, j)[k] = q[k]
<1>1. PICK S : q \in Seq(S)
  BY Common
<1>2. SubSeq(q, 1, j) \in Seq(S)
  BY <1>1
<1>3. IsSeq(SubSeq(q, 1, j))
  BY <1>2, SeqIs
<1>4. Len(SubSeq(q, 1, j)) = j
  BY <1>1
<1>5. ASSUME NEW k \in 1 .. j PROVE SubSeq(q, 1, j)[k] = q[k]
  BY <1>1
<1> QED BY ONLY <1>3, <1>4, <1>5

LEMMA SuffixIs ==
  ASSUME NEW q, IsSeq(q), NEW i \in 0 .. Len(q)
  PROVE  /\ IsSeq(SubSeq(q, i + 1, Len(q))) /\ Len(SubSeq(q, i + 1, Len(q))) = Len(q) - i
         /\ \A k \in 1 .. Len(q) - i : SubSeq(q, i + 1, Len(q))[k] = q[i + k]
<1>1. Len(q) \in 0 .. Len(q) /\ i <= Len(q)
  BY DEF IsSeq
<1> QED BY <1>1, CutIs

LEMMA SameSeq ==
  ASSUME NEW q, NEW r, IsSeq(q), IsSeq(r), Len(q) = Len(r), \A k \in 1 .. Len(q) : q[k] = r[k]
  PROVE  q = r
BY DEF IsSeq

LEMMA CutAll ==
  ASSUME NEW q, IsSeq(q)
  PROVE  SubSeq(q, 1, Len(q)) = q
<1>1. PICK S : q \in Seq(S)
  BY Common
<1> QED BY <1>1

LEMMA CutJoin ==
  ASSUME NEW q, IsSeq(q), NEW i \in 0 .. Len(q), NEW j \in 0 .. Len(q), i <= j
  PROVE  SubSeq(q, 1, i) \o SubSeq(q, i + 1, j) = SubSeq(q, 1, j)
<1> DEFINE a == SubSeq(q, 1, i)  b == SubSeq(q, i + 1, j)  c == SubSeq(q, 1, j)
<1>1. /\ IsSeq(a) /\ Len(a) = i
      /\ \A k \in 1 .. i : a[k] = q[k]
  BY PrefixIs
<1>2. /\ IsSeq(b) /\ Len(b) = j - i
      /\ \A k \in 1 .. j - i : b[k] = q[i + k]
  BY CutIs
<1>3. /\ IsSeq(c) /\ Len(c) = j
      /\ \A k \in 1 .. j : c[k] = q[k]
  BY PrefixIs
<1> DEFINE w == a \o b
<1>4. /\ IsSeq(w) /\ Len(w) = i + (j - i)
      /\ \A k \in 1 .. i : w[k] = a[k]
      /\ \A k \in i + 1 .. i + (j - i) : w[k] = b[k - i]
  <2> HIDE DEF a, b, c
  <2> QED BY <1>1, <1>2, JoinIs
<1> HIDE DEF a, b, c, w
<1>5. ASSUME NEW k \in 1 .. j PROVE w[k] = c[k]
  <2>1. CASE k <= i
    BY <1>1, <1>3, <1>4, <2>1
  <2>2. CASE k > i
    <3>1. k - i \in 1 .. j - i /\ k \in i + 1 .. i + (j - i) /\ i + (k - i) = k
      BY <2>2
    <3> QED BY <1>2, <1>3, <1>4, <3>1
  <2> QED BY <2>1, <2>2
<1>6. Len(w) = j
  BY <1>4
<1>7. w = c
  BY <1>3, <1>4, <1>5, <1>6, SameSeq
<1> QED BY <1>7 DEF a, b, c, w

(* What First and Rest leave of the rest of a sequence.                     *)
LEMMA RestOfRest ==
  ASSUME NEW q, IsSeq(q), NEW i \in 0 .. Len(q), NEW n \in Nat
  PROVE  LET r == SubSeq(q, i + 1, Len(q))
             m == IF Len(q) - i < n THEN Len(q) - i ELSE n IN
         /\ Rest(q, i) = r /\ IsSeq(r) /\ Len(r) = Len(q) - i
         /\ m \in Nat /\ First(r, n) = SubSeq(q, i + 1, i + m)
         /\ Rest(r, m) = SubSeq(q, i + m + 1, Len(q))
<1> DEFINE r == SubSeq(q, i + 1, Len(q))
           m == IF Len(q) - i < n THEN Len(q) - i ELSE n
<1>1. /\ IsSeq(r) /\ Len(r) = Len(q) - i
      /\ \A k \in 1 .. Len(q) - i : r[k] = q[i + k]
  BY SuffixIs
<1>2. Rest(q, i) = r
  BY DEF Rest
<1>3. m \in 0 .. Len(r) /\ i + m \in 0 .. Len(q) /\ Len(q) \in Nat
  BY <1>1 DEF IsSeq
<1>4. First(r, n) = SubSeq(r, 1, m)
  BY <1>1 DEF First
<1> HIDE DEF m, r
<1>5. First(r, n) = SubSeq(q, i + 1, i + m)
  <2> DEFINE a == SubSeq(r, 1, m)  b == SubSeq(q, i + 1, i + m)
  <2>1. IsSeq(a) /\ Len(a) = m /\ \A k \in 1 .. m : a[k] = r[k]
    BY <1>1, <1>3, PrefixIs
  <2>2. IsSeq(b) /\ Len(b) = m /\ \A k \in 1 .. m : b[k] = q[i + k]
    BY <1>3, CutIs, i <= i + m, i + m - i = m
  <2> HIDE DEF a, b
  <2>3. \A k \in 1 .. m : a[k] = b[k]
    BY <1>1, <1>3, <2>1, <2>2
  <2>4. a = b
    BY <2>1, <2>2, <2>3, SameSeq
  <2> QED BY <1>4, <2>4 DEF a, b
<1>6. Rest(r, m) = SubSeq(q, i + m + 1, Len(q))
  <2> DEFINE a == SubSeq(r, m + 1, Len(r))  b == SubSeq(q, i + m + 1, Len(q))
  <2>1. IsSeq(a) /\ Len(a) = Len(r) - m /\ \A k \in 1 .. Len(r) - m : a[k] = r[m + k]
    BY <1>1, <1>3, SuffixIs
  <2>2. IsSeq(b) /\ Len(b) = Len(r) - m /\ \A k \in 1 .. Len(r) - m : b[k] = q[i + m + k]
    BY <1>1, <1>3, SuffixIs, Len(q) - (i + m) = Len(r) - m
  <2> HIDE DEF a, b
  <2>3. \A k \in 1 .. Len(r) - m : a[k] = b[k]
    <3>1. ASSUME NEW k \in 1 .. Len(r) - m PROVE a[k] = b[k]
      <4>1. m + k \in 1 .. Len(q) - i /\ i + (m + k) = i + m + k
        BY <1>1, <1>3
      <4> QED BY <1>1, <2>1, <2>2, <4>1
    <3> QED BY <3>1
  <2>4. a = b
    BY <2>1, <2>2, <2>3, SameSeq
  <2> QED BY <2>4 DEF a, b, Rest
<1>7. m \in Nat
  BY <1>3
<1> QED BY ONLY <1>1, <1>2, <1>5, <1>6, <1>7 DEF m, r
-----------------------------------------------------------------------------
StampBytes == [b \in 1 .. Stamp |-> <<"stamp">>]

(* A frame as the slave sends it.                                           *)
Whole(f) == IF f.stamped THEN f.data \o StampBytes ELSE f.data

(* Message m is a fragment of the bytes all, at the place its numbers say.  *)
Piece(m, all) ==
  \E i, j \in 0 .. Len(all) :
    /\ i <= j /\ m.data = SubSeq(all, i + 1, j)
    /\ (m.more <=> j < Len(all))
    /\ m.no \in Nat
    /\ m.no = 0 => i = 0 /\ m.at = Blocks(Len(all))
    /\ m.no > 0 => m.at * Block = i

(* r has the bytes of a beginning of all, not yet all of them.              *)
Begun(r, all) == \E j \in 0 .. Len(all) : j < Len(all) /\ r.data = SubSeq(all, 1, j)

LEMMA BlockNumbers == Block \in Nat \ {0} /\ MaxData \in Nat /\ MaxData >= Block /\ Stamp \in Nat
BY BulkAssumption DEF BulkAssumption

LEMMA DivMul ==
  ASSUME NEW b \in Nat \ {0}, NEW q \in Nat
  PROVE  (q * b) \div b = q
OBVIOUS

LEMMA DivBelow ==
  ASSUME NEW b \in Nat \ {0}, NEW a \in Nat
  PROVE  a \div b \in Nat /\ (a \div b) * b <= a /\ a < (a \div b) * b + b
OBVIOUS

LEMMA BlocksReach ==
  ASSUME NEW n \in Nat
  PROVE  Blocks(n) \in Nat /\ Blocks(n) * Block \in Nat /\ Blocks(n) * Block >= n
<1>1. Block \in Nat \ {0} /\ n + Block - 1 \in Nat
  BY BlockNumbers
<1>2. Blocks(n) \in Nat /\ Blocks(n) * Block >= n
  BY <1>1, DivBelow DEF Blocks
<1>3. \A b \in Nat : b * Block \in Nat
  BY <1>1
<1> QED BY <1>2, <1>3

LEMMA Unstamp ==
  ASSUME NEW d, IsSeq(d)
  PROVE  /\ IsSeq(d \o StampBytes) /\ Len(d \o StampBytes) = Len(d) + Stamp
         /\ First(d \o StampBytes, Len(d \o StampBytes) - Stamp) = d
<1> DEFINE s == StampBytes
<1>1. IsSeq(s) /\ Len(s) = Stamp
  BY BlockNumbers, SeqIs DEF StampBytes, IsSeq
<1>2. Len(d) \in Nat /\ Stamp \in Nat
  BY BlockNumbers DEF IsSeq
<1> HIDE DEF s
<1>3. /\ IsSeq(d \o s) /\ Len(d \o s) = Len(d) + Stamp
      /\ \A k \in 1 .. Len(d) : (d \o s)[k] = d[k]
  BY <1>1, JoinIs
<1> DEFINE all == d \o s  a == SubSeq(all, 1, Len(d))
<1>4. First(all, Len(all) - Stamp) = a
  BY <1>2, <1>3 DEF First
<1>5. IsSeq(a) /\ Len(a) = Len(d) /\ \A k \in 1 .. Len(d) : a[k] = all[k]
  <2>1. IsSeq(all) /\ 0 \in 0 .. Len(all) /\ Len(d) \in 0 .. Len(all)
    BY <1>2, <1>3
  <2> HIDE DEF all
  <2> QED BY <1>2, <2>1, CutIs
<1> HIDE DEF a
<1>6. a = d
  BY <1>3, <1>5, SameSeq
<1> QED BY <1>3, <1>4, <1>6 DEF s

Aligned(i) == (i \div Block) * Block = i

(* m is the fragment of all from byte i + 1 on.                             *)
FragmentAt(m, all, i) ==
  /\ m.type = "eoe" /\ m.op = "frame" /\ Piece(m, all)
  /\ Len(m.data) \in Nat /\ i + Len(m.data) \in 0 .. Len(all)
  /\ Rest(Rest(all, i), Len(m.data)) = Rest(all, i + Len(m.data))
  /\ i + Len(m.data) < Len(all) => Len(m.data) = (MaxData \div Block) * Block

(* A fragment is a piece of its frame, and what is left begins where it     *)
(* ends, at a whole block.                                                  *)
LEMMA FragmentIs ==
  ASSUME NEW all, IsSeq(all), NEW i \in 0 .. Len(all), NEW no \in Nat, NEW frame,
         no = 0 => i = 0, no > 0 => Aligned(i)
  PROVE  LET m == Fragment(Rest(all, i), no, frame, Len(all)) IN
         FragmentAt(m, all, i) /\ m.frame = frame /\ m.stamp = FALSE
<1> DEFINE m == Fragment(Rest(all, i), no, frame, Len(all))
           n == IF Len(all) - i > MaxData THEN (MaxData \div Block) * Block ELSE Len(all) - i
           r == SubSeq(all, i + 1, Len(all))
<1>1. /\ Rest(all, i) = r /\ IsSeq(r) /\ Len(r) = Len(all) - i /\ Len(all) \in Nat
  BY RestOfRest, 0 \in Nat DEF IsSeq
<1>2. n \in Nat /\ n <= Len(all) - i /\ i + n \in 0 .. Len(all)
  <2> DEFINE w == MaxData \div Block
  <2>1. w \in Nat /\ w * Block <= MaxData /\ w * Block \in Nat
    BY BlockNumbers, DivBelow
  <2>2. MaxData \in Nat
    BY BlockNumbers
  <2> HIDE DEF w
  <2> QED BY <1>1, <2>1, <2>2 DEF w
<1>3. /\ m.type = "eoe" /\ m.op = "frame" /\ m.frame = frame /\ m.stamp = FALSE
      /\ m.no = no /\ m.data = First(r, n)
      /\ (m.more <=> n < Len(all) - i)
      /\ m.at = IF no > 0 THEN (Len(all) - Len(r)) \div Block ELSE Blocks(Len(all))
  <2> DEFINE d == First(r, n)  o == IF no > 0 THEN (Len(all) - Len(r)) \div Block ELSE Blocks(Len(all))
  <2>1. m = [Msg("eoe", "frame", no, d) EXCEPT !.more = n < Len(all) - i, !.frame = frame, !.at = o]
    BY <1>1 DEF Fragment
  <2> HIDE DEF d, o, n, r, m
  <2> QED BY <2>1 DEF Msg, d, o
<1> HIDE DEF n, m, r
<1>4. First(r, n) = SubSeq(all, i + 1, i + n) /\ Rest(r, n) = SubSeq(all, i + n + 1, Len(all))
  <2>1. n = IF Len(all) - i < n THEN Len(all) - i ELSE n
    BY <1>1, <1>2
  <2> QED BY <1>2, <2>1, RestOfRest DEF r
<1>5. Len(First(r, n)) = n
  BY <1>2, <1>4, CutIs, i <= i + n, i + n - i = n
<1>6. Rest(all, i + n) = SubSeq(all, i + n + 1, Len(all))
  BY DEF Rest
<1>7. no > 0 => m.at * Block = i
  <2>1. SUFFICES ASSUME no > 0 PROVE m.at * Block = i
    OBVIOUS
  <2>2. m.at = i \div Block
    BY <1>1, <1>3, <2>1
  <2> QED BY <2>1, <2>2 DEF Aligned
<1>8. Piece(m, all)
  <2>1. i <= i + n /\ m.data = SubSeq(all, i + 1, i + n) /\ m.no \in Nat
    BY <1>2, <1>3, <1>4
  <2>2. m.more <=> i + n < Len(all)
    <3>1. i + n < Len(all) <=> n < Len(all) - i
      BY <1>1, <1>2
    <3> QED BY <1>3, <3>1
  <2>3. m.no = 0 => i = 0 /\ m.at = Blocks(Len(all))
    BY <1>3
  <2>4. m.no > 0 => m.at * Block = i
    BY <1>3, <1>7
  <2> QED BY <1>2, <2>1, <2>2, <2>3, <2>4 DEF Piece
<1>9. i + n < Len(all) => n = (MaxData \div Block) * Block
  BY <1>1 DEF n
<1>10. Len(m.data) = n /\ Rest(Rest(all, i), n) = Rest(all, i + n)
  BY <1>1, <1>3, <1>4, <1>5, <1>6
<1> QED BY ONLY <1>2, <1>3, <1>8, <1>9, <1>10 DEF m, FragmentAt
-----------------------------------------------------------------------------
(* What the two receivers make of a piece.                                  *)
LEMMA FirstPiece ==
  ASSUME NEW all, IsSeq(all), NEW m, Piece(m, all), m.no = 0, NEW d, d = << >>
  PROVE  /\ m.at = Blocks(Len(all)) /\ IsSeq(m.data) /\ Len(m.data) \in 0 .. Len(all)
         /\ d \o m.data = m.data /\ (m.more <=> Len(m.data) < Len(all))
         /\ m.data = SubSeq(all, 1, Len(m.data)) /\ (~m.more => m.data = all)
<1>1. PICK i, j \in 0 .. Len(all) :
        /\ i <= j /\ m.data = SubSeq(all, i + 1, j)
        /\ (m.more <=> j < Len(all))
        /\ i = 0 /\ m.at = Blocks(Len(all))
  BY DEF Piece
<1>2. IsSeq(m.data) /\ Len(m.data) = j
  BY <1>1, CutIs
<1>3. PICK S : m.data \in Seq(S)
  BY <1>2, Common
<1>4. << >> \o m.data = m.data
  BY <1>3
<1>5. j = Len(all) => SubSeq(all, 1, j) = all
  BY CutAll
<1> QED BY <1>1, <1>2, <1>4, <1>5

LEMMA NextPiece ==
  ASSUME NEW all, IsSeq(all), NEW m, Piece(m, all), m.no > 0,
         NEW r, Begun(r, all), Len(r.data) = m.at * Block
  PROVE  LET d == r.data \o m.data IN
         /\ Len(d) = Len(r.data) + Len(m.data) /\ Len(d) \in 0 .. Len(all)
         /\ (m.more <=> Len(d) < Len(all))
         /\ d = SubSeq(all, 1, Len(d)) /\ (~m.more => d = all)
<1>1. PICK i, j \in 0 .. Len(all) :
        /\ i <= j /\ m.data = SubSeq(all, i + 1, j)
        /\ (m.more <=> j < Len(all))
        /\ m.at * Block = i
  BY DEF Piece
<1>2. PICK l \in 0 .. Len(all) : r.data = SubSeq(all, 1, l)
  BY DEF Begun
<1>3. Len(r.data) = l /\ IsSeq(r.data)
  BY <1>2, PrefixIs
<1>4. l = i
  BY <1>1, <1>3
<1>5. r.data \o m.data = SubSeq(all, 1, j)
  BY <1>1, <1>2, <1>4, CutJoin
<1>6. Len(SubSeq(all, 1, j)) = j
  BY PrefixIs
<1>7. Len(m.data) = j - i
  BY <1>1, CutIs
<1>8. j = Len(all) => SubSeq(all, 1, j) = all
  BY CutAll
<1> DEFINE d == r.data \o m.data
<1>9. d = SubSeq(all, 1, j)
  BY <1>5
<1> HIDE DEF d
<1>10. Len(d) = j /\ d = SubSeq(all, 1, Len(d))
  BY <1>6, <1>9
<1>11. Len(d) = Len(r.data) + Len(m.data) /\ Len(d) \in 0 .. Len(all)
  BY <1>3, <1>4, <1>7, <1>10
<1>12. m.more <=> Len(d) < Len(all)
  BY <1>1, <1>10
<1>13. ~m.more => d = all
  <2>1. Len(all) \in Nat
    BY DEF IsSeq
  <2> QED BY <1>1, <1>8, <1>9, <2>1
<1> QED BY ONLY <1>10, <1>11, <1>12, <1>13 DEF d

(* A first fragment never looks like the continuation of its own frame.     *)
LEMMA BegunIsShort ==
  ASSUME NEW all, IsSeq(all), NEW r, Begun(r, all)
  PROVE  IsSeq(r.data) /\ Len(r.data) < Len(all) /\ Len(r.data) # Blocks(Len(all)) * Block
<1>1. PICK l \in 0 .. Len(all) : l < Len(all) /\ r.data = SubSeq(all, 1, l)
  BY DEF Begun
<1>2. Len(r.data) = l /\ IsSeq(r.data)
  BY <1>1, PrefixIs
<1>3. Len(all) \in Nat /\ Blocks(Len(all)) \in Nat /\ Blocks(Len(all)) * Block >= Len(all)
  BY BlocksReach DEF IsSeq
<1> QED BY <1>1, <1>2, <1>3, BlockNumbers
-----------------------------------------------------------------------------
(* A message of the slave: with a program that listens to frames, every EoE *)
(* message is a piece of the frame its number names.                        *)
ToMaster(m, s, c) ==
  m.type = "eoe" /\ Listens(c) =>
    /\ m.frame + 1 \in 1 .. Len(s.slave)
    /\ m.stamp = s.slave[m.frame + 1].stamped
    /\ Piece(m, Whole(s.slave[m.frame + 1]))

(* A message of the master.                                                 *)
ToSlave(m, s, c) ==
  /\ m.type = "eoe" /\ m.op = "frame" =>
       m.frame \in 1 .. Len(s.master) /\ Piece(m, s.master[m.frame])
  /\ m.type = "eoe" /\ m.op \in {"EOEsetIp", "EOEgetIp"} => ~Listens(c)
  /\ m.type \in {"foe", "soe"} /\ m.op \in {"data", "write"} => IsSeq(m.data)

Queued(q, s, c) == IsSeq(q) /\ \A k \in 1 .. Len(q) : ToMaster(q[k], s, c)

Messages ==
  /\ ToSlave(mbxOut, sent, client) /\ ToSlave(sm0, sent, client)
  /\ ToMaster(mbxIn, sent, client) /\ ToMaster(sm1, sent, client) /\ ToMaster(lastout, sent, client)
  /\ Queued(outq, sent, client)

(* Every state of a service belongs to a call of its own.                   *)
Course ==
  /\ client \in Clients
  /\ pc # "idle" => call \in client.calls
  /\ pc \in {"answer", "segment", "list", "sent"} => call.op \in CoeOps
  /\ pc \in {"FOEread", "FOElast"} => call.op = "FOEread"
  /\ pc \in {"SoEwrite", "SoEanswer"} => call.op = "SoEwrite"
  /\ pc \in {"FOEwrite", "SoEread", "EOEsetIp", "EOEgetIp", "EOEsend", "EOErecv", "EOEreadfragment"}
       => call.op = pc
  /\ pc = "clear" => call.op \notin {"EOEsend", "EOErecv", "EOEreadfragment"}

(* Frames are numbered in the order they are sent, without coming round.    *)
Numbered ==
  /\ calls \in Nat /\ calls <= client.max
  /\ txframeno = Len(sent.master) /\ txframeno <= calls
  /\ remote.frameno = Len(sent.slave) /\ remote.frameno <= MaxFrames
  /\ number \in Nat
  /\ number # 0 => pc \in {"FOEread", "FOElast", "FOEwrite", "EOEsend"}

Shape ==
  /\ DOMAIN sent = {"slave", "master"} /\ IsSeq(sent.slave) /\ IsSeq(sent.master)
  /\ \A k \in 1 .. Len(sent.slave) : IsSeq(sent.slave[k].data) /\ Len(sent.slave[k].data) \in FrameSizes
  /\ \A k \in 1 .. Len(sent.master) : IsSeq(sent.master[k])
  /\ DOMAIN remote = {"file", "idn", "ip", "xfer", "rest", "no", "rx", "frames", "frameno"}
  /\ IsSeq(remote.file) /\ IsSeq(remote.idn) /\ IsSeq(remote.rest) /\ IsSeq(remote.frames)

(* What is still to be written, and of EOEsend that it is the rest of its   *)
(* frame from a whole block on.                                             *)
Writing == pc # "idle" /\ call.op \in {"FOEwrite", "SoEwrite", "EOEsend"} => IsSeq(p)

RestOf(q, n, all) ==
  \E i \in 0 .. Len(all) :
    /\ q = Rest(all, i) /\ (n = 0 => i = 0)
    /\ i < Len(all) => Aligned(i)

Sending ==
  pc = "EOEsend" =>
    txframeno > 0 /\ Len(sent.master[txframeno]) = call.n /\ RestOf(p, number, sent.master[txframeno])

(* A receiver has nothing, or the beginning of a frame.                     *)
IsRx(r) == DOMAIN r = {"no", "frame", "size", "data"} /\ r.no \in Nat /\ (r.no = 0 => r.data = << >>)

Gathers(r, s) ==
  IsRx(r) /\ (r.no > 0 => r.frame + 1 \in 1 .. Len(s.slave) /\ Begun(r, Whole(s.slave[r.frame + 1])))

Reading ==
  /\ Gathers(rx, sent)
  /\ pc # "EOErecv" => rx = NoRx
  /\ rx.no > 0 => Len(Whole(sent.slave[rx.frame + 1])) <= call.n

Keeping ==
  /\ Gathers(rxf, sent)
  /\ rxf.no > 0 => rxf.size = Blocks(Len(Whole(sent.slave[rxf.frame + 1]))) * Block

Hearing ==
  /\ IsRx(remote.rx)
  /\ remote.rx.no > 0 =>
       remote.rx.frame \in 1 .. Len(sent.master) /\ Begun(remote.rx, sent.master[remote.rx.frame])

Frames == Course /\ Numbered /\ Shape /\ Writing /\ Sending /\ Messages /\ Reading /\ Keeping /\ Hearing /\ FramesWhole
-----------------------------------------------------------------------------
(* What the assumptions say of one program and its calls.                   *)
LEMMA ProgramNumbers ==
  ASSUME NEW c \in Clients
  PROVE  c.max \in Nat /\ c.max < FrameNos /\ FrameNos \in Nat \ {0} /\ MaxFrames \in Nat /\ MaxFrames <= FrameNos
<1>1. c.max \in Nat
  BY MailboxAssumption DEF MailboxAssumption
<1>2. FrameNos \in Nat \ {0} /\ MaxFrames \in Nat
  BY BulkAssumption DEF BulkAssumption
<1>3. c.max < FrameNos /\ MaxFrames <= FrameNos
  BY FramesAssumption DEF FramesAssumption
<1> QED BY <1>1, <1>2, <1>3

LEMMA CallNumbers ==
  ASSUME NEW c \in Clients, NEW x \in c.calls, x.op \in BulkOps
  PROVE  x.n \in Nat
<1>1. {y \in c.calls : y.op \in BulkOps} \subseteq BulkCall
  BY BulkAssumption DEF BulkAssumption
<1>2. x \in BulkCall
  BY <1>1
<1> QED BY <1>2 DEF BulkCall

LEMMA Unmixed ==
  ASSUME NEW c \in Clients, Listens(c), NEW x \in c.calls
  PROVE  x.op \notin {"EOEsetIp", "EOEgetIp"}
BY FramesAssumption DEF FramesAssumption

LEMMA Room ==
  ASSUME NEW c \in Clients, NEW x \in c.calls, x.op = "EOEreadfragment", NEW n \in FrameSizes
  PROVE  n \in Nat /\ n + Stamp <= x.n
<1>1. n \in Nat
  BY BulkAssumption DEF BulkAssumption
<1>2. n + Stamp <= x.n
  BY FramesAssumption DEF FramesAssumption
<1> QED BY <1>1, <1>2
-----------------------------------------------------------------------------
(* Messages *)

LEMMA NoMessage ==
  ASSUME NEW m, m.type \notin {"eoe", "foe", "soe"}, NEW s, NEW c
  PROVE  ToMaster(m, s, c) /\ ToSlave(m, s, c)
BY DEF ToMaster, ToSlave

LEMMA NoneIs == None.type = "none"
BY DEF None

LEMMA NothingSent ==
  ASSUME NEW s, NEW c
  PROVE  ToMaster(None, s, c) /\ ToSlave(None, s, c)
BY NoneIs, NoMessage

LEMMA QueuedTail ==
  ASSUME NEW q, NEW s, NEW c, Queued(q, s, c), q # << >>
  PROVE  ToMaster(Head(q), s, c) /\ Queued(Tail(q), s, c)
<1>1. IsSeq(q) /\ \A k \in 1 .. Len(q) : ToMaster(q[k], s, c)
  BY DEF Queued
<1>2. /\ Len(q) > 0 /\ Head(q) = q[1] /\ Len(q) \in Nat
      /\ IsSeq(Tail(q)) /\ Len(Tail(q)) = Len(q) - 1
      /\ \A k \in 1 .. Len(q) - 1 : Tail(q)[k] = q[k + 1]
  BY <1>1, TailIs DEF IsSeq
<1>3. ToMaster(Head(q), s, c)
  BY <1>1, <1>2, 1 \in 1 .. Len(q)
<1>4. ASSUME NEW k \in 1 .. Len(Tail(q)) PROVE ToMaster(Tail(q)[k], s, c)
  <2>1. k + 1 \in 1 .. Len(q) /\ k \in 1 .. Len(q) - 1
    BY <1>2
  <2> QED BY <1>1, <1>2, <2>1
<1> QED BY <1>2, <1>3, <1>4 DEF Queued

LEMMA QueuedJoin ==
  ASSUME NEW q, NEW r, NEW s, NEW c, Queued(q, s, c), Queued(r, s, c)
  PROVE  Queued(q \o r, s, c)
<1> DEFINE w == q \o r
<1>1. /\ IsSeq(q) /\ Len(q) \in Nat /\ \A k \in 1 .. Len(q) : ToMaster(q[k], s, c)
      /\ IsSeq(r) /\ Len(r) \in Nat /\ \A k \in 1 .. Len(r) : ToMaster(r[k], s, c)
  BY DEF Queued, IsSeq
<1>2. /\ IsSeq(w) /\ Len(w) = Len(q) + Len(r)
      /\ \A k \in 1 .. Len(q) : w[k] = q[k]
      /\ \A k \in Len(q) + 1 .. Len(q) + Len(r) : w[k] = r[k - Len(q)]
  BY <1>1, JoinIs
<1> HIDE DEF w
<1>3. ASSUME NEW k \in 1 .. Len(w) PROVE ToMaster(w[k], s, c)
  <2>1. CASE k <= Len(q)
    BY <1>1, <1>2, <2>1
  <2>2. CASE k > Len(q)
    <3>1. k - Len(q) \in 1 .. Len(r) /\ k \in Len(q) + 1 .. Len(q) + Len(r)
      BY <1>1, <1>2, <2>2
    <3> QED BY <1>1, <1>2, <3>1
  <2> QED BY <1>1, <2>1, <2>2
<1>4. Queued(w, s, c)
  BY <1>2, <1>3 DEF Queued
<1> QED BY <1>4 DEF w

LEMMA QueuedOne ==
  ASSUME NEW m, NEW s, NEW c, ToMaster(m, s, c)
  PROVE  Queued(<<m>>, s, c)
<1>1. <<m>> \in Seq({m}) /\ Len(<<m>>) = 1 /\ <<m>>[1] = m
  OBVIOUS
<1>2. IsSeq(<<m>>)
  BY <1>1, SeqIs
<1> QED BY <1>1, <1>2 DEF Queued

LEMMA QueuedNone ==
  ASSUME NEW s, NEW c
  PROVE  Queued(<< >>, s, c)
<1>1. << >> \in Seq({}) /\ Len(<< >>) = 0
  OBVIOUS
<1>2. IsSeq(<< >>)
  BY <1>1, SeqIs
<1> QED BY <1>1, <1>2 DEF Queued

LEMMA QueuedAppend ==
  ASSUME NEW q, NEW m, NEW s, NEW c, Queued(q, s, c), ToMaster(m, s, c)
  PROVE  Queued(Append(q, m), s, c)
<1> DEFINE w == Append(q, m)
<1>1. IsSeq(q) /\ Len(q) \in Nat /\ \A k \in 1 .. Len(q) : ToMaster(q[k], s, c)
  BY DEF Queued, IsSeq
<1>2. /\ IsSeq(w) /\ Len(w) = Len(q) + 1 /\ w[Len(q) + 1] = m
      /\ \A k \in 1 .. Len(q) : w[k] = q[k]
  BY <1>1, AppendIs
<1> HIDE DEF w
<1>3. ASSUME NEW k \in 1 .. Len(w) PROVE ToMaster(w[k], s, c)
  <2>1. CASE k \in 1 .. Len(q)
    BY <1>1, <1>2, <2>1
  <2>2. CASE k = Len(q) + 1
    BY <1>2, <2>2
  <2> QED BY <1>1, <1>2, <2>1, <2>2
<1>4. Queued(w, s, c)
  BY <1>2, <1>3 DEF Queued
<1> QED BY <1>4 DEF w

(* What was sent stays where it is when more frames are sent.               *)
LEMMA SlaveSends ==
  ASSUME NEW s, NEW t, NEW c, NEW f, IsSeq(s.slave), t.slave = Append(s.slave, f)
  PROVE  /\ \A m : ToMaster(m, s, c) => ToMaster(m, t, c)
         /\ \A q : Queued(q, s, c) => Queued(q, t, c)
         /\ \A r : Gathers(r, s) => Gathers(r, t)
<1>1. /\ Len(t.slave) = Len(s.slave) + 1 /\ Len(s.slave) \in Nat
      /\ \A k \in 1 .. Len(s.slave) : t.slave[k] = s.slave[k]
  BY AppendIs DEF IsSeq
<1>2. \A k : k \in 1 .. Len(s.slave) => k \in 1 .. Len(t.slave)
  BY <1>1
<1>3. ASSUME NEW m, ToMaster(m, s, c) PROVE ToMaster(m, t, c)
  BY <1>1, <1>2, <1>3 DEF ToMaster
<1>4. ASSUME NEW q, Queued(q, s, c) PROVE Queued(q, t, c)
  BY <1>3, <1>4 DEF Queued
<1>5. ASSUME NEW r, Gathers(r, s) PROVE Gathers(r, t)
  BY <1>1, <1>2, <1>5 DEF Gathers
<1> QED BY <1>3, <1>4, <1>5

LEMMA MasterSends ==
  ASSUME NEW s, NEW t, NEW c, NEW d, IsSeq(s.master), t.master = Append(s.master, d)
  PROVE  \A m : ToSlave(m, s, c) => ToSlave(m, t, c)
<1>1. /\ Len(t.master) = Len(s.master) + 1 /\ Len(s.master) \in Nat
      /\ \A k \in 1 .. Len(s.master) : t.master[k] = s.master[k]
  BY AppendIs DEF IsSeq
<1>2. \A k : k \in 1 .. Len(s.master) => k \in 1 .. Len(t.master)
  BY <1>1
<1>3. ASSUME NEW m, ToSlave(m, s, c) PROVE ToSlave(m, t, c)
  BY <1>1, <1>2, <1>3 DEF ToSlave
<1> QED BY <1>3
-----------------------------------------------------------------------------
LEMMA BytesIs ==
  ASSUME NEW k, NEW n \in Nat
  PROVE  IsSeq(Bytes(k, n)) /\ Len(Bytes(k, n)) = n
<1> DEFINE S == {<<k, b>> : b \in 1 .. n}
<1>1. \A b \in 1 .. n : <<k, b>> \in S
  OBVIOUS
<1> HIDE DEF S
<1>2. Bytes(k, n) \in Seq(S) /\ Len(Bytes(k, n)) = n
  BY <1>1 DEF Bytes
<1> QED BY <1>2, SeqIs

LEMMA NoRxIs ==
  /\ IsRx(NoRx) /\ NoRx.no = 0 /\ NoRx.data = << >>
  /\ \A s : Gathers(NoRx, s)
<1>1. IsRx(NoRx) /\ NoRx.no = 0 /\ NoRx.data = << >>
  BY DEF NoRx, IsRx
<1> QED BY <1>1 DEF Gathers

LEMMA EmptyIs == IsSeq(<< >>) /\ Len(<< >>) = 0
<1>1. << >> \in Seq({}) /\ Len(<< >>) = 0
  OBVIOUS
<1> QED BY <1>1, SeqIs

LEMMA FramesBegin ==
  ASSUME Init
  PROVE  Frames
<1>1. /\ client \in Clients /\ pc = "idle" /\ calls = 0
      /\ result.status = "none"
      /\ mbxOut = None /\ mbxIn = None /\ sm0 = None /\ sm1 = None /\ outq = << >> /\ lastout = None
  BY DEF Init, BoxInit
<1>2. /\ number = 0 /\ rx = NoRx /\ rxf = NoRx /\ txframeno = 0
      /\ sent = [slave |-> << >>, master |-> << >>]
      /\ remote = [file |-> Bytes(0, FileSize), idn |-> Bytes(0, IdnSize), ip |-> 0, xfer |-> "none",
                   rest |-> << >>, no |-> 0, rx |-> NoRx, frames |-> << >>, frameno |-> 0]
  BY DEF Init, BulkInit
<1>3. IsSeq(Bytes(0, FileSize)) /\ IsSeq(Bytes(0, IdnSize))
  BY BytesIs, BulkAssumption DEF BulkAssumption
<1>4. sent.slave = << >> /\ sent.master = << >> /\ DOMAIN sent = {"slave", "master"}
  BY <1>2
<1>5. /\ DOMAIN remote = {"file", "idn", "ip", "xfer", "rest", "no", "rx", "frames", "frameno"}
      /\ IsSeq(remote.file) /\ IsSeq(remote.idn) /\ remote.rest = << >> /\ remote.frames = << >>
      /\ remote.rx = NoRx /\ remote.frameno = 0
  BY <1>2, <1>3
<1>6. Course
  BY <1>1 DEF Course
<1>7. Numbered
  BY <1>1, <1>2, <1>4, <1>5, EmptyIs, ProgramNumbers DEF Numbered
<1>8. Shape
  BY <1>4, <1>5, EmptyIs DEF Shape
<1>9. Writing /\ Sending
  BY <1>1 DEF Writing, Sending
<1>10. Messages
  BY <1>1, NothingSent, QueuedNone DEF Messages
<1>11. Reading /\ Keeping /\ Hearing
  BY <1>1, <1>2, <1>5, NoRxIs DEF Reading, Keeping, Hearing
<1>12. FramesWhole
  BY <1>1, <1>5 DEF FramesWhole
<1> QED BY <1>6, <1>7, <1>8, <1>9, <1>10, <1>11, <1>12 DEF Frames
-----------------------------------------------------------------------------
(* The line and the slave's sync managers move messages and make none.      *)
LEMMA EmergenciesAreNot ==
  ASSUME NEW s, NEW c
  PROVE  ToMaster(Emergency, s, c) /\ ToMaster(MbxError, s, c)
<1>1. Emergency.type = "emergency" /\ MbxError.type = "error"
  BY DEF Emergency, MbxError
<1> QED BY <1>1, NoMessage

LEMMA BoxMessages ==
  ASSUME Messages, Box
  PROVE  /\ ToSlave(mbxOut', sent, client) /\ ToSlave(sm0', sent, client)
         /\ ToMaster(mbxIn', sent, client) /\ ToMaster(sm1', sent, client) /\ ToMaster(lastout', sent, client)
         /\ Queued(outq', sent, client)
<1> DEFINE Goal == /\ ToSlave(mbxOut', sent, client) /\ ToSlave(sm0', sent, client)
                   /\ ToMaster(mbxIn', sent, client) /\ ToMaster(sm1', sent, client) /\ ToMaster(lastout', sent, client)
                   /\ Queued(outq', sent, client)
<1>0. /\ ToSlave(mbxOut, sent, client) /\ ToSlave(sm0, sent, client)
      /\ ToMaster(mbxIn, sent, client) /\ ToMaster(sm1, sent, client) /\ ToMaster(lastout, sent, client)
      /\ Queued(outq, sent, client) /\ ToMaster(None, sent, client) /\ ToSlave(None, sent, client)
  BY NothingSent DEF Messages
<1> USE DEF slave, master
<1>1. CASE MbxEmpty \/ MbxPoll \/ MbxRepeat \/ MbxAck \/ PopError
  <2>1. UNCHANGED <<mbxOut, mbxIn, sm0, sm1, outq, lastout>>
    BY <1>1 DEF MbxEmpty, MbxPoll, MbxRepeat, MbxAck, PopError
  <2> QED BY <1>0, <2>1
<1>2. CASE MbxSend
  <2>1. UNCHANGED <<mbxOut, sm1, outq, lastout>> /\ sm0' \in {sm0, mbxOut} /\ mbxIn' \in {mbxIn, None}
    BY <1>2 DEF MbxSend
  <2> QED BY <1>0, <2>1
<1>3. CASE MbxFetch
  <2>1. /\ UNCHANGED <<mbxOut, sm0, outq>> /\ mbxIn' \in {mbxIn, sm1}
        /\ sm1' \in {sm1, None} /\ lastout' \in {lastout, sm1}
    BY <1>3 DEF MbxFetch
  <2> QED BY <1>0, <2>1
<1>4. CASE SlavePut
  <2>1. /\ UNCHANGED <<mbxOut, mbxIn, sm0, lastout>>
        /\ sm1' = Head(outq) /\ outq' = Tail(outq) /\ outq # << >>
    BY <1>4 DEF SlavePut
  <2>2. ToMaster(Head(outq), sent, client) /\ Queued(Tail(outq), sent, client)
    BY <1>0, <2>1, QueuedTail
  <2> QED BY <1>0, <2>1, <2>2
<1>5. CASE SlaveRepeat
  <2>1. /\ UNCHANGED <<mbxOut, mbxIn, sm0, lastout>> /\ sm1' \in {sm1, lastout}
        /\ outq' = outq \/ outq' = <<sm1>> \o outq
    BY <1>5 DEF SlaveRepeat
  <2>2. Queued(<<sm1>> \o outq, sent, client)
    BY <1>0, QueuedOne, QueuedJoin
  <2> QED BY <1>0, <2>1, <2>2
<1>6. CASE Ignore
  <2>1. UNCHANGED <<mbxOut, mbxIn, sm1, outq, lastout>> /\ sm0' = None
    BY <1>6 DEF Ignore
  <2> QED BY <1>0, <2>1
<1>7. CASE SlaveEmergency
  <2>1. /\ UNCHANGED <<mbxOut, mbxIn, sm0, sm1, lastout>>
        /\ outq' = Append(outq, Emergency) \/ outq' = Append(outq, MbxError)
    BY <1>7 DEF SlaveEmergency
  <2>2. Queued(Append(outq, Emergency), sent, client) /\ Queued(Append(outq, MbxError), sent, client)
    BY <1>0, EmergenciesAreNot, QueuedAppend
  <2> QED BY <1>0, <2>1, <2>2
<1> QED BY <1>1, <1>2, <1>3, <1>4, <1>5, <1>6, <1>7 DEF Box, MasterStep, SlaveStep

LEMMA BoxFrames ==
  ASSUME Frames, Box, Line
  PROVE  Frames'
<1>1. UNCHANGED <<program, bulkVars>>
  BY DEF Line
<1>2. /\ UNCHANGED <<client, pc, call, calls, p, result>>
      /\ UNCHANGED <<number, rx, rxf, txframeno, remote, sent>>
  BY <1>1 DEF program, bulkVars, transfer, device
<1>3. Messages'
  BY <1>2, BoxMessages DEF Frames, Messages
<1>4. Course' /\ Numbered' /\ Shape' /\ Writing' /\ Sending'
  BY <1>2 DEF Frames, Course, Numbered, Shape, Writing, Sending
<1>5. Reading' /\ Keeping' /\ Hearing' /\ FramesWhole'
  BY <1>2 DEF Frames, Reading, Keeping, Hearing, FramesWhole
<1> QED BY <1>3, <1>4, <1>5 DEF Frames
-----------------------------------------------------------------------------
(* The CoE services leave the frames alone, and none of their messages is   *)
(* taken for a frame.                                                       *)
CoeStates == {"clear", "answer", "segment", "list", "sent"}

CoeBegins ==
  /\ pc = "idle" /\ pc' = "clear" /\ calls < client.max /\ calls' = calls + 1
  /\ call' \in client.calls /\ call'.op \in CoeOps /\ result' = result

CoeRuns ==
  /\ pc \in CoeStates /\ call.op \in CoeOps /\ calls' = calls
  /\ \/ pc' = "idle" /\ result'.op = call.op
     \/ pc' \in CoeStates /\ call' = call /\ result' = result

CoeSends ==
  /\ UNCHANGED <<client, sm0, sm1, outq, lastout>> /\ mbxIn' \in {mbxIn, None}
  /\ mbxOut' \in {mbxOut, None} \/ mbxOut'.type = "coe"

CoeSteps == CoeSends /\ (CoeBegins \/ CoeRuns)

IsCoe(m) == "type" \in DOMAIN m /\ m.type = "coe"

LEMMA CoeIs ==
  /\ \A a, b, o, d : IsCoe(Coe(a, b, o, d))
  /\ \A m, x : IsCoe(m) =>
       IsCoe([m EXCEPT !.cnt = x]) /\ IsCoe([m EXCEPT !.re = x])
       /\ IsCoe([m EXCEPT !.size = x]) /\ IsCoe([m EXCEPT !.toggle = x])
<1>1. ASSUME NEW a, NEW b, NEW o, NEW d PROVE IsCoe(Coe(a, b, o, d))
  BY DEF IsCoe, Coe
<1>2. ASSUME NEW m, NEW x, IsCoe(m)
      PROVE  IsCoe([m EXCEPT !.cnt = x]) /\ IsCoe([m EXCEPT !.re = x])
             /\ IsCoe([m EXCEPT !.size = x]) /\ IsCoe([m EXCEPT !.toggle = x])
  BY <1>2 DEF IsCoe
<1> QED BY <1>1, <1>2

LEMMA ContinueSteps ==
  ASSUME Course, NEW to, NEW m, to \in CoeStates, IsCoe(m), call.op \in CoeOps, pc \in CoeStates, Continue(to, m)
  PROVE  CoeSteps
<1>1. /\ mbxOut' = [m EXCEPT !.cnt = NextMbxCnt(cnt)] /\ mbxIn' = mbxIn
      /\ pc' = to /\ UNCHANGED <<client, call, calls, result, sm0, sm1, outq, lastout>>
  BY DEF Continue, Send, slave
<1>2. mbxOut'.type = "coe"
  BY <1>1, CoeIs DEF IsCoe
<1> QED BY <1>1, <1>2 DEF CoeSteps, CoeSends, CoeRuns

LEMMA FinishSteps ==
  ASSUME NEW status, NEW data, call.op \in CoeOps, pc \in CoeStates, Finish(status, data)
  PROVE  CoeSteps
<1>1. /\ mbxOut' = None /\ mbxIn' = None /\ pc' = "idle" /\ result'.op = call.op
      /\ UNCHANGED <<client, calls, sm0, sm1, outq, lastout>>
  BY DEF Finish, slave
<1> QED BY <1>1 DEF CoeSteps, CoeSends, CoeRuns
LEMMA RequestSteps ==
  ASSUME Course, Request
  PROVE  CoeSteps
<1>1. call.op \in CoeOps /\ pc \in CoeStates
  BY DEF Request, CoeStates
<1>2. ASSUME NEW to, NEW m, to \in CoeStates, IsCoe(m), Continue(to, m) PROVE CoeSteps
  BY <1>1, <1>2, ContinueSteps
<1>3. CASE call.op = "rxpdo"
  <2>1. /\ pc' = "sent" /\ mbxOut' = [Coe("rxpdo", "pdo", call.o, First(p, InitData + 8)) EXCEPT !.cnt = NextMbxCnt(cnt)]
        /\ UNCHANGED <<client, call, calls, result, mbxIn, sm0, sm1, outq, lastout>>
    BY <1>3 DEF Request, Send, slave
  <2>2. mbxOut'.type = "coe"
    BY <2>1, CoeIs DEF IsCoe
  <2> QED BY <1>1, <2>1, <2>2 DEF CoeSteps, CoeSends, CoeRuns, CoeStates
<1>4. CASE call.op # "rxpdo"
  <2>1. \E to \in {"answer", "list"} : \E m : IsCoe(m) /\ Continue(to, m)
    BY <1>1, <1>4, CoeIs DEF Request, CoeOps
  <2> QED BY <1>2, <2>1 DEF CoeStates
<1> QED BY <1>3, <1>4
CoeActs ==
  \/ \E to \in CoeStates : \E m : IsCoe(m) /\ Continue(to, m)
  \/ \E status, data : Finish(status, data)

LEMMA CoeActsSteps ==
  ASSUME Course, call.op \in CoeOps, pc \in CoeStates, CoeActs
  PROVE  CoeSteps
BY ContinueSteps, FinishSteps DEF CoeActs

LEMMA CoeMessages ==
  /\ \A o, d : IsCoe(Coe("sdoreq", "segment up", o, d)) /\ IsCoe([Coe("sdoreq", "segment up", o, d) EXCEPT !.toggle = toggle])
  /\ \A o, d, t, l, u : IsCoe([Coe("sdoreq", "segment down", o, d) EXCEPT !.toggle = t, !.last = l, !.unused = u])
BY DEF IsCoe, Coe

LEMMA CoeClientSteps ==
  ASSUME Course, CoeClient
  PROVE  CoeSteps
<1> USE DEF CoeStates
<1>1. CASE Begin
  <2>1. /\ pc = "idle" /\ pc' = "clear" /\ calls < client.max /\ calls' = calls + 1
        /\ \E c \in {x \in client.calls : x.op \in CoeOps} : call' = c
        /\ mbxIn' = None /\ UNCHANGED <<client, result, mbxOut, sm0, sm1, outq, lastout>>
    BY <1>1 DEF Begin, Receive, slave
  <2> QED BY <2>1 DEF CoeSteps, CoeSends, CoeBegins
<1>2. CASE Request
  BY <1>2, RequestSteps
<1>3. CASE Sent
  <2>1. pc = "sent" /\ \E status : Finish(status, << >>)
    BY <1>3 DEF Sent
  <2>2. call.op \in CoeOps
    BY <2>1 DEF Course
  <2> QED BY <2>1, <2>2, CoeActsSteps DEF CoeActs
<1>4. CASE NoAnswer
  <2>1. pc \in {"answer", "list"} /\ Finish("failed", << >>)
    BY <1>4 DEF NoAnswer
  <2>2. call.op \in CoeOps
    BY <2>1 DEF Course
  <2> QED BY <2>1, <2>2, CoeActsSteps DEF CoeActs
<1>5. CASE ReadAnswer
  <2>1. pc = "answer"
    BY <1>5 DEF ReadAnswer, Answered
  <2>2. CoeActs
    <3>1. ASSUME NEW status, NEW data, Finish(status, data) PROVE CoeActs
      BY <3>1 DEF CoeActs
    <3>2. ASSUME NEW o, NEW d, Continue("segment", Coe("sdoreq", "segment up", o, d)) PROVE CoeActs
      BY <3>2, CoeMessages DEF CoeActs
    <3> QED BY <1>5, <3>1, <3>2 DEF ReadAnswer, Refuse
  <2>3. call.op \in CoeOps
    BY <2>1 DEF Course
  <2> QED BY <2>1, <2>2, <2>3, CoeActsSteps
<1>6. CASE ReadSegment
  <2>1. pc = "segment" /\ (NextSegmentUp \/ Refuse \/ \E d : Finish("ok", d))
    BY <1>6 DEF ReadSegment
  <2>2. CoeActs
    <3>1. CASE NextSegmentUp
      BY <3>1, CoeMessages DEF CoeActs, NextSegmentUp
    <3>2. CASE Refuse \/ \E d : Finish("ok", d)
      BY <3>2 DEF CoeActs, Refuse
    <3> QED BY <2>1, <3>1, <3>2
  <2>3. call.op \in CoeOps
    BY <2>1 DEF Course
  <2> QED BY <2>1, <2>2, <2>3, CoeActsSteps
<1>7. CASE WriteAnswer \/ WriteSegment
  <2>1. pc \in {"answer", "segment"}
        /\ (NextSegmentDown(FALSE) \/ NextSegmentDown(toggle) \/ Refuse \/ \E s, d : Finish(s, d))
    BY <1>7 DEF WriteAnswer, WriteSegment, Answered
  <2>2. CoeActs
    <3>1. CASE NextSegmentDown(FALSE) \/ NextSegmentDown(toggle)
      BY <3>1, CoeMessages DEF CoeActs, NextSegmentDown
    <3>2. CASE Refuse \/ \E s, d : Finish(s, d)
      BY <3>2 DEF CoeActs, Refuse
    <3> QED BY <2>1, <3>1, <3>2
  <2>3. call.op \in CoeOps
    BY <2>1 DEF Course
  <2> QED BY <2>1, <2>2, <2>3, CoeActsSteps
<1>8. CASE TxPdoAnswer \/ DescribeAnswer
  <2>1. pc = "answer" /\ (Refuse \/ \E s, d : Finish(s, d))
    BY <1>8 DEF TxPdoAnswer, DescribeAnswer, Answered
  <2>2. call.op \in CoeOps
    BY <2>1 DEF Course
  <2> QED BY <2>1, <2>2, CoeActsSteps DEF CoeActs, Refuse
<1>9. CASE EntryAnswer
  <2>1. pc = "answer"
        /\ \/ \E s, d : Finish(s, d)
           \/ /\ pc' = "clear" /\ mbxIn' = None
              /\ UNCHANGED <<client, call, calls, result, mbxOut, sm0, sm1, outq, lastout>>
    BY <1>9 DEF EntryAnswer, Receive, slave
  <2>2. call.op \in CoeOps
    BY <2>1 DEF Course
  <2>3. CASE \E s, d : Finish(s, d)
    BY <2>1, <2>2, <2>3, CoeActsSteps DEF CoeActs
  <2>4. CASE pc' = "clear" /\ mbxIn' = None /\ UNCHANGED <<client, call, calls, result, mbxOut, sm0, sm1, outq, lastout>>
    BY <2>1, <2>2, <2>4 DEF CoeSteps, CoeSends, CoeRuns
  <2> QED BY <2>1, <2>3, <2>4
<1>10. CASE ListAnswer
  <2>1. pc = "list"
        /\ \/ Refuse \/ \E s, d : Finish(s, d)
           \/ mbxIn' = None /\ UNCHANGED <<client, pc, call, calls, result, mbxOut, sm0, sm1, outq, lastout>>
    BY <1>10 DEF ListAnswer, Receive, slave, Answered
  <2>2. call.op \in CoeOps
    BY <2>1 DEF Course
  <2>3. CASE Refuse \/ \E s, d : Finish(s, d)
    BY <2>1, <2>2, <2>3, CoeActsSteps DEF CoeActs, Refuse
  <2>4. CASE mbxIn' = None /\ UNCHANGED <<client, pc, call, calls, result, mbxOut, sm0, sm1, outq, lastout>>
    BY <2>1, <2>2, <2>4 DEF CoeSteps, CoeSends, CoeRuns
  <2> QED BY <2>1, <2>3, <2>4
<1> QED BY <1>1, <1>2, <1>3, <1>4, <1>5, <1>6, <1>7, <1>8, <1>9, <1>10 DEF CoeClient

LEMMA CoeClientFrames ==
  ASSUME Frames, CoeClient, UNCHANGED bulkVars
  PROVE  Frames'
<1>1. CoeSteps
  BY CoeClientSteps DEF Frames
<1>2. UNCHANGED <<number, rx, rxf, txframeno, remote, sent>>
  BY DEF bulkVars, transfer, device
<1>3. UNCHANGED <<client, sm0, sm1, outq, lastout>>
  BY <1>1 DEF CoeSteps, CoeSends
<1>4. Messages'
  <2>1. ToSlave(mbxOut', sent, client) /\ ToMaster(mbxIn', sent, client)
    <3>1. mbxOut'.type = "coe" => ToSlave(mbxOut', sent, client)
      BY NoMessage
    <3> QED BY <1>1, <3>1, NothingSent DEF CoeSteps, CoeSends, Frames, Messages
  <2> QED BY <1>2, <1>3, <2>1 DEF Frames, Messages
<1>5. Course'
  BY <1>1, <1>3 DEF CoeSteps, CoeBegins, CoeRuns, CoeStates, CoeOps, Frames, Course
<1>6. pc \notin {"FOEread", "FOElast", "FOEwrite", "EOEsend", "EOErecv"}
  BY <1>1 DEF CoeSteps, CoeBegins, CoeRuns, CoeStates
<1>7. number = 0 /\ rx = NoRx
  BY <1>6 DEF Frames, Numbered, Reading
<1>8. Numbered'
  <2>1. client.max \in Nat /\ Len(sent.master) \in Nat
    BY ProgramNumbers DEF Frames, Course, Shape, IsSeq
  <2>2. calls' = calls \/ (calls < client.max /\ calls' = calls + 1)
    BY <1>1 DEF CoeSteps, CoeBegins, CoeRuns
  <2>3. calls \in Nat /\ calls <= client.max
    BY DEF Frames, Numbered
  <2>4. calls' \in Nat /\ calls' <= client.max /\ calls <= calls'
    BY <2>1, <2>2, <2>3
  <2> QED BY <1>2, <1>3, <1>7, <2>1, <2>4 DEF Frames, Numbered
<1>9. pc' \in CoeStates \cup {"idle"} /\ (pc' # "idle" => call'.op \in CoeOps)
  BY <1>1 DEF CoeSteps, CoeBegins, CoeRuns, CoeStates
<1>10. Writing' /\ Sending'
  BY <1>9 DEF Writing, Sending, CoeStates, CoeOps
<1>11. Reading'
  BY <1>2, <1>7 DEF Frames, Reading, NoRx
<1>12. Shape' /\ Keeping' /\ Hearing'
  BY <1>2 DEF Frames, Shape, Keeping, Hearing
<1>13. FramesWhole'
  BY <1>1, <1>2 DEF CoeSteps, CoeBegins, CoeRuns, CoeOps, Frames, FramesWhole
<1> QED BY <1>4, <1>5, <1>8, <1>10, <1>11, <1>12, <1>13 DEF Frames
-----------------------------------------------------------------------------
(* A slave that answers: none of its CoE answers is a frame.                *)
LEMMA TakeFrames ==
  ASSUME Frames, UNCHANGED <<program, number, rx, rxf, txframeno, remote, sent>>, NEW q,
         Queued(q, sent, client), Take(q)
  PROVE  Frames'
<1>1. UNCHANGED <<client, pc, call, calls, p, result>>
  BY DEF program
<1>2. /\ UNCHANGED <<mbxOut, mbxIn, sm1, lastout>> /\ sm0' = None /\ outq' = outq \o q
  BY DEF Take, master
<1>3. Messages'
  <2>1. Queued(outq \o q, sent, client)
    BY QueuedJoin DEF Frames, Messages
  <2> QED BY <1>1, <1>2, <2>1, NothingSent DEF Frames, Messages
<1>4. Course' /\ Numbered' /\ Shape' /\ Writing' /\ Sending'
  BY <1>1 DEF Frames, Course, Numbered, Shape, Writing, Sending
<1>5. Reading' /\ Keeping' /\ Hearing' /\ FramesWhole'
  BY <1>1 DEF Frames, Reading, Keeping, Hearing, FramesWhole
<1> QED BY <1>3, <1>4, <1>5 DEF Frames

LEMMA CoeQueued ==
  ASSUME NEW m, IsCoe(m), NEW s, NEW c
  PROVE  Queued(<<m>>, s, c)
<1>1. ToMaster(m, s, c)
  BY NoMessage DEF IsCoe
<1> QED BY <1>1, QueuedOne

LEMMA FragmentsQueued ==
  ASSUME NEW d, IsSeq(d), NEW s, NEW c
  PROVE  Queued(Fragments(d), s, c)
<1> DEFINE n == (Len(d) + 1) \div 2
           f == [k \in 1 .. n |-> [Coe("info", "list", sm0.o, First(Rest(d, 2 * k - 2), 2)) EXCEPT
                                     !.re = sm0.cnt, !.last = k = n]]
<1>1. n \in Nat /\ Fragments(d) = f
  <2>1. Len(d) \in Nat
    BY DEF IsSeq
  <2> QED BY <2>1 DEF Fragments
<1>2. ASSUME NEW k \in 1 .. n PROVE f[k].type = "coe"
  BY DEF Coe
<1> HIDE DEF n, f
<1>3. f = [k \in 1 .. n |-> f[k]]
  BY DEF f
<1>4. f \in Seq({f[k] : k \in 1 .. n}) /\ Len(f) = n
  BY <1>1, <1>3
<1>5. IsSeq(f)
  BY <1>4, SeqIs
<1>6. \A k \in 1 .. n : ToMaster(f[k], s, c)
  BY <1>2, NoMessage
<1> QED BY <1>1, <1>4, <1>5, <1>6 DEF Queued

CoeAnswers ==
  \/ \E m : IsCoe(m) /\ Take(<<m>>)
  \/ Take(<< >>)
  \/ \E d : IsSeq(d) /\ Take(Fragments(d))

LEMMA ReplyIs ==
  ASSUME NEW m, IsCoe(m), Reply(m)
  PROVE  CoeAnswers
<1>1. IsCoe([m EXCEPT !.re = sm0.cnt])
  BY CoeIs
<1> QED BY <1>1 DEF Reply, CoeAnswers

LEMMA CoeServerFrames ==
  ASSUME Frames, CoeServer, UNCHANGED bulkVars
  PROVE  Frames'
<1>1. UNCHANGED <<number, rx, rxf, txframeno, remote, sent>>
  BY DEF bulkVars, transfer, device
<1>2. UNCHANGED program
  BY DEF CoeServer, ServeUpload, ServeUploadSegment, ServeDownload, ServeDownloadSegment, ServeOther, session
<1>3. CoeAnswers
  <2>1. ASSUME NEW o, NEW d, NEW a, NEW b, Reply(Coe(a, b, o, d)) PROVE CoeAnswers
    BY <2>1, ReplyIs, CoeIs
  <2>2. ASSUME NEW o, NEW d, NEW a, NEW b, NEW x, Reply([Coe(a, b, o, d) EXCEPT !.size = x]) PROVE CoeAnswers
    BY <2>2, ReplyIs, CoeIs
  <2>3. ASSUME NEW o, NEW d, NEW a, NEW b, NEW x, Reply([Coe(a, b, o, d) EXCEPT !.toggle = x]) PROVE CoeAnswers
    BY <2>3, ReplyIs, CoeIs
  <2>4. ASSUME NEW o, NEW d, NEW a, NEW b, NEW x, NEW y, Reply([Coe(a, b, o, d) EXCEPT !.last = x, !.unused = y])
        PROVE  CoeAnswers
    <3>1. IsCoe([Coe(a, b, o, d) EXCEPT !.last = x, !.unused = y])
      BY DEF IsCoe, Coe
    <3> QED BY <2>4, <3>1, ReplyIs
  <2>5. CASE ServeUpload
    BY <2>1, <2>2, <2>5 DEF ServeUpload
  <2>6. CASE ServeUploadSegment
    BY <2>1, <2>4, <2>6 DEF ServeUploadSegment, Abort
  <2>7. CASE ServeDownload
    BY <2>1, <2>7 DEF ServeDownload
  <2>8. CASE ServeDownloadSegment
    BY <2>1, <2>3, <2>8 DEF ServeDownloadSegment, Abort
  <2>9. CASE ServeOther
    <3>1. IsSeq(<<ListType>> \o Dictionary)
      <4>1. IsSeq(Dictionary)
        BY CoEAssumption, SeqIs DEF CoEAssumption
      <4>2. <<ListType>> \in Seq({ListType})
        OBVIOUS
      <4> QED BY <4>1, <4>2, SeqIs, JoinIs
    <3>2. CASE Take(Fragments(<<ListType>> \o Dictionary)) \/ Take(<< >>)
      BY <3>1, <3>2 DEF CoeAnswers
    <3> QED BY <2>1, <2>9, <3>2 DEF ServeOther
  <2> QED BY <2>5, <2>6, <2>7, <2>8, <2>9 DEF CoeServer
<1>4. \E q : Queued(q, sent, client) /\ Take(q)
  BY <1>3, CoeQueued, QueuedNone, FragmentsQueued DEF CoeAnswers
<1> QED BY <1>1, <1>2, <1>4, TakeFrames
-----------------------------------------------------------------------------
(* FoE, SoE and the IP services: they have messages of their own, and leave *)
(* the frames alone.                                                        *)
FrameOps == {"EOEsend", "EOErecv", "EOEreadfragment"}

Follows(op, s) ==
  \/ op = "FOEread" /\ s \in {"FOEread", "FOElast"}
  \/ op = "SoEwrite" /\ s \in {"SoEwrite", "SoEanswer"}
  \/ op \in BulkOps \ {"FOEread", "SoEwrite"} /\ s = op

BulkSends ==
  /\ UNCHANGED <<client, sm0, sm1, outq, lastout, remote, sent, rxf, txframeno, calls>>
  /\ mbxIn' \in {mbxIn, None} /\ ToSlave(mbxOut', sent, client)

PlainRuns ==
  \/ pc' = "idle" /\ number' = 0 /\ result'.op = call.op /\ rx' = NoRx
  \/ /\ Follows(call.op, pc') /\ call' = call /\ result' = result /\ rx' = rx
     /\ number' \in Nat /\ (number' # 0 => pc' \in {"FOEread", "FOElast", "FOEwrite"})
     /\ (call.op \in {"FOEwrite", "SoEwrite"} => IsSeq(p'))

PlainCall == pc # "idle" /\ call.op \in BulkOps \ FrameOps

LEMMA PlainFrames ==
  ASSUME Frames, PlainCall, BulkSends, PlainRuns
  PROVE  Frames'
<1>1. UNCHANGED <<client, sm0, sm1, outq, lastout, remote, sent, rxf, txframeno, calls>>
  BY DEF BulkSends
<1>2. Messages'
  <2>1. ToMaster(mbxIn', sent, client) /\ ToSlave(mbxOut', sent, client)
    BY NothingSent DEF BulkSends, Frames, Messages
  <2> QED BY <1>1, <2>1 DEF Frames, Messages
<1>3. pc' = "idle" \/ (pc' \in {"FOEread", "FOElast", "FOEwrite", "SoEread", "SoEwrite", "SoEanswer",
                                "EOEsetIp", "EOEgetIp"} /\ call' = call /\ Follows(call.op, pc'))
  BY DEF PlainRuns, PlainCall, Follows, BulkOps, FrameOps
<1>4. Course'
  BY <1>1, <1>3 DEF Follows, PlainCall, BulkOps, FrameOps, Frames, Course
<1>5. Numbered'
  <2>1. number' \in Nat /\ (number' # 0 => pc' \in {"FOEread", "FOElast", "FOEwrite"})
    <3>1. CASE number' = 0
      BY <3>1
    <3>2. CASE number' # 0
      BY <3>2 DEF PlainRuns
    <3> QED BY <3>1, <3>2
  <2>2. /\ calls \in Nat /\ calls <= client.max /\ txframeno = Len(sent.master) /\ txframeno <= calls
        /\ remote.frameno = Len(sent.slave) /\ remote.frameno <= MaxFrames
    BY DEF Frames, Numbered
  <2> QED BY <1>1, <2>1, <2>2 DEF Numbered
<1>6. Shape' /\ Keeping' /\ Hearing'
  BY <1>1 DEF Frames, Shape, Keeping, Hearing
<1>7. Writing'
  BY <1>3 DEF PlainRuns, PlainCall, FrameOps, Writing
<1>8. Sending'
  BY <1>3 DEF Sending
<1>9. rx' = NoRx
  BY DEF PlainRuns, PlainCall, Frames, Course, Reading, FrameOps
<1>10. NoRx.no = 0 /\ Gathers(NoRx, sent)
  BY NoRxIs
<1>11. Reading'
  BY <1>1, <1>9, <1>10 DEF Reading
<1>12. FramesWhole'
  BY <1>1 DEF PlainRuns, PlainCall, BulkOps, FrameOps, Frames, FramesWhole
<1> QED BY <1>2, <1>4, <1>5, <1>6, <1>7, <1>8, <1>11, <1>12 DEF Frames

LEMMA PartsAre ==
  ASSUME NEW q, IsSeq(q), NEW n \in Nat
  PROVE  IsSeq(First(q, n)) /\ IsSeq(Rest(q, n))
<1>1. PICK S : q \in Seq(S)
  BY Common
<1>2. First(q, n) \in Seq(S) /\ Rest(q, n) \in Seq(S)
  BY <1>1 DEF First, Rest
<1> QED BY <1>2, SeqIs

IsMsg(m) == DOMAIN m = {"type", "cnt", "op", "no", "data", "more", "at", "frame", "stamp"}

LEMMA MsgIs ==
  /\ \A a, b, n, d : LET m == Msg(a, b, n, d) IN IsMsg(m) /\ m.type = a /\ m.op = b /\ m.data = d
  /\ \A m, x : IsMsg(m) => LET k == [m EXCEPT !.more = x] IN
       IsMsg(k) /\ k.type = m.type /\ k.op = m.op /\ k.data = m.data
<1>1. ASSUME NEW a, NEW b, NEW n, NEW d
      PROVE LET m == Msg(a, b, n, d) IN IsMsg(m) /\ m.type = a /\ m.op = b /\ m.data = d
  BY DEF IsMsg, Msg
<1>2. ASSUME NEW m, NEW x, IsMsg(m)
      PROVE LET k == [m EXCEPT !.more = x] IN IsMsg(k) /\ k.type = m.type /\ k.op = m.op /\ k.data = m.data
  BY <1>2 DEF IsMsg
<1> QED BY <1>1, <1>2

(* The counter of a message is none of its contents.                        *)
LEMMA CountedIs ==
  ASSUME NEW m, IsMsg(m), NEW x, NEW s, NEW c, ToSlave(m, s, c)
  PROVE  ToSlave([m EXCEPT !.cnt = x], s, c)
<1> DEFINE k == [m EXCEPT !.cnt = x]
<1>1. /\ k.type = m.type /\ k.op = m.op /\ k.data = m.data /\ k.frame = m.frame
      /\ k.no = m.no /\ k.at = m.at /\ k.more = m.more
  BY DEF IsMsg
<1> HIDE DEF k
<1>2. ToSlave(k, s, c)
  BY <1>1 DEF ToSlave, Piece
<1> QED BY <1>2 DEF k

LEMMA GotoSends ==
  ASSUME NEW to, NEW m, NEW w, IsMsg(m), ToSlave(m, sent, client), Goto(to, m, w)
  PROVE  BulkSends /\ pc' = to /\ UNCHANGED <<call, result, rx>>
<1>1. /\ mbxOut' = [m EXCEPT !.cnt = NextMbxCnt(cnt)] /\ mbxIn' = mbxIn /\ pc' = to
      /\ UNCHANGED <<client, call, calls, result, rx, rxf, txframeno, sm0, sm1, outq, lastout, remote, sent>>
  BY DEF Goto, Send, slave, device
<1>2. ToSlave(mbxOut', sent, client)
  BY <1>1, CountedIs
<1> QED BY <1>1, <1>2 DEF BulkSends

LEMMA ConcludeRuns ==
  ASSUME NEW status, NEW data, Conclude(status, data), UNCHANGED rxf
  PROVE  BulkSends /\ PlainRuns
<1>1. /\ mbxOut' = None /\ mbxIn' = None /\ pc' = "idle" /\ number' = 0 /\ rx' = NoRx /\ result'.op = call.op
      /\ UNCHANGED <<client, calls, rxf, txframeno, sm0, sm1, outq, lastout, remote, sent>>
  BY DEF Conclude, slave, device
<1> QED BY <1>1, NothingSent DEF BulkSends, PlainRuns

LEMMA AwaitRuns ==
  ASSUME NEW to, Await(to), UNCHANGED <<rx, rxf>>, Messages
  PROVE  BulkSends /\ pc' = to /\ UNCHANGED <<call, result, rx, number>>
<1>1. /\ mbxIn' = None /\ pc' = to
      /\ UNCHANGED <<client, call, calls, number, result, rx, rxf, txframeno, mbxOut, sm0, sm1, outq, lastout, remote, sent>>
  BY DEF Await, Receive, slave, device
<1> QED BY <1>1 DEF BulkSends, Messages

LEMMA PlainMessage ==
  ASSUME NEW m, IsMsg(m), m.type \in {"foe", "soe"}, IsSeq(m.data), NEW s, NEW c
  PROVE  ToSlave(m, s, c)
BY DEF ToSlave

LEMMA BulkRequestFrames ==
  ASSUME Frames, BulkRequest
  PROVE  Frames'
<1>1. pc = "clear" /\ call.op \in BulkOps /\ call \in client.calls /\ client \in Clients
  BY DEF BulkRequest, Frames, Course
<1>2. PlainCall
  BY <1>1 DEF PlainCall, Frames, Course, FrameOps
<1>3. number' = 0
  BY <1>1 DEF BulkRequest, Frames, Numbered
<1>4. CASE call.op = "SoEwrite"
  <2>1. IsSeq(p) /\ MaxData \in Nat
    BY <1>1, <1>4, BlockNumbers DEF Frames, Writing
  <2>2. IsSeq(First(p, MaxData)) /\ IsSeq(Rest(p, MaxData))
    BY <2>1, PartsAre
  <2>3. PICK m : /\ m = [Msg("soe", "write", 0, First(p, MaxData)) EXCEPT !.more = Len(p) > MaxData]
                 /\ Goto("SoEwrite", m, FALSE) /\ p' = Rest(p, MaxData)
    BY <1>4 DEF BulkRequest
  <2>4. IsMsg(m) /\ m.type = "soe" /\ m.data = First(p, MaxData)
    BY <2>3, MsgIs
  <2>5. ToSlave(m, sent, client)
    BY <2>2, <2>4, PlainMessage
  <2>6. BulkSends /\ pc' = "SoEwrite" /\ UNCHANGED <<call, result, rx>>
    BY <2>3, <2>4, <2>5, GotoSends
  <2> QED BY <1>2, <1>3, <1>4, <2>2, <2>3, <2>6, PlainFrames DEF PlainRuns, Follows
<1>5. CASE call.op # "SoEwrite"
  <2>1. PICK t, m :
          /\ t \in {"foe", "soe", "eoe"} /\ m = Msg(t, call.op, calls, <<call.known>>)
          /\ Goto(call.op, m, TRUE) /\ p' = p
    BY <1>5 DEF BulkRequest
  <2>2. IsMsg(m) /\ m.op = call.op
    BY <2>1, MsgIs
  <2>3. call.op \in {"EOEsetIp", "EOEgetIp"} => ~Listens(client)
    BY <1>1, Unmixed
  <2>4. ToSlave(m, sent, client)
    BY <1>1, <2>2, <2>3 DEF ToSlave, BulkOps
  <2>5. BulkSends /\ pc' = call.op /\ UNCHANGED <<call, result, rx>>
    BY <2>1, <2>2, <2>4, GotoSends
  <2>6. call.op = "FOEwrite" => IsSeq(p')
    BY <1>1, <2>1 DEF Frames, Writing
  <2>7. Follows(call.op, pc')
    BY <1>1, <1>5, <2>5 DEF Follows, BulkOps
  <2> QED BY <1>2, <1>3, <1>5, <2>5, <2>6, <2>7, PlainFrames DEF PlainRuns
<1> QED BY <1>4, <1>5

LEMMA ConcludeFrames ==
  ASSUME Frames, PlainCall, NEW status, NEW data, Conclude(status, data), UNCHANGED rxf
  PROVE  Frames'
BY ConcludeRuns, PlainFrames

LEMMA FOEreadFrames ==
  ASSUME Frames, FOEread
  PROVE  Frames'
<1>1. pc \in {"FOEread", "FOElast"}
  BY DEF FOEread, Ended, Failed
<1>2. PlainCall /\ call.op = "FOEread"
  BY <1>1 DEF PlainCall, Frames, Course, BulkOps, FrameOps
<1>3. CASE \E status, data : Conclude(status, data) /\ UNCHANGED rxf
  BY <1>2, <1>3, ConcludeFrames
<1>4. ASSUME NEW to \in {"FOEread", "FOElast"}, NEW w \in BOOLEAN, NEW n,
             Goto(to, Msg("foe", "ack", n, << >>), w), number' = number + 1
      PROVE  Frames'
  <2> DEFINE m == Msg("foe", "ack", n, << >>)
  <2>2. IsMsg(m) /\ m.type = "foe" /\ m.data = << >>
    BY MsgIs
  <2> HIDE DEF m
  <2>5. ToSlave(m, sent, client)
    BY <2>2, PlainMessage, EmptyIs
  <2>3. BulkSends /\ pc' = to /\ UNCHANGED <<call, result, rx>>
    BY <1>4, <2>2, <2>5, GotoSends DEF m
  <2>4. number' \in Nat
    <3>1. number \in Nat
      BY DEF Frames, Numbered
    <3> QED BY <1>4, <3>1
  <2>6. pc' \in {"FOEread", "FOElast"}
    BY <2>3
  <2>7. PlainRuns
    BY <1>2, <2>3, <2>4, <2>6 DEF PlainRuns, Follows
  <2> QED BY <1>2, <2>3, <2>7, PlainFrames
<1> QED BY <1>3, <1>4, EmptyIs DEF FOEread, Quietly, Failed, Unexpected

LEMMA FOEwriteFrames ==
  ASSUME Frames, FOEwrite
  PROVE  Frames'
<1>1. pc = "FOEwrite"
  BY DEF FOEwrite, Ended
<1>2. PlainCall /\ call.op = "FOEwrite" /\ IsSeq(p) /\ MaxFile \in Nat
  BY <1>1, BulkAssumption DEF PlainCall, Frames, Course, Writing, BulkOps, FrameOps, BulkAssumption
<1>3. CASE \E status, data : Conclude(status, data) /\ UNCHANGED rxf
  BY <1>2, <1>3, ConcludeFrames
<1>4. CASE \E n : Goto("FOEwrite", Msg("foe", "data", n, First(p, MaxFile)), TRUE)
                  /\ number' = number + 1 /\ p' = Rest(p, MaxFile)
  <2>1. PICK n, m : /\ m = Msg("foe", "data", n, First(p, MaxFile)) /\ Goto("FOEwrite", m, TRUE)
                    /\ number' = number + 1 /\ p' = Rest(p, MaxFile)
    BY <1>4
  <2>2. IsSeq(First(p, MaxFile)) /\ IsSeq(Rest(p, MaxFile))
    BY <1>2, PartsAre
  <2>3. IsMsg(m) /\ ToSlave(m, sent, client)
    BY <2>1, <2>2, MsgIs, PlainMessage
  <2>4. BulkSends /\ pc' = "FOEwrite" /\ UNCHANGED <<call, result, rx>>
    BY <2>1, <2>3, GotoSends
  <2>5. number' \in Nat
    <3>1. number \in Nat
      BY DEF Frames, Numbered
    <3> QED BY <2>1, <3>1
  <2> QED BY <1>2, <2>1, <2>2, <2>4, <2>5, PlainFrames DEF PlainRuns, Follows, BulkOps
<1> QED BY <1>3, <1>4 DEF FOEwrite, Quietly, Failed, Unexpected

LEMMA SoEreadFrames ==
  ASSUME Frames, SoEread
  PROVE  Frames'
<1>1. pc = "SoEread"
  BY DEF SoEread, Ended
<1>2. PlainCall /\ call.op = "SoEread"
  BY <1>1 DEF PlainCall, Frames, Course, BulkOps, FrameOps
<1>3. CASE \E status, data : Conclude(status, data) /\ UNCHANGED rxf
  BY <1>2, <1>3, ConcludeFrames
<1>4. CASE Await("SoEread") /\ UNCHANGED <<rx, rxf>>
  <2>1. BulkSends /\ pc' = "SoEread" /\ UNCHANGED <<call, result, rx, number>>
    BY <1>4, AwaitRuns DEF Frames
  <2>2. number = 0
    BY <1>1 DEF Frames, Numbered
  <2> QED BY <1>2, <2>1, <2>2, PlainFrames DEF PlainRuns, Follows, BulkOps
<1> QED BY <1>3, <1>4 DEF SoEread, Quietly, Failed, Unexpected

LEMMA SoEwriteFrames ==
  ASSUME Frames, SoEwrite \/ SoEwritten
  PROVE  Frames'
<1>1. pc \in {"SoEwrite", "SoEanswer"}
  BY DEF SoEwrite, SoEwritten, Ended
<1>2. PlainCall /\ call.op = "SoEwrite" /\ IsSeq(p) /\ MaxData \in Nat /\ number = 0
  BY <1>1, BlockNumbers DEF PlainCall, Frames, Course, Writing, Numbered, BulkOps, FrameOps
<1>3. CASE \E status, data : Conclude(status, data) /\ UNCHANGED rxf
  BY <1>2, <1>3, ConcludeFrames
<1>4. CASE SoeSegment
  <2>1. PICK m : /\ m = [Msg("soe", "write", 0, First(p, MaxData)) EXCEPT !.more = Len(p) > MaxData]
                 /\ Goto("SoEwrite", m, FALSE) /\ p' = Rest(p, MaxData) /\ number' = number
    BY <1>4 DEF SoeSegment
  <2>2. IsSeq(First(p, MaxData)) /\ IsSeq(Rest(p, MaxData))
    BY <1>2, PartsAre
  <2>3. IsMsg(m) /\ m.type = "soe" /\ m.data = First(p, MaxData)
    BY <2>1, MsgIs
  <2>4. ToSlave(m, sent, client)
    BY <2>2, <2>3, PlainMessage
  <2>5. BulkSends /\ pc' = "SoEwrite" /\ UNCHANGED <<call, result, rx>>
    BY <2>1, <2>3, <2>4, GotoSends
  <2> QED BY <1>2, <2>1, <2>2, <2>5, PlainFrames DEF PlainRuns, Follows
<1>5. CASE Await("SoEanswer") /\ UNCHANGED <<p, rx, rxf>>
  <2>1. BulkSends /\ pc' = "SoEanswer" /\ UNCHANGED <<call, result, rx, number>>
    BY <1>5, AwaitRuns DEF Frames
  <2> QED BY <1>2, <1>5, <2>1, PlainFrames DEF PlainRuns, Follows
<1> QED BY <1>3, <1>4, <1>5 DEF SoEwrite, SoEwritten, Quietly, Failed, Unexpected

LEMMA IpFrames ==
  ASSUME Frames, EOEsetIp \/ EOEgetIp
  PROVE  Frames'
<1>1. pc \in {"EOEsetIp", "EOEgetIp"}
  BY DEF EOEsetIp, EOEgetIp, Ended
<1>2. PlainCall
  BY <1>1 DEF PlainCall, Frames, Course, BulkOps, FrameOps
<1>3. \E status, data : Conclude(status, data) /\ UNCHANGED rxf
  BY DEF EOEsetIp, EOEgetIp, Quietly, Failed, Unexpected
<1> QED BY <1>2, <1>3, ConcludeFrames
-----------------------------------------------------------------------------
(* A call begins; ecx_EOEsend gives its frame the next number.              *)
LEMMA NextNumber ==
  ASSUME Frames, calls < client.max
  PROVE  (txframeno + 1) % FrameNos = Len(sent.master) + 1 /\ Len(sent.master) \in Nat
         /\ Len(sent.master) + 1 <= calls + 1
<1>1. client.max \in Nat /\ client.max < FrameNos /\ FrameNos \in Nat \ {0}
  BY ProgramNumbers DEF Frames, Course
<1>2. txframeno = Len(sent.master) /\ txframeno <= calls /\ calls \in Nat
  BY DEF Frames, Numbered
<1>3. Len(sent.master) \in Nat
  BY DEF Frames, Shape, IsSeq
<1> DEFINE n == txframeno + 1
<1>4. n \in Nat /\ n < FrameNos
  BY <1>1, <1>2, <1>3
<1> HIDE DEF n
<1>5. n % FrameNos = n
  <2>1. n < 2 * FrameNos
    BY <1>1, <1>4
  <2> QED BY <1>1, <1>4, <2>1, ModOnce
<1> QED BY <1>2, <1>3, <1>5 DEF n

LEMMA BeginOther ==
  ASSUME Frames, BulkBegin, call'.op # "EOEsend"
  PROVE  Frames'
<1>1. /\ pc = "idle" /\ calls < client.max /\ calls' = calls + 1
      /\ UNCHANGED <<client, sm0, sm1, outq, lastout, result, number, rx, rxf, remote>>
  BY DEF BulkBegin, slave
<1>2. PICK c \in client.calls :
        /\ c.op \in BulkOps \ {"EOEsend"} /\ call' = c
        /\ p' = (IF c.op \in {"FOEwrite", "SoEwrite", "EOEsend"} THEN Bytes(calls', c.n) ELSE << >>)
        /\ pc' = (IF c.op \in {"EOEsend", "EOErecv", "EOEreadfragment"} THEN c.op ELSE "clear")
        /\ mbxIn' = None /\ mbxOut' = mbxOut /\ txframeno' = txframeno /\ sent' = sent
  BY DEF BulkBegin
<1>3. client \in Clients /\ client.max \in Nat
  BY ProgramNumbers DEF Frames, Course
<1>4. Messages'
  BY <1>1, <1>2, NothingSent DEF Frames, Messages
<1>5. pc' = (IF c.op \in {"EOErecv", "EOEreadfragment"} THEN c.op ELSE "clear")
  BY <1>2
<1>6. Course'
  BY <1>1, <1>2, <1>3, <1>5 DEF Course
<1>7. number = 0 /\ rx = NoRx
  BY <1>1 DEF Frames, Numbered, Reading
<1>8. Numbered'
  <2>1. /\ calls \in Nat /\ txframeno = Len(sent.master) /\ txframeno <= calls
        /\ remote.frameno = Len(sent.slave) /\ remote.frameno <= MaxFrames
    BY DEF Frames, Numbered
  <2>2. Len(sent.master) \in Nat
    BY DEF Frames, Shape, IsSeq
  <2>3. calls' \in Nat /\ calls' <= client.max /\ txframeno <= calls'
    BY <1>1, <1>3, <2>1, <2>2
  <2> QED BY <1>1, <1>2, <1>7, <2>1, <2>3 DEF Numbered
<1>9. Shape' /\ Keeping' /\ Hearing' /\ FramesWhole'
  BY <1>1, <1>2 DEF Frames, Shape, Keeping, Hearing, FramesWhole
<1>10. Writing'
  <2>1. c.n \in Nat
    BY <1>2, <1>3, CallNumbers
  <2>2. c.op \in {"FOEwrite", "SoEwrite"} => IsSeq(p')
    BY <1>2, <2>1, BytesIs
  <2> QED BY <1>2, <2>2 DEF Writing
<1>11. Sending'
  BY <1>5 DEF Sending
<1>12. Reading'
  BY <1>1, <1>2, <1>7, NoRxIs DEF Reading
<1> QED BY <1>4, <1>6, <1>8, <1>9, <1>10, <1>11, <1>12 DEF Frames

LEMMA BeginSend ==
  ASSUME Frames, BulkBegin, call'.op = "EOEsend"
  PROVE  Frames'
<1>1. /\ pc = "idle" /\ calls < client.max /\ calls' = calls + 1
      /\ UNCHANGED <<client, sm0, sm1, outq, lastout, result, number, rx, rxf, remote>>
  BY DEF BulkBegin, slave
<1>2. PICK c \in client.calls :
        /\ c.op = "EOEsend" /\ call' = c /\ p' = Bytes(calls', c.n) /\ pc' = "EOEsend"
        /\ mbxIn' = mbxIn /\ mbxOut' = mbxOut /\ txframeno' = (txframeno + 1) % FrameNos
        /\ sent' = [sent EXCEPT !.master = Append(@, p')]
  BY DEF BulkBegin
<1>3. client \in Clients /\ client.max \in Nat
  BY ProgramNumbers DEF Frames, Course
<1>4. c.n \in Nat /\ IsSeq(p') /\ Len(p') = c.n
  <2>1. c.n \in Nat
    BY <1>2, <1>3, CallNumbers DEF BulkOps
  <2> QED BY <1>2, <2>1, BytesIs
<1>5. /\ sent'.slave = sent.slave /\ sent'.master = Append(sent.master, p')
      /\ DOMAIN sent' = {"slave", "master"}
  BY <1>2 DEF Frames, Shape
<1>6. /\ IsSeq(sent.master) /\ IsSeq(sent'.master) /\ Len(sent'.master) = Len(sent.master) + 1
      /\ sent'.master[Len(sent.master) + 1] = p'
      /\ \A k \in 1 .. Len(sent.master) : sent'.master[k] = sent.master[k]
  BY <1>5, AppendIs DEF Frames, Shape
<1>7. txframeno' = Len(sent.master) + 1 /\ Len(sent.master) \in Nat /\ Len(sent.master) + 1 <= calls + 1
  BY <1>1, <1>2, NextNumber
<1>8. Messages'
  <2>1. ToSlave(mbxOut, sent', client) /\ ToSlave(sm0, sent', client)
    BY <1>5, <1>6, MasterSends DEF Frames, Messages
  <2>2. /\ ToMaster(mbxIn, sent', client) /\ ToMaster(sm1, sent', client) /\ ToMaster(lastout, sent', client)
        /\ Queued(outq, sent', client)
    BY <1>5 DEF Frames, Messages, ToMaster, Queued
  <2> QED BY <1>1, <1>2, <2>1, <2>2 DEF Messages
<1>9. Course'
  BY <1>1, <1>2, <1>3 DEF Course
<1>10. number = 0 /\ rx = NoRx
  BY <1>1 DEF Frames, Numbered, Reading
<1>11. Numbered'
  <2>1. calls \in Nat /\ remote.frameno = Len(sent.slave) /\ remote.frameno <= MaxFrames
    BY DEF Frames, Numbered
  <2>2. calls' \in Nat /\ calls' <= client.max
    BY <1>1, <1>3, <2>1
  <2> QED BY <1>1, <1>5, <1>6, <1>7, <1>10, <2>1, <2>2 DEF Numbered
<1>12. Shape'
  <2>1. ASSUME NEW k \in 1 .. Len(sent'.master) PROVE IsSeq(sent'.master[k])
    <3>1. CASE k \in 1 .. Len(sent.master)
      BY <1>6, <3>1 DEF Frames, Shape
    <3>2. CASE k = Len(sent.master) + 1
      BY <1>4, <1>6, <3>2
    <3> QED BY <1>6, <1>7, <3>1, <3>2
  <2> QED BY <1>1, <1>5, <1>6, <2>1 DEF Frames, Shape
<1>13. Writing'
  BY <1>4 DEF Writing
<1>14. Sending'
  <2>1. RestOf(p', 0, p')
    <3>1. p' = Rest(p', 0)
      BY <1>4, CutAll DEF Rest
    <3>2. 0 \in 0 .. Len(p') /\ Aligned(0)
      BY <1>4, BlockNumbers DEF Aligned
    <3> QED BY <3>1, <3>2 DEF RestOf
  <2>2. sent'.master[txframeno'] = p' /\ txframeno' > 0 /\ Len(p') = call'.n /\ number' = 0
    BY <1>1, <1>2, <1>4, <1>6, <1>7, <1>10
  <2> QED BY <2>1, <2>2 DEF Sending
<1>15. Gathers(rxf, sent')
  BY <1>5 DEF Frames, Keeping, Gathers
<1>16. Reading' /\ Keeping'
  BY <1>1, <1>2, <1>5, <1>10, <1>15, NoRxIs DEF Frames, Reading, Keeping
<1>17. Hearing'
  <2>1. remote.rx.frame \in 1 .. Len(sent.master) =>
          remote.rx.frame \in 1 .. Len(sent'.master) /\ sent'.master[remote.rx.frame] = sent.master[remote.rx.frame]
    BY <1>6, <1>7
  <2> QED BY <1>1, <2>1 DEF Frames, Hearing
<1>18. FramesWhole'
  <2>1. \A j \in DOMAIN sent.master : j \in DOMAIN sent'.master /\ sent'.master[j] = sent.master[j]
    BY <1>6, <1>7 DEF IsSeq
  <2> QED BY <1>1, <1>5, <2>1 DEF Frames, FramesWhole
<1> QED BY <1>8, <1>9, <1>11, <1>12, <1>13, <1>14, <1>16, <1>17, <1>18 DEF Frames
-----------------------------------------------------------------------------
(* ecx_EOEsend: every message is the next piece of the frame.               *)
LEMMA SendFrames ==
  ASSUME Frames, EOEsend
  PROVE  Frames'
<1> DEFINE all == sent.master[txframeno]
<1>1. pc = "EOEsend" /\ call.op = "EOEsend" /\ call \in client.calls /\ client \in Clients /\ rx = NoRx
  BY DEF EOEsend, Ended, Frames, Course, Reading
<1>2. /\ txframeno \in 1 .. Len(sent.master) /\ IsSeq(all) /\ Len(all) = call.n
      /\ RestOf(p, number, all) /\ number \in Nat
  <2>1. txframeno > 0 /\ txframeno = Len(sent.master) /\ Len(sent.master) \in Nat /\ number \in Nat
    BY <1>1 DEF Frames, Sending, Numbered, Shape, IsSeq
  <2>2. txframeno \in 1 .. Len(sent.master)
    BY <2>1
  <2> QED BY <1>1, <2>1, <2>2 DEF Frames, Sending, Shape
<1>3. CASE \E status, data : Conclude(status, data) /\ UNCHANGED rxf
  <2>1. BulkSends /\ pc' = "idle" /\ number' = 0 /\ rx' = NoRx /\ result'.op = "EOEsend"
    <3>1. PlainRuns /\ BulkSends /\ pc' = "idle" /\ rx' = NoRx /\ number' = 0
      BY <1>3, ConcludeRuns DEF Conclude
    <3> QED BY <1>1, <1>3, <3>1 DEF Conclude
  <2>2. UNCHANGED <<client, sm0, sm1, outq, lastout, remote, sent, rxf, txframeno, calls>>
    BY <2>1 DEF BulkSends
  <2>3. Messages'
    BY <2>1, <2>2, NothingSent DEF BulkSends, Frames, Messages
  <2>4. Course' /\ Writing' /\ Sending'
    BY <1>1, <2>1, <2>2 DEF Course, Writing, Sending
  <2>5. Numbered' /\ Shape' /\ Keeping' /\ Hearing'
    BY <2>1, <2>2 DEF Frames, Numbered, Shape, Keeping, Hearing
  <2>6. Reading'
    BY <2>1, <2>2, NoRxIs DEF Reading
  <2>7. FramesWhole'
    BY <2>1, <2>2 DEF Frames, FramesWhole
  <2> QED BY <2>3, <2>4, <2>5, <2>6, <2>7 DEF Frames
<1>4. CASE /\ p # << >> /\ p' = Rest(p, Len(Fragment(p, number, txframeno, call.n).data)) /\ number' = number + 1
           /\ Goto("EOEsend", Fragment(p, number, txframeno, call.n), FALSE)
  <2>1. PICK i \in 0 .. Len(all) :
          /\ p = Rest(all, i) /\ (number = 0 => i = 0)
          /\ (i < Len(all) => Aligned(i))
    BY <1>2 DEF RestOf
  <2>2. i < Len(all) /\ Len(all) \in Nat
    <3>1. SUFFICES ASSUME i = Len(all) PROVE FALSE
      BY <1>2 DEF IsSeq
    <3>2. Len(all) \in Nat
      BY <1>2 DEF IsSeq
    <3>3. IsSeq(p) /\ Len(p) = 0
      BY <1>2, <2>1, <3>1, <3>2, SuffixIs DEF Rest
    <3>4. p = << >>
      BY <3>3, EmptyIs, SameSeq
    <3> QED BY <1>4, <3>4
  <2> DEFINE m == Fragment(p, number, txframeno, call.n)
  <2>3. /\ m.type = "eoe" /\ m.op = "frame" /\ m.frame = txframeno /\ Piece(m, all)
        /\ Len(m.data) \in Nat /\ i + Len(m.data) \in 0 .. Len(all)
        /\ Rest(p, Len(m.data)) = Rest(all, i + Len(m.data))
        /\ i + Len(m.data) < Len(all) => Len(m.data) = (MaxData \div Block) * Block
    <3> HIDE DEF all
    <3>1. m = Fragment(Rest(all, i), number, txframeno, Len(all))
      BY <1>2, <2>1
    <3> HIDE DEF m
    <3>2. FragmentAt(m, all, i) /\ m.frame = txframeno
      BY <1>2, <2>1, <2>2, <3>1, FragmentIs
    <3> QED BY <2>1, <3>2 DEF FragmentAt
  <2>4. IsMsg(m)
    BY DEF Fragment, Msg, IsMsg
  <2>5. Goto("EOEsend", m, FALSE) /\ p' = Rest(p, Len(m.data)) /\ number' = number + 1
    BY <1>4
  <2> HIDE DEF m, all
  <2>6. ToSlave(m, sent, client)
    BY <1>2, <2>3 DEF ToSlave, all
  <2>7. BulkSends /\ pc' = "EOEsend" /\ UNCHANGED <<call, result, rx>>
    BY <2>4, <2>5, <2>6, GotoSends
  <2>8. UNCHANGED <<client, sm0, sm1, outq, lastout, remote, sent, rxf, txframeno, calls>>
    BY <2>7 DEF BulkSends
  <2>9. Messages'
    BY <2>7, <2>8, NothingSent DEF BulkSends, Frames, Messages
  <2>10. RestOf(p', number', all)
    <3> DEFINE j == i + Len(m.data)
    <3>1. j < Len(all) => Aligned(j)
      <4>1. SUFFICES ASSUME j < Len(all) PROVE (j \div Block) * Block = j
        BY DEF Aligned
      <4> DEFINE a == i \div Block  b == MaxData \div Block
      <4>2. a \in Nat /\ b \in Nat /\ i = a * Block /\ Len(m.data) = b * Block
        BY <2>1, <2>2, <2>3, <4>1, BlockNumbers, DivBelow DEF Aligned
      <4> HIDE DEF a, b
      <4>3. j = (a + b) * Block /\ a + b \in Nat
        BY <4>2, BlockNumbers
      <4> QED BY <4>3, DivMul, BlockNumbers
    <3>2. number' # 0
      BY <1>2, <2>5
    <3>3. p' = Rest(all, j) /\ j \in 0 .. Len(all)
      BY <2>3, <2>5
    <3> QED BY <3>1, <3>2, <3>3 DEF RestOf
  <2>11. Course' /\ Shape' /\ Keeping' /\ Hearing' /\ FramesWhole'
    BY <1>1, <2>7, <2>8 DEF Frames, Course, Shape, Keeping, Hearing, FramesWhole
  <2>12. Numbered'
    BY <1>2, <2>5, <2>7, <2>8 DEF Frames, Numbered
  <2>13. Reading'
    BY <1>1, <2>7, <2>8, NoRxIs DEF Reading
  <2>14. Sending'
    BY <1>1, <2>7, <2>8, <2>10 DEF Frames, Sending, all
  <2>15. Writing'
    <3>1. IsSeq(p')
      <4>1. IsSeq(p)
        BY <1>1 DEF Frames, Writing
      <4> QED BY <2>3, <2>5, <4>1, PartsAre
    <3> QED BY <3>1 DEF Writing
  <2> QED BY <2>9, <2>11, <2>12, <2>13, <2>14, <2>15 DEF Frames
<1> QED BY <1>3, <1>4 DEF EOEsend, Quietly, Failed
-----------------------------------------------------------------------------
(* The receivers of the master.                                             *)
LEMMA WholeIs ==
  ASSUME Shape, NEW k \in 1 .. Len(sent.slave)
  PROVE  LET f == sent.slave[k] IN
         /\ IsSeq(Whole(f)) /\ Len(Whole(f)) \in Nat
         /\ Len(f.data) \in FrameSizes /\ Len(f.data) \in Nat /\ Len(Whole(f)) <= Len(f.data) + Stamp
         /\ \A m : m.stamp = f.stamped => Unstamped(Whole(f), m) = f.data
<1> DEFINE f == sent.slave[k]
<1>1. IsSeq(f.data) /\ Len(f.data) \in FrameSizes /\ Len(f.data) \in Nat /\ Stamp \in Nat
  BY BlockNumbers DEF Shape, IsSeq
<1> HIDE DEF f
<1>2. /\ IsSeq(f.data \o StampBytes) /\ Len(f.data \o StampBytes) = Len(f.data) + Stamp
      /\ First(f.data \o StampBytes, Len(f.data \o StampBytes) - Stamp) = f.data
  BY <1>1, Unstamp
<1>3. IsSeq(Whole(f)) /\ Len(Whole(f)) \in Nat /\ Len(Whole(f)) <= Len(f.data) + Stamp
  BY <1>1, <1>2 DEF Whole
<1>4. \A m : m.stamp = f.stamped => Unstamped(Whole(f), m) = f.data
  BY <1>2 DEF Unstamped, Whole
<1> QED BY <1>1, <1>3, <1>4 DEF f

(* d has taken piece m of all.                                              *)
Taken(d, m, all) ==
  /\ Len(d) \in 0 .. Len(all) /\ (m.more <=> Len(d) < Len(all))
  /\ d = SubSeq(all, 1, Len(d)) /\ (~m.more => d = all)

LEMMA Collects ==
  ASSUME NEW all, IsSeq(all), NEW m, Piece(m, all), NEW r, r.no \in Nat, r.no = m.no,
         r.no = 0 => r.data = << >>, r.no > 0 => Begun(r, all) /\ Len(r.data) = m.at * Block
  PROVE  Taken(r.data \o m.data, m, all) /\ Length(r, m) = Len(r.data \o m.data)
<1>1. CASE r.no = 0
  <2>1. /\ IsSeq(m.data) /\ Len(m.data) \in 0 .. Len(all)
        /\ r.data \o m.data = m.data /\ (m.more <=> Len(m.data) < Len(all))
        /\ m.data = SubSeq(all, 1, Len(m.data)) /\ (~m.more => m.data = all)
    BY <1>1, FirstPiece
  <2>2. Len(r.data) = 0
    BY <1>1, EmptyIs
  <2>3. Length(r, m) = Len(m.data)
    BY <2>1, <2>2 DEF Length
  <2> QED BY <2>1, <2>3 DEF Taken
<1>2. CASE r.no > 0
  <2>1. m.no > 0 /\ Begun(r, all) /\ Len(r.data) = m.at * Block
    BY <1>2
  <2> DEFINE d == r.data \o m.data
  <2>2. /\ Len(d) = Len(r.data) + Len(m.data) /\ Len(d) \in 0 .. Len(all)
        /\ (m.more <=> Len(d) < Len(all))
        /\ d = SubSeq(all, 1, Len(d)) /\ (~m.more => d = all)
    BY <2>1, NextPiece
  <2>3. Taken(d, m, all) /\ Length(r, m) = Len(d)
    <3> HIDE DEF d
    <3> QED BY <2>2 DEF Taken, Length
  <2> QED BY <2>3
<1>3. r.no = 0 \/ r.no > 0
  OBVIOUS
<1> QED BY ONLY <1>1, <1>2, <1>3, Zenon

LEMMA NotAnotherFirst ==
  ASSUME NEW all, IsSeq(all), NEW m, Piece(m, all), NEW r, Begun(r, all), Len(r.data) = m.at * Block
  PROVE  m.no > 0
<1>1. m.no \in Nat /\ (m.no = 0 => m.at = Blocks(Len(all)))
  BY DEF Piece
<1>2. Len(r.data) # Blocks(Len(all)) * Block
  BY BegunIsShort
<1> QED BY <1>1, <1>2

LEMMA TakenGathers ==
  ASSUME NEW s, NEW m, m.frame + 1 \in 1 .. Len(s.slave), m.more,
         NEW d, Taken(d, m, Whole(s.slave[m.frame + 1])),
         NEW r, IsRx(r), r.no > 0, r.data = d, r.frame = m.frame
  PROVE  Gathers(r, s)
<1>1. Begun(r, Whole(s.slave[m.frame + 1]))
  BY DEF Taken, Begun
<1> QED BY <1>1 DEF Gathers

(* ecx_EOErecv.                                                             *)
LEMMA ReceiverFrames ==
  ASSUME Frames, BulkSends,
         Course', Reading', pc' # "EOEsend", number' = 0, pc' # "idle" => call'.op \notin {"FOEwrite", "SoEwrite", "EOEsend"},
         FramesWhole'
  PROVE  Frames'
<1>1. UNCHANGED <<client, sm0, sm1, outq, lastout, remote, sent, rxf, txframeno, calls>>
  BY DEF BulkSends
<1>2. Messages'
  BY <1>1, NothingSent DEF BulkSends, Frames, Messages
<1>3. Numbered' /\ Shape' /\ Keeping' /\ Hearing'
  BY <1>1 DEF Frames, Numbered, Shape, Keeping, Hearing
<1>4. Writing' /\ Sending'
  BY DEF Writing, Sending
<1> QED BY <1>2, <1>3, <1>4 DEF Frames

LEMMA RecvFrames ==
  ASSUME Frames, EOErecv
  PROVE  Frames'
<1> DEFINE m == mbxIn  f == sent.slave[m.frame + 1]  all == Whole(f)
           next == [rx EXCEPT !.no = @ + 1, !.frame = m.frame, !.data = @ \o m.data]
<1>1. pc = "EOErecv" /\ call.op = "EOErecv" /\ call \in client.calls /\ client \in Clients
  BY DEF EOErecv, Ended, Frames, Course
<1>2. Listens(client) /\ number = 0 /\ call.n \in Nat
  <2>1. Listens(client)
    BY <1>1 DEF Listens
  <2>2. call.n \in Nat
    BY <1>1, CallNumbers DEF BulkOps
  <2> QED BY <1>1, <2>1, <2>2 DEF Frames, Numbered
<1>3. /\ IsRx(rx) /\ rx.no \in Nat /\ (rx.no = 0 => rx.data = << >>)
      /\ rx.no > 0 => /\ rx.frame + 1 \in 1 .. Len(sent.slave)
                      /\ Begun(rx, Whole(sent.slave[rx.frame + 1]))
                      /\ Len(Whole(sent.slave[rx.frame + 1])) <= call.n
  BY DEF Frames, Reading, Gathers, IsRx
<1>4. CASE Conclude("failed", << >>) /\ UNCHANGED rxf
  <2>1. BulkSends /\ pc' = "idle" /\ number' = 0 /\ rx' = NoRx /\ result'.status = "failed"
    BY <1>4, ConcludeRuns DEF Conclude
  <2>2. UNCHANGED <<client, remote, sent>>
    BY <2>1 DEF BulkSends
  <2>3. Course' /\ Reading' /\ FramesWhole'
    BY <1>1, <2>1, <2>2, NoRxIs DEF Frames, Course, Reading, FramesWhole
  <2> QED BY <2>1, <2>3, ReceiverFrames
<1>5. ASSUME m.type = "eoe", ~Foreign(m)
      PROVE  /\ m.frame + 1 \in 1 .. Len(sent.slave) /\ m.stamp = f.stamped
             /\ Taken(rx.data \o m.data, m, all) /\ Len(all) <= call.n /\ Length(rx, m) <= call.n
  <2>1. m.frame + 1 \in 1 .. Len(sent.slave) /\ m.stamp = f.stamped /\ Piece(m, all)
    BY <1>2, <1>5 DEF Frames, Messages, ToMaster
  <2>2. IsSeq(all) /\ Len(all) \in Nat
    BY <2>1, WholeIs DEF Frames
  <2>3. m.no \in Nat /\ (m.no = 0 => m.at = Blocks(Len(all)))
    BY <2>1 DEF Piece
  <2>4. /\ rx.no = m.no \/ m.no = 0
        /\ rx.no = 0 => m.at * Block <= call.n
        /\ rx.no > 0 => rx.frame = m.frame /\ Len(rx.data) = m.at * Block
    <3>1. rx.no = 0 /\ ~(m.at * Block > call.n) => m.at * Block <= call.n
      <4>1. SUFFICES ASSUME rx.no = 0, ~(m.at * Block > call.n) PROVE m.at * Block <= call.n
        OBVIOUS
      <4>2. m.no = 0
        BY <1>5, <2>3, <4>1 DEF Foreign
      <4>3. m.at = Blocks(Len(all)) /\ Blocks(Len(all)) * Block \in Nat
        BY <2>2, <2>3, <4>2, BlocksReach
      <4> HIDE DEF all, m
      <4> QED BY <1>2, <4>1, <4>3
    <3> QED BY <1>3, <1>5, <2>3, <3>1 DEF Foreign
  <2>5. rx.no = m.no
    <3>1. SUFFICES ASSUME rx.no > 0, m.no = 0 PROVE FALSE
      BY <1>3, <2>3, <2>4
    <3>2. Begun(rx, all) /\ Len(rx.data) = m.at * Block
      BY <1>3, <2>4, <3>1
    <3> HIDE DEF all, m
    <3> QED BY <2>1, <2>2, <3>1, <3>2, NotAnotherFirst
  <2>6. rx.no > 0 => Begun(rx, all) /\ Len(rx.data) = m.at * Block
    BY <1>3, <2>4
  <2>7. Len(all) <= call.n
    <3>1. CASE rx.no > 0
      BY <1>3, <2>4, <3>1
    <3>2. CASE rx.no = 0
      <4>1. m.at * Block <= call.n /\ m.at = Blocks(Len(all))
        BY <2>3, <2>4, <2>5, <3>2
      <4>2. Blocks(Len(all)) * Block >= Len(all) /\ Blocks(Len(all)) * Block \in Nat
        BY <2>2, BlocksReach
      <4> HIDE DEF all, m
      <4> QED BY <1>2, <2>2, <4>1, <4>2
    <3> QED BY <1>3, <3>1, <3>2
  <2> HIDE DEF all, m
  <2>8. Taken(rx.data \o m.data, m, all) /\ Length(rx, m) = Len(rx.data \o m.data)
    BY <1>3, <2>1, <2>2, <2>5, <2>6, Collects
  <2>9. Length(rx, m) <= call.n
    <3> DEFINE d == rx.data \o m.data  l == Length(rx, m)
    <3>1. Len(d) \in 0 .. Len(all) /\ l = Len(d)
      BY <2>8 DEF Taken
    <3> HIDE DEF d, l
    <3>2. l <= call.n
      BY <1>2, <2>2, <2>7, <3>1
    <3> QED BY <3>2 DEF l
  <2> QED BY <2>1, <2>7, <2>8, <2>9 DEF m, all
<1>6. CASE /\ m.type = "eoe" /\ ~Foreign(m) /\ m.more
           /\ rx' = (IF Length(rx, m) <= call.n THEN next ELSE rx)
           /\ Await("EOErecv") /\ UNCHANGED rxf
  <2>1. /\ UNCHANGED <<client, call, calls, number, result, rxf, txframeno, mbxOut, sm0, sm1, outq, lastout, remote, sent>>
        /\ mbxIn' = None /\ pc' = "EOErecv"
    BY <1>6 DEF Await, Receive, slave, device
  <2>2. BulkSends
    BY <2>1 DEF BulkSends, Frames, Messages
  <2>3. /\ m.frame + 1 \in 1 .. Len(sent.slave)
        /\ Taken(rx.data \o m.data, m, all) /\ Len(all) <= call.n
        /\ rx' = next
    BY <1>5, <1>6
  <2>4. IsRx(next) /\ next.no > 0 /\ next.data = rx.data \o m.data /\ next.frame = m.frame
    BY <1>3 DEF IsRx
  <2>5. Gathers(next, sent)
    <3> HIDE DEF next, m
    <3> QED BY <1>6, <2>3, <2>4, TakenGathers DEF all
  <2>6. Reading'
    <3> HIDE DEF next
    <3> QED BY <2>1, <2>3, <2>4, <2>5 DEF Reading
  <2>7. Course' /\ FramesWhole'
    BY <1>1, <2>1 DEF Frames, Course, FramesWhole
  <2> QED BY <1>1, <1>2, <2>1, <2>2, <2>6, <2>7, ReceiverFrames
<1>7. CASE /\ m.type = "eoe" /\ ~Foreign(m) /\ ~m.more
           /\ Conclude("ok", Unstamped((IF Length(rx, m) <= call.n THEN next ELSE rx).data, m)) /\ UNCHANGED rxf
  <2>1. BulkSends /\ pc' = "idle" /\ number' = 0 /\ rx' = NoRx
        /\ result'.data = Unstamped((IF Length(rx, m) <= call.n THEN next ELSE rx).data, m)
    BY <1>7, ConcludeRuns DEF Conclude
  <2>2. UNCHANGED <<client, remote, sent>>
    BY <2>1 DEF BulkSends
  <2>3. /\ m.frame + 1 \in 1 .. Len(sent.slave) /\ m.stamp = f.stamped
        /\ rx.data \o m.data = all /\ Length(rx, m) <= call.n
    BY <1>5, <1>7 DEF Taken
  <2>4. next.data = rx.data \o m.data
    BY <1>3 DEF IsRx
  <2>5. Unstamped(all, m) = f.data
    BY <2>3, WholeIs DEF Frames
  <2>6. result'.data = f.data
    BY <2>1, <2>3, <2>4, <2>5
  <2>7. DOMAIN sent.slave = 1 .. Len(sent.slave)
    BY DEF Frames, Shape, IsSeq
  <2>8. FramesWhole'
    BY <2>2, <2>3, <2>6, <2>7 DEF Frames, FramesWhole
  <2>9. Course' /\ Reading'
    BY <1>1, <2>1, <2>2, NoRxIs DEF Course, Reading
  <2> QED BY <2>1, <2>8, <2>9, ReceiverFrames
<1> QED BY <1>4, <1>6, <1>7 DEF EOErecv, Quietly, Failed, Unexpected

LEMMA KeeperFrames ==
  ASSUME Frames, NEW status, NEW data, Conclude(status, data), Keeping', FramesWhole'
  PROVE  Frames'
<1>1. /\ UNCHANGED <<client, calls, sm0, sm1, outq, lastout, remote, sent, txframeno>>
      /\ mbxOut' = None /\ mbxIn' = None /\ pc' = "idle" /\ number' = 0 /\ rx' = NoRx
  BY DEF Conclude, slave, device
<1>2. Messages'
  BY <1>1, NothingSent DEF Frames, Messages
<1>3. Course' /\ Writing' /\ Sending'
  BY <1>1 DEF Frames, Course, Writing, Sending
<1>4. Numbered' /\ Shape' /\ Hearing'
  BY <1>1 DEF Frames, Numbered, Shape, Hearing
<1>5. Reading'
  BY <1>1, NoRxIs DEF Reading
<1> QED BY <1>2, <1>3, <1>4, <1>5 DEF Frames

(* ecx_EOEreadfragment: fragment 0 begins a frame, whatever was there; any  *)
(* other fragment it takes continues the frame at hand.                     *)
Kept(m) == IF rxf.no # m.no THEN NoRx ELSE rxf
Opened(m) == IF Kept(m).no = 0 THEN [NoRx EXCEPT !.frame = m.frame, !.size = m.at * Block] ELSE Kept(m)
Refused(m) ==
  \/ m.no > 0 /\ rxf.no # m.no
  \/ Kept(m).no > 0 /\ (Kept(m).frame # m.frame \/ Len(Kept(m).data) # m.at * Block)
Extended(m) ==
  IF Length(Opened(m), m) <= Opened(m).size /\ Length(Opened(m), m) <= call.n
  THEN [Opened(m) EXCEPT !.no = @ + 1, !.data = @ \o m.data] ELSE Opened(m)

LEMMA OpenedIs ==
  ASSUME NEW m, m.no \in Nat, IsRx(rxf), ~Refused(m)
  PROVE  /\ IsRx(Opened(m)) /\ Opened(m).no = m.no /\ Opened(m).frame = m.frame
         /\ m.no = 0 => Opened(m).data = << >> /\ Opened(m).size = m.at * Block
         /\ m.no > 0 => Opened(m) = rxf /\ rxf.no = m.no /\ rxf.frame = m.frame /\ Len(rxf.data) = m.at * Block
<1> DEFINE o == [NoRx EXCEPT !.frame = m.frame, !.size = m.at * Block]
<1>1. IsRx(o) /\ o.no = 0 /\ o.frame = m.frame /\ o.data = << >> /\ o.size = m.at * Block
  BY DEF NoRx, IsRx
<1>2. NoRx.no = 0
  BY DEF NoRx
<1> HIDE DEF o
<1>3. CASE m.no = 0
  <2>1. Kept(m).no = 0
    BY <1>2, <1>3 DEF Kept
  <2>2. Opened(m) = o
    BY <2>1 DEF Opened, o
  <2> QED BY <1>1, <1>3, <2>2
<1>4. CASE m.no > 0
  <2>1. rxf.no = m.no
    BY <1>4 DEF Refused
  <2>2. Kept(m) = rxf
    BY <2>1 DEF Kept
  <2>3. rxf.no # 0 /\ rxf.no > 0
    BY <1>4, <2>1
  <2>4. Opened(m) = rxf
    BY <2>2, <2>3 DEF Opened
  <2>5. rxf.frame = m.frame /\ Len(rxf.data) = m.at * Block
    BY <2>2, <2>3 DEF Refused
  <2> QED BY <1>4, <2>1, <2>3, <2>4, <2>5
<1>5. m.no = 0 \/ m.no > 0
  OBVIOUS
<1> QED BY ONLY <1>3, <1>4, <1>5, Zenon

LEMMA ReadfragmentFrames ==
  ASSUME Frames, EOEreadfragment
  PROVE  Frames'
<1> DEFINE m == mbxIn  f == sent.slave[m.frame + 1]  all == Whole(f)
<1>1. pc = "EOEreadfragment" /\ call.op = "EOEreadfragment" /\ call \in client.calls /\ client \in Clients
  BY DEF EOEreadfragment, Ended, Frames, Course
<1>2. Listens(client) /\ call.n \in Nat
  <2>1. Listens(client)
    BY <1>1 DEF Listens
  <2>2. call.n \in Nat
    BY <1>1, CallNumbers DEF BulkOps
  <2> QED BY <2>1, <2>2
<1>3. IsRx(rxf) /\ rxf.no \in Nat /\ Gathers(NoRx, sent) /\ NoRx.no = 0
  BY NoRxIs DEF Frames, Keeping, Gathers, IsRx
<1>4. CASE Conclude("failed", << >>) /\ rxf' \in {rxf, NoRx}
  <2>1. UNCHANGED <<client, remote, sent>> /\ result'.status = "failed"
    BY <1>4 DEF Conclude, device
  <2>2. Keeping' /\ FramesWhole'
    BY <1>3, <1>4, <2>1 DEF Frames, Keeping, FramesWhole
  <2> QED BY <1>4, <2>2, KeeperFrames
<1>5. ASSUME m.type = "eoe", ~Refused(m)
      PROVE  /\ m.frame + 1 \in 1 .. Len(sent.slave) /\ m.stamp = f.stamped
             /\ Taken(Extended(m).data, m, all)
             /\ IsRx(Extended(m)) /\ Extended(m).no > 0 /\ Extended(m).frame = m.frame
             /\ Extended(m).size = Blocks(Len(all)) * Block
  <2> DEFINE r == Opened(m)
  <2>1. m.frame + 1 \in 1 .. Len(sent.slave) /\ m.stamp = f.stamped /\ Piece(m, all)
    BY <1>2, <1>5 DEF Frames, Messages, ToMaster
  <2>2. IsSeq(all) /\ Len(all) \in Nat /\ Len(f.data) \in FrameSizes /\ Len(all) <= Len(f.data) + Stamp
    BY <2>1, WholeIs DEF Frames
  <2>3. Len(all) <= call.n
    <3>1. Len(f.data) \in Nat /\ Len(f.data) + Stamp <= call.n
      BY <1>1, <2>2, Room
    <3> HIDE DEF all, f
    <3> QED BY <1>2, <2>2, <3>1, BlockNumbers
  <2>4. m.no \in Nat /\ (m.no = 0 => m.at = Blocks(Len(all)))
    BY <2>1 DEF Piece
  <2>5. /\ IsRx(r) /\ r.no = m.no /\ r.frame = m.frame
        /\ m.no = 0 => r.data = << >> /\ r.size = m.at * Block
        /\ m.no > 0 => r = rxf /\ rxf.no = m.no /\ rxf.frame = m.frame /\ Len(rxf.data) = m.at * Block
    BY <1>3, <1>5, <2>4, OpenedIs
  <2>6. m.no > 0 => Begun(rxf, all) /\ rxf.size = Blocks(Len(all)) * Block
    BY <2>5 DEF Frames, Keeping, Gathers
  <2> HIDE DEF all, r, m, f
  <2>7. r.size = Blocks(Len(all)) * Block
    BY <2>4, <2>5, <2>6
  <2>8. Taken(r.data \o m.data, m, all) /\ Length(r, m) = Len(r.data \o m.data)
    <3>1. r.no > 0 => Begun(r, all) /\ Len(r.data) = m.at * Block
      BY <2>5, <2>6
    <3>2. r.no \in Nat /\ (r.no = 0 => r.data = << >>)
      BY <2>4, <2>5
    <3> QED BY <2>1, <2>2, <2>5, <3>1, <3>2, Collects
  <2>9. Length(r, m) <= call.n /\ Length(r, m) <= r.size
    <3> DEFINE d == r.data \o m.data  l == Length(r, m)  b == Blocks(Len(all)) * Block
    <3>1. Len(d) \in 0 .. Len(all) /\ l = Len(d)
      BY <2>8 DEF Taken
    <3>2. b \in Nat /\ b >= Len(all) /\ r.size = b
      BY <2>2, <2>7, BlocksReach
    <3> HIDE DEF d, l, b
    <3>3. l <= call.n /\ l <= b
      BY <1>2, <2>2, <2>3, <3>1, <3>2
    <3> QED BY <3>2, <3>3 DEF l
  <2>10. Extended(m) = [r EXCEPT !.no = @ + 1, !.data = @ \o m.data]
    BY <2>9 DEF Extended, r
  <2>11. /\ IsRx(Extended(m)) /\ Extended(m).no > 0 /\ Extended(m).data = r.data \o m.data
         /\ Extended(m).frame = m.frame /\ Extended(m).size = r.size
    BY <2>5, <2>10 DEF IsRx
  <2> QED BY <2>1, <2>7, <2>8, <2>11 DEF all, m, f
<1>6. CASE m.type = "eoe" /\ ~Refused(m) /\ m.more /\ rxf' = Extended(m) /\ Conclude("part", << >>)
  <2>1. UNCHANGED <<client, remote, sent>> /\ result'.status = "part"
    BY <1>6 DEF Conclude, device
  <2>2. /\ m.frame + 1 \in 1 .. Len(sent.slave) /\ Taken(Extended(m).data, m, all)
        /\ IsRx(Extended(m)) /\ Extended(m).no > 0 /\ Extended(m).frame = m.frame
        /\ Extended(m).size = Blocks(Len(all)) * Block
    BY <1>5, <1>6
  <2>3. Gathers(Extended(m), sent)
    BY <1>6, <2>2, TakenGathers
  <2>4. Keeping'
    <3> HIDE DEF m
    <3>1. rxf' = Extended(m)
      BY <1>6 DEF m
    <3> QED BY <2>1, <2>2, <2>3, <3>1 DEF Keeping, all, f
  <2>5. FramesWhole'
    BY <2>1 DEF Frames, FramesWhole
  <2> QED BY <1>6, <2>4, <2>5, KeeperFrames
<1>7. CASE m.type = "eoe" /\ ~Refused(m) /\ ~m.more /\ rxf' = NoRx /\ Conclude("ok", Unstamped(Extended(m).data, m))
  <2>1. UNCHANGED <<client, remote, sent>> /\ result'.data = Unstamped(Extended(m).data, m)
    BY <1>7 DEF Conclude, device
  <2>2. m.frame + 1 \in 1 .. Len(sent.slave) /\ m.stamp = f.stamped /\ Extended(m).data = all
    BY <1>5, <1>7 DEF Taken
  <2>3. Unstamped(all, m) = f.data
    BY <2>2, WholeIs DEF Frames
  <2>4. result'.data = f.data
    BY <2>1, <2>2, <2>3
  <2>5. DOMAIN sent.slave = 1 .. Len(sent.slave)
    BY DEF Frames, Shape, IsSeq
  <2>6. FramesWhole'
    BY <2>1, <2>2, <2>4, <2>5 DEF Frames, FramesWhole
  <2>7. Keeping'
    BY <1>3, <1>7, <2>1 DEF Keeping
  <2> QED BY <1>7, <2>6, <2>7, KeeperFrames
<1>8. \/ Conclude("failed", << >>) /\ rxf' \in {rxf, NoRx}
      \/ m.type = "eoe" /\ ~Refused(m) /\ m.more /\ rxf' = Extended(m) /\ Conclude("part", << >>)
      \/ m.type = "eoe" /\ ~Refused(m) /\ ~m.more /\ rxf' = NoRx /\ Conclude("ok", Unstamped(Extended(m).data, m))
  BY Zenon DEF EOEreadfragment, Quietly, Failed, Unexpected, Refused, Extended, Opened, Kept
<1> QED BY <1>4, <1>6, <1>7, <1>8
-----------------------------------------------------------------------------
(* The slave answers FoE, SoE and IP requests; its frames stay as they are. *)
Device(r) ==
  /\ DOMAIN r = {"file", "idn", "ip", "xfer", "rest", "no", "rx", "frames", "frameno"}
  /\ IsSeq(r.file) /\ IsSeq(r.idn) /\ IsSeq(r.rest) /\ IsSeq(r.frames)

Like(r, s) == Device(r) /\ r.rx = s.rx /\ r.frames = s.frames /\ r.frameno = s.frameno

LEMMA AnswerFrames ==
  ASSUME Frames, NEW q, Queued(q, sent, client), Answer(q),
         Device(remote'), remote'.frameno = remote.frameno, Hearing', FramesWhole'
  PROVE  Frames'
<1>1. UNCHANGED <<client, pc, call, calls, p, result, number, rx, rxf, txframeno, sent>>
  BY DEF Answer, program, transfer
<1>2. /\ UNCHANGED <<mbxOut, mbxIn, sm1, lastout>> /\ sm0' = None /\ outq' = outq \o q
  BY DEF Answer, Take, master
<1>3. Messages'
  <2>1. Queued(outq \o q, sent, client)
    BY QueuedJoin DEF Frames, Messages
  <2> QED BY <1>1, <1>2, <2>1, NothingSent DEF Frames, Messages
<1>4. Course' /\ Writing' /\ Sending'
  BY <1>1 DEF Frames, Course, Writing, Sending
<1>5. Numbered' /\ Shape'
  BY <1>1 DEF Frames, Numbered, Shape, Device
<1>6. Reading' /\ Keeping'
  BY <1>1 DEF Frames, Reading, Keeping
<1> QED BY <1>3, <1>4, <1>5, <1>6 DEF Frames

LEMMA PlainAnswerFrames ==
  ASSUME Frames, NEW q, Queued(q, sent, client), Answer(q), Like(remote', remote)
  PROVE  Frames'
<1>1. UNCHANGED <<result, sent>>
  BY DEF Answer, program
<1>2. Hearing' /\ FramesWhole'
  BY <1>1 DEF Frames, Hearing, FramesWhole, Like
<1> QED BY <1>2, AnswerFrames DEF Like

(* An answer that is no frame.                                              *)
LEMMA PlainQueued ==
  ASSUME NEW a, a \in {"foe", "soe"}, NEW b, NEW n, NEW d, NEW s, NEW c
  PROVE  Queued(<<Msg(a, b, n, d)>>, s, c)
<1>1. Msg(a, b, n, d).type # "eoe"
  BY DEF Msg
<1>2. ToMaster(Msg(a, b, n, d), s, c)
  BY <1>1 DEF ToMaster
<1> QED BY <1>2, QueuedOne

LEMMA LikeIs ==
  ASSUME Device(remote)
  PROVE  /\ Like(remote, remote)
         /\ \A x : Like([remote EXCEPT !.xfer = x], remote)
         /\ \A x, d, n : IsSeq(d) => Like([remote EXCEPT !.xfer = x, !.rest = d, !.no = n], remote)
         /\ \A x, d : IsSeq(d) => Like([remote EXCEPT !.xfer = x, !.rest = d], remote)
         /\ \A d, n : IsSeq(d) => Like([remote EXCEPT !.rest = d, !.no = n], remote)
         /\ \A x, d : IsSeq(d) => Like([remote EXCEPT !.file = d, !.xfer = x], remote)
         /\ \A x, d : IsSeq(d) => Like([remote EXCEPT !.xfer = x, !.idn = d], remote)
         /\ \A x : Like([remote EXCEPT !.ip = x], remote)
<1>1. Like(remote, remote) /\ \A x : Like([remote EXCEPT !.xfer = x], remote)
  BY DEF Like, Device
<1>2. \A x, d, n : IsSeq(d) => Like([remote EXCEPT !.xfer = x, !.rest = d, !.no = n], remote)
  BY DEF Like, Device
<1>3. \A x, d : IsSeq(d) => Like([remote EXCEPT !.xfer = x, !.rest = d], remote)
  BY DEF Like, Device
<1>4. \A d, n : IsSeq(d) => Like([remote EXCEPT !.rest = d, !.no = n], remote)
  BY DEF Like, Device
<1>5. \A x, d : IsSeq(d) => Like([remote EXCEPT !.file = d, !.xfer = x], remote)
  BY DEF Like, Device
<1>6. \A x, d : IsSeq(d) => Like([remote EXCEPT !.xfer = x, !.idn = d], remote)
  BY DEF Like, Device
<1>7. \A x : Like([remote EXCEPT !.ip = x], remote)
  BY DEF Like, Device
<1> QED BY <1>1, <1>2, <1>3, <1>4, <1>5, <1>6, <1>7

LEMMA ServeFileFrames ==
  ASSUME Frames, ServeFile
  PROVE  Frames'
<1>1. Device(remote) /\ IsSeq(remote.rest) /\ IsSeq(remote.file)
  BY DEF Frames, Shape, Device
<1>2. \A b, n, d : Queued(<<Msg("foe", b, n, d)>>, sent, client)
  BY PlainQueued
<1>3. Queued(<< >>, sent, client) /\ IsSeq(<< >>)
  BY QueuedNone, EmptyIs
<1>4. sm0.op = "data" => IsSeq(sm0.data) /\ IsSeq(remote.rest \o sm0.data)
  <2>1. ToSlave(sm0, sent, client) /\ sm0.type = "foe"
    BY DEF Frames, Messages, ServeFile
  <2>2. sm0.op = "data" => IsSeq(sm0.data)
    BY <2>1 DEF ToSlave
  <2> QED BY <1>1, <2>2, JoinIs
<1>5. IsSeq(Rest(remote.rest, MaxFile))
  BY <1>1, PartsAre, BulkAssumption DEF BulkAssumption
<1> DEFINE Plain == \E q : Queued(q, sent, client) /\ Answer(q) /\ Like(remote', remote)
<1>6. CASE sm0.op = "FOEread"
  <2>1. CASE /\ Answer(<<FilePacket(remote.file, 1)>>)
             /\ remote' = [remote EXCEPT !.xfer = "send", !.rest = remote.file, !.no = 1]
    <3>1. Like(remote', remote)
      BY <1>1, <2>1, LikeIs
    <3>2. Queued(<<FilePacket(remote.file, 1)>>, sent, client)
      BY <1>2 DEF FilePacket
    <3> QED BY <2>1, <3>1, <3>2, PlainAnswerFrames
  <2>2. CASE Answer(<<Msg("foe", "error", 0, << >>)>>) /\ UNCHANGED remote
    <3>1. Like(remote', remote)
      BY <1>1, <2>2, LikeIs
    <3> QED BY <1>2, <2>2, <3>1, PlainAnswerFrames
  <2> QED BY <1>6, <2>1, <2>2 DEF ServeFile
<1>7. CASE sm0.op = "ack"
  <2>1. CASE /\ Answer(<<FilePacket(Rest(remote.rest, MaxFile), remote.no + 1)>>)
             /\ remote' = [remote EXCEPT !.rest = Rest(@, MaxFile), !.no = @ + 1]
    <3>1. Like(remote', remote)
      BY <1>1, <1>5, <2>1, LikeIs
    <3>2. Queued(<<FilePacket(Rest(remote.rest, MaxFile), remote.no + 1)>>, sent, client)
      BY <1>2 DEF FilePacket
    <3> QED BY <2>1, <3>1, <3>2, PlainAnswerFrames
  <2>2. CASE \/ Answer(<< >>) /\ remote' = [remote EXCEPT !.xfer = "none"]
             \/ Answer(<<Msg("foe", "error", 0, << >>)>>) /\ remote' = [remote EXCEPT !.xfer = "none"]
    <3>1. Like(remote', remote)
      BY <1>1, <2>2, LikeIs
    <3> QED BY <1>2, <1>3, <2>2, <3>1, PlainAnswerFrames
  <2> QED BY <1>7, <2>1, <2>2 DEF ServeFile
<1>8. CASE sm0.op = "FOEwrite"
  <2>1. /\ Answer(<<Msg("foe", "ack", 0, << >>)>>)
        /\ remote' = [remote EXCEPT !.xfer = "take", !.rest = << >>, !.no = 0]
    BY <1>8 DEF ServeFile
  <2>2. Like(remote', remote)
    BY <1>1, <1>3, <2>1, LikeIs
  <2> QED BY <1>2, <2>1, <2>2, PlainAnswerFrames
<1>9. CASE sm0.op = "data"
  <2>1. CASE /\ Answer(<<Msg("foe", "ack", sm0.no, << >>)>>)
             /\ remote' = IF Len(sm0.data) < MaxFile
                           THEN [remote EXCEPT !.file = remote.rest \o sm0.data, !.xfer = "none"]
                           ELSE [remote EXCEPT !.rest = @ \o sm0.data, !.no = @ + 1]
    <3>1. IsSeq(remote.rest \o sm0.data)
      BY <1>4, <1>9
    <3>2. CASE remote' = [remote EXCEPT !.file = remote.rest \o sm0.data, !.xfer = "none"]
      <4>1. Like(remote', remote)
        BY <1>1, <3>1, <3>2, LikeIs
      <4> QED BY <1>2, <2>1, <4>1, PlainAnswerFrames
    <3>3. CASE remote' = [remote EXCEPT !.rest = @ \o sm0.data, !.no = @ + 1]
      <4>1. Like(remote', remote)
        BY <1>1, <3>1, <3>3, LikeIs
      <4> QED BY <1>2, <2>1, <4>1, PlainAnswerFrames
    <3> QED BY <2>1, <3>2, <3>3
  <2>2. CASE Answer(<<Msg("foe", "busy", 0, << >>)>>) /\ UNCHANGED remote
    <3>1. Like(remote', remote)
      BY <1>1, <2>2, LikeIs
    <3> QED BY <1>2, <2>2, <3>1, PlainAnswerFrames
  <2>3. CASE Answer(<<Msg("foe", "error", 0, << >>)>>) /\ remote' = [remote EXCEPT !.xfer = "none"]
    <3>1. Like(remote', remote)
      BY <1>1, <2>3, LikeIs
    <3> QED BY <1>2, <2>3, <3>1, PlainAnswerFrames
  <2> QED BY <1>9, <2>1, <2>2, <2>3 DEF ServeFile
<1> QED BY <1>6, <1>7, <1>8, <1>9 DEF ServeFile

LEMMA IdnQueued ==
  ASSUME IsSeq(remote.idn)
  PROVE  Queued(IdnFragments, sent, client)
<1> DEFINE n == IF remote.idn = << >> THEN 1 ELSE (Len(remote.idn) + MaxData - 1) \div MaxData
           g(k) == Msg("soe", "readanswer", 0, First(Rest(remote.idn, (k - 1) * MaxData), MaxData))
           f == [k \in 1 .. n |-> [g(k) EXCEPT !.more = k < n]]
<1>1. n \in Nat
  <2>1. Len(remote.idn) \in Nat /\ MaxData \in Nat \ {0}
    BY BlockNumbers DEF IsSeq
  <2>2. Len(remote.idn) + MaxData - 1 \in Nat
    BY <2>1
  <2>3. (Len(remote.idn) + MaxData - 1) \div MaxData \in Nat
    BY <2>1, <2>2, DivBelow
  <2> QED BY <2>3
<1>2. IdnFragments = f
  BY DEF IdnFragments
<1>3. ASSUME NEW k \in 1 .. n PROVE f[k].type = "soe"
  BY DEF Msg
<1> HIDE DEF n, f
<1>4. f = [k \in 1 .. n |-> f[k]]
  BY DEF f
<1>5. f \in Seq({f[k] : k \in 1 .. n}) /\ Len(f) = n
  BY <1>1, <1>4
<1>6. IsSeq(f)
  BY <1>5, SeqIs
<1>7. \A k \in 1 .. n : ToMaster(f[k], sent, client)
  BY <1>3 DEF ToMaster
<1> QED BY <1>2, <1>5, <1>6, <1>7 DEF Queued

LEMMA ServeIdnFrames ==
  ASSUME Frames, ServeIdn
  PROVE  Frames'
<1>1. Device(remote) /\ IsSeq(remote.rest) /\ IsSeq(remote.idn)
  BY DEF Frames, Shape, Device
<1>2. \A b, n, d : Queued(<<Msg("soe", b, n, d)>>, sent, client)
  BY PlainQueued
<1>3. Queued(<< >>, sent, client) /\ Queued(IdnFragments, sent, client)
  BY <1>1, QueuedNone, IdnQueued
<1>4. sm0.op = "write" => IsSeq(sm0.data) /\ IsSeq(remote.rest \o sm0.data)
  <2>1. ToSlave(sm0, sent, client) /\ sm0.type = "soe"
    BY DEF Frames, Messages, ServeIdn
  <2>2. sm0.op = "write" => IsSeq(sm0.data)
    BY <2>1 DEF ToSlave
  <2> QED BY <1>1, <2>2, JoinIs
<1> DEFINE d == IF remote.xfer = "idn" THEN remote.rest \o sm0.data ELSE sm0.data
<1>5. sm0.op = "write" => IsSeq(d)
  BY <1>4
<1> HIDE DEF d
<1>6. CASE sm0.op = "SoEread"
  <2>1. Like(remote', remote)
    BY <1>1, <1>6, LikeIs DEF ServeIdn
  <2>2. Answer(IdnFragments) \/ Answer(<<Msg("soe", "error", 0, << >>)>>)
    BY <1>6 DEF ServeIdn
  <2> QED BY <1>2, <1>3, <2>1, <2>2, PlainAnswerFrames
<1>7. CASE sm0.op = "write" /\ sm0.more
  <2>1. Answer(<< >>) /\ remote' = [remote EXCEPT !.xfer = "idn", !.rest = d]
    BY <1>7 DEF ServeIdn, d
  <2>2. Like(remote', remote)
    BY <1>1, <1>5, <1>7, <2>1, LikeIs
  <2> QED BY <1>3, <2>1, <2>2, PlainAnswerFrames
<1>8. CASE sm0.op = "write" /\ ~sm0.more
  <2>1. Answer(<<Msg("soe", "writeanswer", 0, << >>)>>) /\ remote' = [remote EXCEPT !.xfer = "none", !.idn = d]
    BY <1>8 DEF ServeIdn, d
  <2>2. Like(remote', remote)
    BY <1>1, <1>5, <1>8, <2>1, LikeIs
  <2> QED BY <1>2, <2>1, <2>2, PlainAnswerFrames
<1> QED BY <1>6, <1>7, <1>8 DEF ServeIdn

(* It puts the frames of the master together.                               *)
Heard == IF sm0.no = 0 THEN [NoRx EXCEPT !.frame = sm0.frame] ELSE remote.rx
Fits == Heard.no = sm0.no /\ Heard.frame = sm0.frame /\ (sm0.no > 0 => Len(Heard.data) = sm0.at * Block)
Longer == [Heard EXCEPT !.no = @ + 1, !.data = @ \o sm0.data]

LEMMA ServeFrameFrames ==
  ASSUME Frames, ServeFrame
  PROVE  Frames'
<1> DEFINE all == sent.master[sm0.frame]
<1>1. Device(remote) /\ IsRx(remote.rx) /\ IsSeq(remote.frames) /\ remote.rx.no \in Nat
  BY DEF Frames, Shape, Device, Hearing, IsRx
<1>2. ToSlave(sm0, sent, client) /\ sm0.type = "eoe" /\ client \in Clients
  BY DEF Frames, Messages, ServeFrame, Course
<1>3. CASE sm0.op \in {"EOEsetIp", "EOEgetIp"}
  <2>1. ~Listens(client)
    BY <1>2, <1>3 DEF ToSlave
  <2>2. \A m : Queued(<<m>>, sent, client)
    BY <2>1, QueuedOne DEF ToMaster
  <2>3. Like(remote', remote)
    BY <1>1, <1>3, LikeIs DEF ServeFrame
  <2>4. \E m : Answer(<<m>>)
    BY <1>3 DEF ServeFrame
  <2> QED BY <2>2, <2>3, <2>4, PlainAnswerFrames
<1>4. CASE sm0.op = "frame"
  <2>1. /\ Answer(<< >>)
        /\ remote' = IF ~Fits THEN [remote EXCEPT !.rx = NoRx]
                     ELSE IF sm0.more THEN [remote EXCEPT !.rx = Longer]
                     ELSE [remote EXCEPT !.rx = NoRx, !.frames = Append(@, Longer.data)]
    BY <1>4, Zenon DEF ServeFrame, Fits, Longer, Heard
  <2>2. UNCHANGED <<result, sent>> /\ Queued(<< >>, sent, client)
    BY <2>1, QueuedNone DEF Answer, program
  <2>3. sm0.frame \in 1 .. Len(sent.master) /\ Piece(sm0, all) /\ IsSeq(all) /\ sm0.no \in Nat
    <3>1. sm0.frame \in 1 .. Len(sent.master) /\ Piece(sm0, all)
      BY <1>2, <1>4 DEF ToSlave
    <3> QED BY <3>1 DEF Frames, Shape, Piece
  <2>4. DOMAIN sent.master = 1 .. Len(sent.master) /\ DOMAIN remote.frames = 1 .. Len(remote.frames)
    BY DEF Frames, Shape, IsSeq
  <2>5. ASSUME Fits
        PROVE  /\ IsRx(Longer) /\ Longer.no > 0 /\ Longer.frame = sm0.frame
               /\ Taken(Longer.data, sm0, all)
    <3> DEFINE r == Heard
    <3>1. /\ IsRx(r) /\ r.no = sm0.no /\ r.frame = sm0.frame
          /\ r.no = 0 => r.data = << >>
          /\ r.no > 0 => r = remote.rx /\ Len(r.data) = sm0.at * Block
      <4>1. CASE sm0.no = 0
        <5>1. r = [NoRx EXCEPT !.frame = sm0.frame]
          BY <4>1 DEF Heard
        <5> QED BY <2>5, <4>1, <5>1 DEF NoRx, IsRx, Fits
      <4>2. CASE sm0.no > 0
        <5>1. r = remote.rx
          BY <2>3, <4>2 DEF Heard
        <5> QED BY <1>1, <2>3, <2>5, <4>2, <5>1 DEF Fits
      <4>3. sm0.no = 0 \/ sm0.no > 0
        BY <2>3
      <4> QED BY ONLY <4>1, <4>2, <4>3, Zenon
    <3>2. r.no > 0 => Begun(r, all)
      BY <3>1 DEF Frames, Hearing
    <3> HIDE DEF r, all
    <3>3. Taken(r.data \o sm0.data, sm0, all)
      BY <2>3, <3>1, <3>2, Collects
    <3>4. Longer = [r EXCEPT !.no = @ + 1, !.data = @ \o sm0.data]
      BY DEF Longer, r
    <3>5. IsRx(Longer) /\ Longer.no > 0 /\ Longer.frame = sm0.frame /\ Longer.data = r.data \o sm0.data
      BY <2>3, <3>1, <3>4 DEF IsRx
    <3> QED BY <3>3, <3>5
  <2>6. IsRx(NoRx) /\ NoRx.no = 0
    BY NoRxIs
  <2>7. CASE remote' = [remote EXCEPT !.rx = NoRx]
    <3>1. Device(remote') /\ remote'.frameno = remote.frameno /\ remote'.rx = NoRx /\ remote'.frames = remote.frames
      BY <1>1, <2>7 DEF Device
    <3>2. Hearing' /\ FramesWhole'
      BY <2>2, <2>6, <3>1 DEF Frames, Hearing, FramesWhole
    <3> QED BY <2>1, <2>2, <3>1, <3>2, AnswerFrames
  <2>8. CASE Fits /\ sm0.more /\ remote' = [remote EXCEPT !.rx = Longer]
    <3>1. Device(remote') /\ remote'.frameno = remote.frameno /\ remote'.rx = Longer /\ remote'.frames = remote.frames
      BY <1>1, <2>8 DEF Device
    <3>2. /\ IsRx(Longer) /\ Longer.no > 0 /\ Longer.frame = sm0.frame /\ Begun(Longer, all)
      BY <2>5, <2>8 DEF Taken, Begun
    <3>3. Hearing'
      BY <2>2, <2>3, <3>1, <3>2 DEF Hearing
    <3>4. FramesWhole'
      BY <2>2, <3>1 DEF Frames, FramesWhole
    <3> QED BY <2>1, <2>2, <3>1, <3>3, <3>4, AnswerFrames
  <2>9. CASE Fits /\ ~sm0.more /\ remote' = [remote EXCEPT !.rx = NoRx, !.frames = Append(@, Longer.data)]
    <3> DEFINE fs == Append(remote.frames, Longer.data)
    <3>1. /\ IsSeq(fs) /\ Len(fs) = Len(remote.frames) + 1 /\ fs[Len(remote.frames) + 1] = Longer.data
          /\ \A k \in 1 .. Len(remote.frames) : fs[k] = remote.frames[k]
      BY <1>1, AppendIs
    <3> HIDE DEF fs
    <3>2. remote' = [remote EXCEPT !.rx = NoRx, !.frames = fs]
      BY <2>9 DEF fs
    <3>3. Device(remote') /\ remote'.frameno = remote.frameno /\ remote'.rx = NoRx /\ remote'.frames = fs
      BY <1>1, <3>1, <3>2 DEF Device
    <3>4. Longer.data = all
      BY <2>5, <2>9 DEF Taken
    <3>5. Hearing'
      BY <2>6, <3>3 DEF Hearing
    <3>6. DOMAIN fs = 1 .. Len(remote.frames) + 1 /\ Len(remote.frames) \in Nat
      BY <1>1, <3>1 DEF IsSeq
    <3>7. ASSUME NEW k \in DOMAIN fs PROVE \E j \in DOMAIN sent.master : fs[k] = sent.master[j]
      <4>1. CASE k = Len(remote.frames) + 1
        BY <2>3, <2>4, <3>1, <3>4, <4>1
      <4>2. CASE k \in DOMAIN remote.frames
        BY <2>4, <3>1, <4>2 DEF Frames, FramesWhole
      <4> QED BY <2>4, <3>6, <4>1, <4>2
    <3>8. FramesWhole'
      BY <2>2, <3>3, <3>7 DEF Frames, FramesWhole
    <3> QED BY <2>1, <2>2, <3>3, <3>5, <3>8, AnswerFrames
  <2> QED BY <2>1, <2>7, <2>8, <2>9
<1> QED BY <1>3, <1>4 DEF ServeFrame
-----------------------------------------------------------------------------
(* The slave sends a frame: its fragments are pieces of it.                 *)
LEMMA StampedIs ==
  ASSUME NEW all, NEW i, NEW m, FragmentAt(m, all, i), IsMsg(m), NEW x, NEW k, k = [m EXCEPT !.stamp = x]
  PROVE  k.frame = m.frame /\ k.stamp = x /\ Piece(k, all)
<1>1. /\ k.data = m.data /\ k.frame = m.frame /\ k.stamp = x
      /\ k.no = m.no /\ k.at = m.at /\ k.more = m.more
  BY DEF IsMsg
<1>2. Piece(k, all)
  BY <1>1 DEF FragmentAt, Piece
<1> QED BY <1>1, <1>2

(* Where the k-th fragment begins.                                          *)
LEMMA FragmentBegins ==
  ASSUME NEW n \in Nat
  PROVE  LET len == (MaxData \div Block) * Block
             count == IF n <= MaxData THEN 1 ELSE 1 + ((n - MaxData + len - 1) \div len)
         IN  /\ count \in Nat
             /\ \A k \in 1 .. count : (k - 1) * len \in 0 .. n /\ Aligned((k - 1) * len)
<1> DEFINE w == MaxData \div Block
           len == w * Block
           count == IF n <= MaxData THEN 1 ELSE 1 + ((n - MaxData + len - 1) \div len)
<1>1. Block \in Nat \ {0} /\ MaxData \in Nat /\ w \in Nat \ {0} /\ len \in Nat \ {0} /\ len <= MaxData
  <2>1. Block \in Nat \ {0} /\ MaxData \in Nat /\ MaxData >= Block
    BY BlockNumbers
  <2>2. w \in Nat /\ w * Block <= MaxData /\ MaxData < w * Block + Block
    BY <2>1, DivBelow
  <2> HIDE DEF w
  <2>3. w # 0
    <3>1. w = 0 => w * Block = 0
      BY <2>1
    <3> QED BY <2>1, <2>2, <3>1
  <2>4. w * Block \in Nat /\ w * Block # 0
    BY <2>1, <2>2, <2>3
  <2> QED BY <2>1, <2>2, <2>3, <2>4
<1> HIDE DEF w
<1>2. ASSUME NEW j \in Nat PROVE Aligned(j * len)
  <2>1. j * len = (j * w) * Block /\ j * w \in Nat
    BY <1>1
  <2>2. ((j * w) * Block) \div Block = j * w
    BY <1>1, <2>1, DivMul
  <2> QED BY <2>1, <2>2 DEF Aligned
<1> HIDE DEF len
<1>3. CASE n <= MaxData
  <2>1. count = 1
    BY <1>3
  <2>2. ASSUME NEW k \in 1 .. count PROVE (k - 1) * len \in 0 .. n /\ Aligned((k - 1) * len)
    <3>1. k - 1 = 0 /\ 0 * len = 0
      BY <1>1, <2>1
    <3> QED BY <1>2, <3>1, 0 \in Nat
  <2> QED BY <2>1, <2>2 DEF len, w
<1>4. CASE n > MaxData
  <2> DEFINE b == (n - MaxData + len - 1) \div len
  <2>1. b \in Nat /\ b * len <= n - MaxData + len - 1
    <3>1. n - MaxData + len - 1 \in Nat
      BY <1>1, <1>4
    <3> QED BY <1>1, <3>1, DivBelow
  <2>2. count = 1 + b
    BY <1>1, <1>4
  <2> HIDE DEF b, count
  <2>3. b * len <= n /\ b * len \in Nat
    <3>1. b * len \in Nat
      BY <1>1, <2>1
    <3> QED BY <1>1, <1>4, <2>1, <3>1
  <2>4. ASSUME NEW k \in 1 .. count PROVE (k - 1) * len \in 0 .. n /\ Aligned((k - 1) * len)
    <3>1. k - 1 \in Nat /\ k - 1 <= b
      BY <2>1, <2>2
    <3>2. (k - 1) * len <= b * len /\ (k - 1) * len \in Nat
      <4> DEFINE j == k - 1
      <4>1. j \in Nat /\ j <= b
        BY <3>1
      <4> HIDE DEF j
      <4>2. j * len <= b * len /\ j * len \in Nat
        BY <1>1, <2>1, <4>1
      <4> QED BY <4>2 DEF j
    <3> QED BY <1>2, <2>3, <3>1, <3>2
  <2>5. count \in Nat
    BY <2>1, <2>2
  <2> QED BY <2>4, <2>5 DEF count, len, w
<1>5. n <= MaxData \/ n > MaxData
  BY <1>1
<1> QED BY ONLY <1>3, <1>4, <1>5 DEF count, len, w

LEMMA SlaveFrameFrames ==
  ASSUME Frames, SlaveFrame
  PROVE  Frames'
<1>1. PICK n \in FrameSizes, stamped \in BOOLEAN :
       LET d == Bytes(<<"slave", remote.frameno>>, n)
           all == IF stamped THEN d \o [b \in 1 .. Stamp |-> <<"stamp">>] ELSE d
           len == (MaxData \div Block) * Block
           count == IF Len(all) <= MaxData THEN 1 ELSE 1 + ((Len(all) - MaxData + len - 1) \div len)
           tail(k) == Rest(all, (k - 1) * len)
       IN /\ sent' = [sent EXCEPT !.slave = Append(@, [data |-> d, stamped |-> stamped])]
          /\ outq' = outq \o [k \in 1 .. count |->
               [Fragment(tail(k), k - 1, remote.frameno % FrameNos, Len(all)) EXCEPT !.stamp = stamped]]
          /\ remote' = [remote EXCEPT !.frameno = @ + 1]
  BY DEF SlaveFrame
<1> DEFINE d == Bytes(<<"slave", remote.frameno>>, n)
           f == [data |-> d, stamped |-> stamped]
           all == IF stamped THEN d \o [b \in 1 .. Stamp |-> <<"stamp">>] ELSE d
           len == (MaxData \div Block) * Block
           count == IF Len(all) <= MaxData THEN 1 ELSE 1 + ((Len(all) - MaxData + len - 1) \div len)
           new == Len(sent.slave)
           piece(k) == [Fragment(Rest(all, (k - 1) * len), k - 1, remote.frameno % FrameNos, Len(all)) EXCEPT !.stamp = stamped]
           q == [k \in 1 .. count |-> piece(k)]
<1>2. /\ UNCHANGED <<client, pc, call, calls, p, result, number, rx, rxf, txframeno>>
      /\ UNCHANGED <<mbxOut, mbxIn, sm0, sm1, lastout>>
      /\ Len(sent.slave) < MaxFrames
  BY DEF SlaveFrame, program, transfer, master
<1>3. /\ sent' = [sent EXCEPT !.slave = Append(@, f)] /\ outq' = outq \o q
      /\ remote' = [remote EXCEPT !.frameno = @ + 1]
  BY <1>1
<1>4. n \in Nat /\ n \in FrameSizes
  BY BulkAssumption DEF BulkAssumption
<1>5. IsSeq(d) /\ Len(d) = n
  BY <1>4, BytesIs
<1>6. new \in Nat /\ remote.frameno = new /\ remote.frameno % FrameNos = new /\ new + 1 <= MaxFrames
  <2>1. new \in Nat /\ remote.frameno = new
    BY DEF Frames, Shape, Numbered, IsSeq
  <2>2. FrameNos \in Nat \ {0} /\ MaxFrames \in Nat /\ MaxFrames <= FrameNos
    BY ProgramNumbers DEF Frames, Course
  <2> HIDE DEF new
  <2>3. new < FrameNos /\ new < 2 * FrameNos /\ new + 1 <= MaxFrames
    BY <1>2, <2>1, <2>2 DEF new
  <2>4. new % FrameNos = new
    BY <2>1, <2>2, <2>3, ModOnce
  <2> QED BY <2>1, <2>3, <2>4
<1>7. all = Whole(f)
  BY DEF Whole, StampBytes
<1>8. IsSeq(all) /\ Len(all) \in Nat
  <2>1. IsSeq(d \o StampBytes)
    BY <1>5, Unstamp
  <2>2. all = d \/ all = d \o StampBytes
    BY DEF StampBytes
  <2>3. IsSeq(all)
    BY <1>5, <2>1, <2>2
  <2> QED BY <2>3 DEF IsSeq
<1> HIDE DEF all, d
<1>9. /\ DOMAIN sent = {"slave", "master"} /\ IsSeq(sent.slave) /\ IsSeq(sent.master)
      /\ \A k \in 1 .. new : IsSeq(sent.slave[k].data) /\ Len(sent.slave[k].data) \in FrameSizes
  BY DEF Frames, Shape
<1> DEFINE slaves == Append(sent.slave, f)
<1>10. /\ IsSeq(slaves) /\ Len(slaves) = new + 1 /\ slaves[new + 1] = f
       /\ \A k \in 1 .. new : slaves[k] = sent.slave[k]
  BY <1>9, AppendIs
<1>11. sent'.slave = slaves /\ sent'.master = sent.master /\ DOMAIN sent' = {"slave", "master"}
  BY <1>3, <1>9
<1>12. f.data = d /\ f.stamped = stamped
  OBVIOUS
<1> HIDE DEF f, slaves
<1>13. /\ \A m : ToMaster(m, sent, client) => ToMaster(m, sent', client)
       /\ \A r : Queued(r, sent, client) => Queued(r, sent', client)
       /\ \A r : Gathers(r, sent) => Gathers(r, sent')
  BY <1>9, <1>11, SlaveSends DEF slaves
<1>14. \A m : ToSlave(m, sent, client) => ToSlave(m, sent', client)
  BY <1>11 DEF ToSlave
<1>15. Queued(q, sent', client)
  <2>1. count \in Nat /\ \A k \in 1 .. count : (k - 1) * len \in 0 .. Len(all) /\ Aligned((k - 1) * len)
    BY <1>8, FragmentBegins
  <2> HIDE DEF count, len
  <2>2. ASSUME NEW k \in 1 .. count PROVE ToMaster(piece(k), sent', client)
    <3> DEFINE i == (k - 1) * len
               m == Fragment(Rest(all, i), k - 1, new, Len(all))
    <3>1. i \in 0 .. Len(all) /\ Aligned(i) /\ k - 1 \in Nat /\ (k - 1 = 0 => i = 0)
      <4>1. len \in Int
        BY BlockNumbers DEF len
      <4>2. k - 1 = 0 => i = 0
        BY <4>1
      <4> QED BY <2>1, <4>2
    <3>2. piece(k) = [m EXCEPT !.stamp = stamped]
      BY <1>6
    <3> HIDE DEF i
    <3>3. FragmentAt(m, all, i) /\ m.frame = new
      BY <1>8, <3>1, FragmentIs
    <3>4. IsMsg(m)
      BY DEF Fragment, Msg, IsMsg
    <3> HIDE DEF m
    <3> DEFINE x == [m EXCEPT !.stamp = stamped]
    <3>5. x.frame = m.frame /\ x.stamp = stamped /\ Piece(x, all)
      <4>1. PICK k0 : k0 = x
        OBVIOUS
      <4> QED BY <3>3, <3>4, <4>1, StampedIs
    <3> HIDE DEF x
    <3>6. x.frame + 1 \in 1 .. Len(sent'.slave) /\ sent'.slave[x.frame + 1] = f
      BY <1>6, <1>10, <1>11, <3>3, <3>5
    <3>7. ToMaster(x, sent', client)
      BY <1>7, <1>12, <3>5, <3>6 DEF ToMaster
    <3> QED BY <3>2, <3>7 DEF x
  <2> HIDE DEF piece
  <2>3. IsSeq(q) /\ Len(q) = count
    <3>1. q \in Seq({piece(k) : k \in 1 .. count}) /\ Len(q) = count
      BY <2>1
    <3> QED BY <3>1, SeqIs
  <2>4. \A k \in 1 .. Len(q) : ToMaster(q[k], sent', client)
    BY <2>2, <2>3
  <2> QED BY <2>3, <2>4 DEF Queued
<1> HIDE DEF q
<1>16. Messages'
  <2>1. Queued(outq \o q, sent', client)
    BY <1>13, <1>15, QueuedJoin DEF Frames, Messages
  <2> QED BY <1>2, <1>3, <1>13, <1>14, <2>1 DEF Frames, Messages
<1>17. /\ Device(remote') /\ remote'.frameno = new + 1 /\ remote'.rx = remote.rx /\ remote'.frames = remote.frames
  BY <1>3, <1>6 DEF Frames, Shape, Device
<1>18. Course' /\ Writing'
  BY <1>2 DEF Frames, Course, Writing
<1>19. Numbered'
  <2>1. Len(sent'.slave) = new + 1 /\ sent'.master = sent.master
    BY <1>10, <1>11
  <2> QED BY <1>2, <1>6, <1>17, <2>1 DEF Frames, Numbered
<1>20. Shape'
  <2>1. ASSUME NEW k \in 1 .. new + 1
        PROVE  IsSeq(slaves[k].data) /\ Len(slaves[k].data) \in FrameSizes
    <3>1. CASE k = new + 1
      BY <1>4, <1>5, <1>10, <1>12, <3>1
    <3>2. CASE k \in 1 .. new
      BY <1>9, <1>10, <3>2
    <3> QED BY <1>6, <3>1, <3>2
  <2> QED BY <1>9, <1>10, <1>11, <1>17, <2>1 DEF Frames, Shape, Device
<1>21. Sending'
  BY <1>2, <1>11 DEF Frames, Sending
<1>22. Reading' /\ Keeping'
  <2>1. ASSUME NEW r, Gathers(r, sent), r.no > 0
        PROVE  Whole(sent'.slave[r.frame + 1]) = Whole(sent.slave[r.frame + 1])
    <3>1. r.frame + 1 \in 1 .. new
      BY <2>1 DEF Gathers
    <3> QED BY <1>10, <1>11, <3>1
  <2> QED BY <1>2, <1>13, <2>1 DEF Frames, Reading, Keeping
<1>23. Hearing'
  BY <1>11, <1>17 DEF Frames, Hearing
<1>24. FramesWhole'
  <2>1. DOMAIN sent.slave = 1 .. new /\ DOMAIN slaves = 1 .. new + 1
    BY <1>9, <1>10 DEF IsSeq
  <2>2. \A k \in DOMAIN sent.slave : k \in DOMAIN slaves /\ slaves[k] = sent.slave[k]
    BY <1>6, <1>10, <2>1
  <2> QED BY <1>2, <1>11, <1>17, <2>2 DEF Frames, FramesWhole
<1> QED BY <1>16, <1>18, <1>19, <1>20, <1>21, <1>22, <1>23, <1>24 DEF Frames
-----------------------------------------------------------------------------
(* A step that changes nothing.                                             *)
LEMMA StillFrames ==
  ASSUME Frames, UNCHANGED vars
  PROVE  Frames'
<1>1. /\ UNCHANGED <<client, pc, call, calls, p, result, mbxOut, mbxIn, sm0, sm1, outq, lastout>>
      /\ UNCHANGED <<number, rx, rxf, txframeno, remote, sent>>
  BY DEF vars, program, box, master, slave, bulkVars, transfer, device
<1>2. Course' /\ Numbered' /\ Shape' /\ Writing' /\ Sending'
  BY <1>1 DEF Frames, Course, Numbered, Shape, Writing, Sending
<1>3. Messages' /\ Reading' /\ Keeping' /\ Hearing' /\ FramesWhole'
  BY <1>1 DEF Frames, Messages, Reading, Keeping, Hearing, FramesWhole
<1> QED BY <1>2, <1>3 DEF Frames

(* Any step.                                                                 *)
LEMMA FramesStay ==
  ASSUME Frames, [Next]_vars
  PROVE  Frames'
<1>1. CASE Box /\ Line
  BY <1>1, BoxFrames
<1>2. CASE CoeClient /\ UNCHANGED bulkVars
  BY <1>2, CoeClientFrames
<1>3. CASE BulkClient
  <2>1. CASE BulkBegin
    BY <2>1, BeginOther, BeginSend
  <2>2. CASE BulkRequest \/ FOEread \/ FOEwrite \/ SoEread \/ SoEwrite \/ SoEwritten \/ EOEsetIp \/ EOEgetIp
    BY <2>2, BulkRequestFrames, FOEreadFrames, FOEwriteFrames, SoEreadFrames, SoEwriteFrames, IpFrames
  <2>3. CASE EOEsend \/ EOErecv \/ EOEreadfragment
    BY <2>3, SendFrames, RecvFrames, ReadfragmentFrames
  <2> QED BY <1>3, <2>1, <2>2, <2>3 DEF BulkClient
<1>4. CASE CoeServer /\ UNCHANGED bulkVars
  BY <1>4, CoeServerFrames
<1>5. CASE BulkServer \/ SlaveFrame
  BY <1>5, ServeFileFrames, ServeIdnFrames, ServeFrameFrames, SlaveFrameFrames DEF BulkServer
<1>6. CASE UNCHANGED vars
  BY <1>6, StillFrames
<1> QED BY <1>1, <1>2, <1>3, <1>4, <1>5, <1>6 DEF Next, Program, External

(* Frames stay whole: what ecx_EOErecv and ecx_EOEreadfragment deliver is a *)
(* frame the slave has sent, and what the slave gets is a frame ecx_EOEsend *)
(* was given, whatever is lost, repeated, late or refused on the way.       *)
THEOREM FramesAreWhole == Spec => []FramesWhole
<1>1. Init => Frames
  BY FramesBegin
<1>2. Frames /\ [Next]_vars => Frames'
  BY FramesStay
<1>3. Frames => FramesWhole
  BY DEF Frames
<1> QED BY <1>1, <1>2, <1>3, PTL DEF Spec
-----------------------------------------------------------------------------
(* Answers.  A call fails only when a datagram is lost: at any moment the   *)
(* request is on its way or in SM0, and nothing but notices in front of the *)
(* master; or the answer is on its way, with notices, and of a list its     *)
(* other fragments, in front of it.                                         *)

(* No answer of a slave whose CoE calls these are is late, or repeated in   *)
(* front of another, and none of them is mixed with calls of other services.*)
CoeCaller(c) == \E x \in c.calls : x.op \in CoeOps
Punctual ==
  /\ MaxMbxCnt > 1
  /\ \A c \in Clients : CoeCaller(c) => c.late = 0 /\ ~c.overtakes /\ \A x \in c.calls : x.op \in CoeOps

(* What waits for the master: SM1, and behind it the queue of the slave.    *)
Places     == 0 .. Len(outq)
Waiting(k) == IF k = 0 THEN sm1 ELSE outq[k]
Notice(m)  == m.type \in {"error", "emergency"}
Idle(m)    == m = None \/ Notice(m)
Calm       == \A k \in Places : Idle(Waiting(k))

(* The slave's end of a segmented transfer, n bytes of it still to come.    *)
Uploading(t) ==
  /\ {"kind", "toggle", "data"} \subseteq DOMAIN server
  /\ server.kind = "up" /\ server.toggle = t
Downloading(t, n) ==
  /\ {"kind", "toggle", "data"} \subseteq DOMAIN server
  /\ server.kind = "down" /\ server.toggle = t /\ IsSeq(server.data) /\ server.size = Len(server.data) + n

Says(m, service, cmd) == m.type = "coe" /\ m.service = service /\ m.cmd = cmd

(* m is the request of the call under way, and the slave is ready for it.   *)
AsksToRead(m) ==
  \/ pc = "answer" /\ Says(m, "sdoreq", "up") /\ m.o = call.o
  \/ pc = "segment" /\ Says(m, "sdoreq", "segment up") /\ m.toggle = ~toggle /\ Uploading(m.toggle)
AsksToWrite(m) ==
  /\ m.type = "coe" /\ IsSeq(p) /\ IsSeq(m.data)
  /\ \/ pc = "answer" /\ Says(m, "sdoreq", "down expedited") /\ m.o = call.o /\ p = << >>
     \/ pc = "answer" /\ Says(m, "sdoreq", "down") /\ m.o = call.o /\ m.size = Len(m.data) + Len(p)
     \/ /\ pc = "segment" /\ Says(m, "sdoreq", "segment down") /\ m.toggle = ~toggle
        /\ m.unused \in 0 .. Len(m.data) /\ (m.last <=> p = << >>)
        /\ Downloading(m.toggle, Len(m.data) - m.unused + Len(p))
Asks(m) ==
  \/ call.op = "read" /\ AsksToRead(m)
  \/ call.op = "write" /\ AsksToWrite(m)
  \/ call.op = "txpdo" /\ pc = "answer" /\ Says(m, "txpdo rr", "pdo")
  \/ call.op = "odlist" /\ pc = "list" /\ Says(m, "info", "list")
  \/ call.op = "describe" /\ pc = "answer" /\ Says(m, "info", "describe")
  \/ call.op = "entries" /\ pc = "answer" /\ Says(m, "info", "entry")

(* m is the answer the call expects, and the slave is ready for the next    *)
(* segment.                                                                 *)
RepliesToRead(m) ==
  \/ pc = "answer" /\ Says(m, "sdores", "up expedited") /\ m.o = call.o
  \/ pc = "answer" /\ Says(m, "sdores", "up") /\ m.o = call.o /\ (Len(m.data) < m.size => Uploading(toggle))
  \/ pc = "segment" /\ Says(m, "sdores", "segment up") /\ (~m.last => Uploading(toggle))
RepliesToWrite(m) ==
  /\ \/ pc = "answer" /\ Says(m, "sdores", "down") /\ m.o = call.o
     \/ pc = "segment" /\ Says(m, "sdores", "segment down")
  /\ IsSeq(p) /\ (p # << >> => Downloading(toggle, Len(p)))
Replies(m) ==
  \/ call.op = "read" /\ RepliesToRead(m)
  \/ call.op = "write" /\ RepliesToWrite(m)
  \/ call.op = "txpdo" /\ pc = "answer" /\ Says(m, "txpdo", "pdo")
  \/ call.op = "odlist" /\ pc = "list" /\ Says(m, "info", "list")
  \/ call.op = "describe" /\ pc = "answer" /\ Says(m, "info", "describe")
  \/ call.op = "entries" /\ pc = "answer" /\ Says(m, "info", "entry")

(* The answer is on its way, behind fragments of it and notices.            *)
Final(m) == Replies(m) /\ (pc = "list" => m.last)
Part(m)  == Replies(m) /\ pc = "list" /\ ~m.last
Coming ==
  \E k \in Places :
    /\ Final(Waiting(k))
    /\ \A j \in Places : (j < k => Idle(Waiting(j)) \/ Part(Waiting(j))) /\ (j > k => Idle(Waiting(j)))
Pending == (sm0 # None /\ Asks(sm0) /\ Calm) \/ (sm0 = None /\ Coming)

(* The message of ecx_RxPDO is not answered.                                *)
Unasked  == sm0 = None \/ Says(sm0, "rxpdo", "pdo")
Quietude == Calm /\ Unasked

Resting  == pc = "idle" /\ at = "idle" /\ ~toggle /\ Quietude
Clearing ==
  /\ pc = "clear" /\ quick /\ ~toggle /\ Quietude
  /\ at \in {"poll", "end"} \/ (at = "fetch" /\ sm1 # None)
  /\ call.op = "write" => IsSeq(p) /\ Len(p) = call.n
Dispatching ==
  /\ pc = "sent" /\ call.op = "rxpdo" /\ ~want /\ ~toggle /\ Quietude
  /\ \/ at = "empty" /\ Says(mbxOut, "rxpdo", "pdo")
     \/ at = "write" /\ sm0 = None /\ Says(mbxOut, "rxpdo", "pdo")
     \/ at = "end" /\ wkc = 1
Asking ==
  /\ pc \in {"answer", "segment", "list"} /\ ~quick /\ (pc # "segment" => ~toggle)
  /\ \/ at = "empty" /\ want /\ Asks(mbxOut) /\ Quietude
     \/ at = "write" /\ want /\ Asks(mbxOut) /\ Calm /\ sm0 = None
     \/ at \in {"poll", "fetch", "repeat", "ack"} /\ Pending
     \/ at = "end" /\ wkc = 1 /\ sm0 = None /\ Replies(mbxIn) /\ (IF Part(mbxIn) THEN Coming ELSE Calm)

(* Only a notice is ever asked for again.                                   *)
Repeats ==
  /\ again => at = "ack"
  /\ at \in {"repeat", "ack"} \/ (at = "fetch" /\ sm1 = None) => Notice(lastout)

(* A request has the counter behind the one of the last request.            *)
LastSent == IF sm0 = None THEN seen ELSE sm0.cnt
Counters ==
  /\ seen \in 0 .. MaxMbxCnt
  /\ sm0 # None => sm0.cnt = NextMbxCnt(seen)
  /\ at \in {"empty", "write"} => cnt = NextMbxCnt(LastSent) /\ mbxOut.cnt = cnt
  /\ at \notin {"empty", "write"} => cnt = LastSent

Holds ==
  /\ pc # "idle" => call \in client.calls
  /\ toggle \in BOOLEAN /\ IsSeq(outq)
  /\ DOMAIN store = Objects /\ \A o \in Objects : IsSeq(store[o])
  /\ late = 0 /\ result.status # "failed"
Prompt == Holds /\ Counters /\ Repeats /\ (Resting \/ Clearing \/ Dispatching \/ Asking)
Others == call.op \notin CoeOps /\ result.op \notin CoeOps

Answering ==
  /\ client \in Clients /\ lost \in Nat
  /\ IF CoeCaller(client) THEN lost = 0 => Prompt ELSE Others
-----------------------------------------------------------------------------
LEMMA NoticesAre ==
  /\ Notice(Emergency) /\ Notice(MbxError) /\ Idle(None)
  /\ \A m : m.type = "coe" => m # None /\ ~Notice(m) /\ ~Idle(m)
  /\ \A m, a, b : Says(m, a, b) => m.type = "coe"
  /\ \A m : (Asks(m) => m.type = "coe") /\ (Replies(m) => m.type = "coe")
  /\ \A m : (Final(m) => m.type = "coe") /\ (Part(m) => m.type = "coe")
<1>1. Notice(Emergency) /\ Notice(MbxError) /\ Idle(None)
  BY DEF Notice, Idle, Emergency, MbxError
<1>2. \A m : m.type = "coe" => m # None /\ ~Notice(m) /\ ~Idle(m)
  BY DEF Notice, Idle, None
<1>3. \A m, a, b : Says(m, a, b) => m.type = "coe"
  BY DEF Says
<1>4. \A m : (Asks(m) => m.type = "coe") /\ (Replies(m) => m.type = "coe")
  BY <1>3 DEF Asks, AsksToRead, AsksToWrite, Replies, RepliesToRead, RepliesToWrite
<1> QED BY <1>1, <1>2, <1>3, <1>4 DEF Final, Part

LEMMA SameCall ==
  ASSUME UNCHANGED <<pc, call, p, toggle, server>>
  PROVE  \A m : /\ Asks(m)' <=> Asks(m)
                /\ Replies(m)' <=> Replies(m)
                /\ Final(m)' <=> Final(m)
                /\ Part(m)' <=> Part(m)
<1>1. \A m : Asks(m)' <=> Asks(m)
  BY DEF Asks, AsksToRead, AsksToWrite, Says, Uploading, Downloading
<1>2. \A m : Replies(m)' <=> Replies(m)
  BY DEF Replies, RepliesToRead, RepliesToWrite, Says, Uploading, Downloading
<1> QED BY <1>1, <1>2 DEF Final, Part

LEMMA NextCnt ==
  ASSUME MaxMbxCnt \in Nat, MaxMbxCnt > 1, NEW c \in 0 .. MaxMbxCnt
  PROVE  NextMbxCnt(c) \in 0 .. MaxMbxCnt /\ NextMbxCnt(c) # c
BY DEF NextMbxCnt

(* The slave moves its messages on: what the master is waiting for stays in *)
(* its place among them.                                                    *)
Moves ==
  /\ Calm => Calm'
  /\ Coming => Coming'
  /\ sm1 # None => sm1' # None
  /\ IsSeq(outq')

LEMMA PutMoves ==
  ASSUME IsSeq(outq), UNCHANGED <<pc, call, p, toggle, server>>, SlavePut
  PROVE  Moves
<1>1. sm1 = None /\ outq # << >> /\ sm1' = Head(outq) /\ outq' = Tail(outq)
  BY DEF SlavePut
<1>2. /\ Len(outq) > 0 /\ Head(outq) = outq[1] /\ IsSeq(Tail(outq)) /\ Len(Tail(outq)) = Len(outq) - 1
      /\ \A k \in 1 .. Len(outq) - 1 : Tail(outq)[k] = outq[k + 1]
  BY <1>1, TailIs
<1>3. Len(outq) \in Nat /\ Len(outq') = Len(outq) - 1
  BY <1>1, <1>2 DEF IsSeq
<1>4. \A k \in Places' : k + 1 \in Places /\ Waiting(k)' = Waiting(k + 1)
  <2> TAKE k \in Places'
  <2>1. k \in 0 .. Len(outq) - 1
    BY <1>3 DEF Places
  <2>2. CASE k = 0
    BY <1>1, <1>2, <1>3, <2>2 DEF Waiting, Places
  <2>3. CASE k # 0
    <3>1. k \in 1 .. Len(outq) - 1 /\ k + 1 # 0
      BY <2>1, <2>3
    <3>2. outq'[k] = outq[k + 1]
      BY <1>1, <1>2, <3>1
    <3> QED BY <1>3, <3>1, <3>2 DEF Waiting, Places
  <2> QED BY <2>2, <2>3
<1>5. Calm => Calm'
  BY <1>4 DEF Calm, Idle, Notice
<1>6. ASSUME Coming PROVE Coming'
  <2>1. PICK k \in Places :
          /\ Final(Waiting(k))
          /\ \A j \in Places : (j < k => Idle(Waiting(j)) \/ Part(Waiting(j))) /\ (j > k => Idle(Waiting(j)))
    BY <1>6 DEF Coming
  <2>2. k # 0
    BY <1>1, <2>1, NoticesAre DEF Waiting
  <2>3. k \in Int /\ k - 1 \in Places' /\ k - 1 + 1 = k
    BY <1>3, <2>2 DEF Places
  <2>4. Final(Waiting(k - 1))'
    <3>1. Waiting(k - 1)' = Waiting(k)
      BY <1>4, <2>3
    <3> QED BY <2>1, <3>1, SameCall
  <2>5. ASSUME NEW j \in Places'
        PROVE  (j < k - 1 => Idle(Waiting(j))' \/ Part(Waiting(j))') /\ (j > k - 1 => Idle(Waiting(j))')
    <3>1. j + 1 \in Places /\ Waiting(j)' = Waiting(j + 1)
      BY <1>4
    <3>2. j \in Int /\ (j < k - 1 => j + 1 < k) /\ (j > k - 1 => j + 1 > k)
      BY <2>3 DEF Places
    <3>3. Part(Waiting(j))' <=> Part(Waiting(j + 1))
      BY <3>1, SameCall
    <3>4. Idle(Waiting(j))' <=> Idle(Waiting(j + 1))
      BY <3>1 DEF Idle, Notice
    <3> QED BY <2>1, <3>1, <3>2, <3>3, <3>4
  <2> QED BY <2>3, <2>4, <2>5 DEF Coming
<1> QED BY <1>1, <1>2, <1>5, <1>6 DEF Moves

LEMMA RepeatMoves ==
  ASSUME IsSeq(outq), UNCHANGED <<pc, call, p, toggle, server>>, SlaveRepeat, ~client.overtakes, Notice(lastout)
  PROVE  Moves
<1>1. \/ sm1' = sm1 /\ outq' = outq
      \/ sm1 = None /\ sm1' = lastout /\ outq' = outq
  BY DEF SlaveRepeat
<1>2. Places' = Places /\ \A k \in Places : Waiting(k)' = Waiting(k) \/ (k = 0 /\ Waiting(k) = None /\ Idle(Waiting(k))')
  BY <1>1 DEF Places, Waiting, Idle, Notice
<1>3. Calm => Calm'
  BY <1>2 DEF Calm, Idle, Notice
<1>4. ASSUME Coming PROVE Coming'
  <2>1. PICK k \in Places :
          /\ Final(Waiting(k))
          /\ \A j \in Places : (j < k => Idle(Waiting(j)) \/ Part(Waiting(j))) /\ (j > k => Idle(Waiting(j)))
    BY <1>4 DEF Coming
  <2>2. Waiting(k)' = Waiting(k)
    BY <1>2, <2>1, NoticesAre
  <2>3. Final(Waiting(k))'
    BY <2>1, <2>2, SameCall
  <2>4. ASSUME NEW j \in Places
        PROVE  (Idle(Waiting(j)) => Idle(Waiting(j))') /\ (Part(Waiting(j)) => Part(Waiting(j))')
    <3>1. CASE Waiting(j)' = Waiting(j)
      BY <3>1, SameCall DEF Idle, Notice
    <3>2. CASE Waiting(j) = None /\ Idle(Waiting(j))'
      BY <3>2, NoticesAre
    <3> QED BY <1>2, <3>1, <3>2
  <2> QED BY <1>2, <2>1, <2>3, <2>4 DEF Coming
<1> QED BY <1>1, <1>3, <1>4 DEF Moves

(* More messages join the queue: notices, or nothing.                       *)
LEMMA JoinMoves ==
  ASSUME IsSeq(outq), UNCHANGED <<pc, call, p, toggle, server, sm1>>, NEW q, IsSeq(q), outq' = outq \o q,
         \A k \in 1 .. Len(q) : Notice(q[k])
  PROVE  Moves
<1>1. /\ IsSeq(outq') /\ Len(outq') = Len(outq) + Len(q) /\ Len(outq) \in Nat /\ Len(q) \in Nat
      /\ \A k \in 1 .. Len(outq) : outq'[k] = outq[k]
      /\ \A k \in Len(outq) + 1 .. Len(outq) + Len(q) : outq'[k] = q[k - Len(outq)]
  <2>1. /\ IsSeq(outq') /\ Len(outq') = Len(outq) + Len(q)
        /\ \A k \in 1 .. Len(outq) : outq'[k] = outq[k]
        /\ \A k \in Len(outq) + 1 .. Len(outq) + Len(q) : outq'[k] = q[k - Len(outq)]
    BY JoinIs
  <2>2. Len(outq) \in Nat /\ Len(q) \in Nat
    BY DEF IsSeq
  <2> QED BY <2>1, <2>2
<1>2. Places \subseteq Places' /\ \A k \in Places : Waiting(k)' = Waiting(k)
  BY <1>1 DEF Places, Waiting
<1>3. \A k \in Places' : k \notin Places => Idle(Waiting(k))' /\ \A j \in Places : j < k
  <2> TAKE k \in Places'
  <2> HAVE k \notin Places
  <2>1. k \in Len(outq) + 1 .. Len(outq) + Len(q) /\ k # 0 /\ k - Len(outq) \in 1 .. Len(q)
    BY <1>1 DEF Places
  <2>2. Waiting(k)' = q[k - Len(outq)]
    BY <1>1, <2>1 DEF Waiting
  <2> QED BY <1>1, <2>1, <2>2 DEF Idle, Notice, Places
<1>4. Calm => Calm'
  BY <1>2, <1>3 DEF Calm, Idle, Notice
<1>5. ASSUME Coming PROVE Coming'
  <2>1. PICK k \in Places :
          /\ Final(Waiting(k))
          /\ \A j \in Places : (j < k => Idle(Waiting(j)) \/ Part(Waiting(j))) /\ (j > k => Idle(Waiting(j)))
    BY <1>5 DEF Coming
  <2>2. k \in Places' /\ Final(Waiting(k))'
    BY <1>2, <2>1, SameCall
  <2>3. ASSUME NEW j \in Places'
        PROVE  (j < k => Idle(Waiting(j))' \/ Part(Waiting(j))') /\ (j > k => Idle(Waiting(j))')
    <3>1. CASE j \in Places
      <4>1. Waiting(j)' = Waiting(j)
        BY <1>2, <3>1
      <4>2. (Idle(Waiting(j))' <=> Idle(Waiting(j))) /\ (Part(Waiting(j))' <=> Part(Waiting(j)))
        BY <4>1, SameCall DEF Idle, Notice
      <4> QED BY <2>1, <3>1, <4>2
    <3>2. CASE j \notin Places
      BY <1>3, <3>2
    <3> QED BY <3>1, <3>2
  <2> QED BY <2>2, <2>3 DEF Coming
<1> QED BY <1>1, <1>4, <1>5 DEF Moves

(* A client, a slave and a line as the invariant wants them.                *)
Fair == client \in Clients /\ CoeCaller(client) /\ Punctual /\ lost = 0

LEMMA FairIs ==
  ASSUME Fair
  PROVE  /\ client.late = 0 /\ ~client.overtakes /\ \A x \in client.calls : x.op \in CoeOps
         /\ MaxMbxCnt \in Nat /\ MaxMbxCnt > 1
BY MailboxAssumption DEF Fair, Punctual, MailboxAssumption

Phases == Resting \/ Clearing \/ Dispatching \/ Asking

(* The master waits on while the slave moves.                               *)
LEMMA PhaseMoves ==
  ASSUME Phases, Moves, UNCHANGED <<pc, call, p, toggle, server, at, quick, want, mbxOut, mbxIn, wkc, sm0>>
  PROVE  Phases'
<1>1. Unasked => Unasked'
  BY DEF Unasked, Says
<1>2. Quietude => Quietude'
  BY <1>1 DEF Quietude, Moves
<1>3. (Asks(sm0)' <=> Asks(sm0)) /\ (Asks(mbxOut)' <=> Asks(mbxOut))
  BY SameCall
<1>4. (Replies(mbxIn)' <=> Replies(mbxIn)) /\ (Part(mbxIn)' <=> Part(mbxIn))
  BY SameCall
<1>5. Pending => Pending'
  BY <1>3 DEF Pending, Moves
<1>6. Resting => Resting'
  BY <1>2 DEF Resting
<1>7. Clearing => Clearing'
  BY <1>2 DEF Clearing, Moves
<1>8. Dispatching => Dispatching'
  BY <1>2 DEF Dispatching, Says
<1>9. Asking => Asking'
  BY <1>2, <1>3, <1>4, <1>5 DEF Asking, Moves
<1> QED BY <1>6, <1>7, <1>8, <1>9 DEF Phases

LEMMA PutPrompt ==
  ASSUME Fair, Prompt, SlavePut, UNCHANGED <<program, toggle, store, server>>
  PROVE  Prompt'
<1>1. UNCHANGED <<client, pc, call, calls, p, result>>
  BY DEF program
<1>2. UNCHANGED <<at, quick, want, mbxOut, mbxIn, wkc, cnt, sm0, lastout, again, seen, late>>
  BY DEF SlavePut, master, faults
<1>3. Moves
  BY <1>1, PutMoves DEF Prompt, Holds
<1>4. Phases'
  BY <1>1, <1>2, <1>3, PhaseMoves DEF Prompt, Phases
<1>5. Holds'
  BY <1>1, <1>2, <1>3 DEF Prompt, Holds, Moves
<1>6. Counters'
  BY <1>2 DEF Prompt, Counters, LastSent
<1>7. Repeats'
  BY <1>2, <1>3 DEF Prompt, Repeats, Moves, Notice
<1> QED BY <1>4, <1>5, <1>6, <1>7 DEF Prompt, Phases

LEMMA RepeatPrompt ==
  ASSUME Fair, Prompt, SlaveRepeat, UNCHANGED <<program, toggle, store, server>>
  PROVE  Prompt'
<1>1. UNCHANGED <<client, pc, call, calls, p, result>>
  BY DEF program
<1>2. UNCHANGED <<at, quick, want, mbxOut, mbxIn, wkc, cnt, sm0, lastout, seen, late>> /\ again /\ ~again'
  BY DEF SlaveRepeat, master, faults
<1>3. Moves
  BY <1>1, <1>2, RepeatMoves, FairIs DEF Prompt, Holds, Repeats
<1>4. Phases'
  BY <1>1, <1>2, <1>3, PhaseMoves DEF Prompt, Phases
<1>5. Holds'
  BY <1>1, <1>2, <1>3 DEF Prompt, Holds, Moves
<1>6. Counters'
  BY <1>2 DEF Prompt, Counters, LastSent
<1>7. Repeats'
  BY <1>2, <1>3 DEF Prompt, Repeats, Moves, Notice
<1> QED BY <1>4, <1>5, <1>6, <1>7 DEF Prompt, Phases

LEMMA EmergencyPrompt ==
  ASSUME Fair, Prompt, SlaveEmergency, UNCHANGED <<program, toggle, store, server>>
  PROVE  Prompt'
<1>1. UNCHANGED <<client, pc, call, calls, p, result>>
  BY DEF program
<1>2. UNCHANGED <<at, quick, want, mbxOut, mbxIn, wkc, cnt, sm0, sm1, lastout, again, seen, late>>
  BY DEF SlaveEmergency, master
<1>3. Moves
  <2>1. PICK e : outq' = Append(outq, e) /\ Notice(e)
    BY NoticesAre DEF SlaveEmergency
  <2>2. PICK q : q = <<e>>
    OBVIOUS
  <2>3. IsSeq(q) /\ Len(q) = 1 /\ q[1] = e
    BY <2>2 DEF IsSeq
  <2>4. outq' = outq \o q
    <3>1. PICK S : outq \in Seq(S) /\ q \in Seq(S)
      BY <2>3, Common DEF Prompt, Holds
    <3> QED BY <2>1, <2>2, <3>1
  <2>5. \A k \in 1 .. Len(q) : Notice(q[k])
    BY <2>1, <2>3
  <2> QED BY <1>1, <1>2, <2>3, <2>4, <2>5, JoinMoves DEF Prompt, Holds
<1>4. Phases'
  BY <1>1, <1>2, <1>3, PhaseMoves DEF Prompt, Phases
<1>5. Holds'
  BY <1>1, <1>2, <1>3 DEF Prompt, Holds, Moves
<1>6. Counters'
  BY <1>2 DEF Prompt, Counters, LastSent
<1>7. Repeats'
  BY <1>2 DEF Prompt, Repeats, Notice
<1> QED BY <1>4, <1>5, <1>6, <1>7 DEF Prompt, Phases

(* No request is left out: each has another counter than the last one.      *)
LEMMA NotIgnored == ASSUME Fair, Prompt, Ignore PROVE FALSE
<1>1. sm0 # None /\ sm0.cnt = seen
  BY DEF Ignore, Fresh
<1>2. sm0.cnt = NextMbxCnt(seen) /\ seen \in 0 .. MaxMbxCnt
  BY <1>1 DEF Prompt, Counters
<1> QED BY <1>1, <1>2, NextCnt, FairIs

LEMMA StillPrompt ==
  ASSUME Prompt, UNCHANGED <<program, master, cnt, slave, seen, faults, toggle, store, server>>
  PROVE  Prompt'
<1>1. UNCHANGED <<client, pc, call, calls, p, result, at, quick, want, mbxOut, mbxIn, wkc>>
  BY DEF program, master
<1>2. UNCHANGED <<sm0, sm1, outq, lastout, again, late>>
  BY DEF slave, faults
<1>3. Places' = Places /\ \A k : Waiting(k)' = Waiting(k)
  BY <1>2 DEF Places, Waiting
<1>4. Calm' <=> Calm
  BY <1>3 DEF Calm, Idle, Notice
<1>5. \A k \in Places : (Final(Waiting(k))' <=> Final(Waiting(k))) /\ (Part(Waiting(k))' <=> Part(Waiting(k)))
                         /\ (Idle(Waiting(k))' <=> Idle(Waiting(k)))
  BY <1>1, <1>3, SameCall DEF Idle, Notice
<1>6. Coming => Coming'
  BY <1>3, <1>5 DEF Coming
<1>7. Moves
  BY <1>2, <1>4, <1>6 DEF Moves, Prompt, Holds
<1>8. Phases'
  BY <1>1, <1>2, <1>7, PhaseMoves DEF Prompt, Phases
<1> QED BY <1>1, <1>2, <1>7, <1>8 DEF Prompt, Phases, Holds, Moves, Counters, LastSent, Repeats, Notice

(* The master waits for its answer, which is on its way.                    *)
LEMMA NotQuiet ==
  ASSUME Pending, IsSeq(outq), sm1 = None, sm0 = None, outq = << >>
  PROVE  FALSE
<1>1. PICK k \in Places : Final(Waiting(k))
  BY DEF Pending, Coming
<1>2. k = 0
  BY DEF Places
<1> QED BY <1>1, <1>2, NoticesAre DEF Waiting

LEMMA EmptyPrompt ==
  ASSUME Fair, Prompt, MbxEmpty, UNCHANGED <<program, toggle, store, server>>
  PROVE  Prompt'
<1>1. UNCHANGED <<client, pc, call, calls, p, result>>
  BY DEF program
<1>2. UNCHANGED <<quick, want, mbxOut, mbxIn, cnt, sm0, sm1, outq, lastout, again, seen>> /\ at = "empty"
  BY DEF MbxEmpty, slave
<1>3. sm0 = None /\ at' = "write" /\ UNCHANGED <<wkc, late>>
  BY FairIs DEF MbxEmpty, Expire, Prompt, Holds
<1>4. Calm' <=> Calm
  BY <1>2 DEF Calm, Places, Waiting, Idle, Notice
<1>5. Asks(mbxOut)' <=> Asks(mbxOut)
  BY <1>1, <1>2, SameCall DEF Prompt
<1>6. Phases
  BY DEF Prompt, Phases
<1>7. Phases'
  <2>1. CASE Dispatching
    <3>1. Dispatching'
      BY <1>1, <1>2, <1>3, <1>4, <2>1 DEF Dispatching, Quietude, Unasked, Says
    <3> QED BY <3>1 DEF Phases
  <2>2. CASE Asking
    <3>1. Asking'
      BY <1>1, <1>2, <1>3, <1>4, <1>5, <2>2 DEF Asking, Quietude
    <3> QED BY <3>1 DEF Phases
  <2> QED BY <1>2, <1>6, <2>1, <2>2 DEF Phases, Resting, Clearing
<1>8. Holds' /\ Counters' /\ Repeats'
  BY <1>1, <1>2, <1>3 DEF Prompt, Holds, Counters, LastSent, Repeats
<1> QED BY <1>7, <1>8 DEF Prompt, Phases

LEMMA SendPrompt ==
  ASSUME Fair, Prompt, MbxSend, lost' = 0, UNCHANGED <<program, toggle, store, server>>
  PROVE  Prompt'
<1>1. UNCHANGED <<client, pc, call, calls, p, result>>
  BY DEF program
<1>2. /\ at = "write" /\ sm0' = (IF sm0 = None THEN mbxOut ELSE sm0)
      /\ IF sm0 = None /\ want
         THEN at' = "poll" /\ mbxIn' = None /\ want' = FALSE /\ UNCHANGED wkc
         ELSE at' = "end" /\ wkc' = (IF sm0 = None THEN 1 ELSE 0) /\ UNCHANGED <<mbxIn, want>>
      /\ UNCHANGED <<quick, mbxOut, cnt, sm1, outq, lastout, again, seen, late>>
  BY DEF MbxSend, End, Lose, Fair
<1>3. Calm' <=> Calm
  BY <1>2 DEF Calm, Places, Waiting, Idle, Notice
<1>4. Asks(mbxOut)' <=> Asks(mbxOut)
  BY <1>1, <1>2, SameCall
<1>5. Phases
  BY DEF Prompt, Phases
<1>6. sm0 = None /\ sm0' = mbxOut
  BY <1>2, <1>5 DEF Phases, Resting, Clearing, Dispatching, Asking
<1>7. Phases' /\ sm0' # None
  <2>1. CASE Dispatching
    <3>1. Dispatching'
      BY <1>1, <1>2, <1>3, <1>6, <2>1 DEF Dispatching, Quietude, Unasked, Says
    <3>2. sm0' # None
      BY <1>2, <1>6, <2>1, NoticesAre DEF Dispatching
    <3> QED BY <3>1, <3>2 DEF Phases
  <2>2. CASE Asking
    <3>1. want /\ Asks(mbxOut) /\ Calm /\ pc \in {"answer", "segment", "list"} /\ ~quick /\ (pc # "segment" => ~toggle)
      BY <1>2, <2>2 DEF Asking
    <3>2. sm0' # None /\ Asks(sm0)'
      BY <1>2, <1>4, <1>6, <3>1, NoticesAre
    <3>3. Pending'
      BY <1>3, <3>1, <3>2 DEF Pending
    <3>4. Asking'
      BY <1>1, <1>2, <1>6, <3>1, <3>3 DEF Asking
    <3> QED BY <3>2, <3>4 DEF Phases
  <2> QED BY <1>2, <1>5, <2>1, <2>2 DEF Phases, Resting, Clearing
<1>8. Counters'
  <2>1. seen \in 0 .. MaxMbxCnt /\ cnt = NextMbxCnt(seen) /\ mbxOut.cnt = cnt
    BY <1>2, <1>6 DEF Prompt, Counters, LastSent
  <2>2. at' \notin {"empty", "write"}
    BY <1>2
  <2> QED BY <1>2, <1>6, <1>7, <2>1, <2>2 DEF Counters, LastSent
<1>9. Holds' /\ Repeats'
  BY <1>1, <1>2 DEF Prompt, Holds, Repeats
<1> QED BY <1>7, <1>8, <1>9 DEF Prompt, Phases

LEMMA PollPrompt ==
  ASSUME Fair, Prompt, MbxPoll, lost' = 0, UNCHANGED <<program, toggle, store, server>>
  PROVE  Prompt'
<1>1. UNCHANGED <<client, pc, call, calls, p, result>>
  BY DEF program
<1>2. UNCHANGED <<quick, want, mbxOut, mbxIn, cnt, sm0, sm1, outq, lastout, again, seen>> /\ at = "poll"
  BY DEF MbxPoll, slave
<1>3. \/ sm1 # None /\ at' = "fetch" /\ UNCHANGED <<wkc, late>>
      \/ sm1 = None /\ (quick \/ Quiet) /\ at' = "end" /\ wkc' = -5 /\ UNCHANGED late
  BY FairIs DEF MbxPoll, Expire, End, Prompt, Holds, Lose, Fair
<1>4. Places' = Places /\ \A k : Waiting(k)' = Waiting(k)
  BY <1>2 DEF Places, Waiting
<1>5. Calm' <=> Calm
  BY <1>4 DEF Calm, Idle, Notice
<1>6. Pending => Pending'
  <2>1. \A k \in Places : (Final(Waiting(k))' <=> Final(Waiting(k))) /\ (Part(Waiting(k))' <=> Part(Waiting(k)))
                           /\ (Idle(Waiting(k))' <=> Idle(Waiting(k)))
    BY <1>1, <1>4, SameCall DEF Idle, Notice
  <2>2. Coming => Coming'
    BY <1>4, <2>1 DEF Coming
  <2>3. Asks(sm0)' <=> Asks(sm0)
    BY <1>1, <1>2, SameCall
  <2> QED BY <1>2, <1>5, <2>2, <2>3 DEF Pending
<1>7. Phases
  BY DEF Prompt, Phases
<1>8. Phases'
  <2>1. CASE Clearing
    <3>1. Clearing'
      BY <1>1, <1>2, <1>3, <1>5, <2>1 DEF Clearing, Quietude, Unasked, Says
    <3> QED BY <3>1 DEF Phases
  <2>2. CASE Asking
    <3>1. Pending /\ ~quick /\ pc \in {"answer", "segment", "list"} /\ (pc # "segment" => ~toggle)
      BY <1>2, <2>2 DEF Asking
    <3>2. at' = "fetch"
      BY <1>3, <3>1, NotQuiet DEF Prompt, Holds, Quiet
    <3>3. Asking'
      BY <1>1, <1>2, <1>6, <3>1, <3>2 DEF Asking
    <3> QED BY <3>3 DEF Phases
  <2> QED BY <1>2, <1>7, <2>1, <2>2 DEF Phases, Resting, Dispatching
<1>9. Holds' /\ Counters' /\ Repeats'
  BY <1>1, <1>2, <1>3 DEF Prompt, Holds, Counters, LastSent, Repeats
<1> QED BY <1>8, <1>9 DEF Prompt, Phases

LEMMA AckPrompt ==
  ASSUME Fair, Prompt, MbxRepeat \/ MbxAck, lost' = 0, UNCHANGED <<program, toggle, store, server>>
  PROVE  Prompt'
<1>1. UNCHANGED <<client, pc, call, calls, p, result>>
  BY DEF program
<1>2. UNCHANGED <<quick, want, mbxOut, mbxIn, cnt, sm0, sm1, outq, lastout, seen>> /\ at \in {"repeat", "ack", "unheard"}
  BY DEF MbxRepeat, MbxAck, slave
<1>3. Phases
  BY DEF Prompt, Phases
<1>4. Asking /\ at \in {"repeat", "ack"}
  BY <1>2, <1>3 DEF Phases, Resting, Clearing, Dispatching, Asking
<1>5. Pending /\ ~quick /\ pc \in {"answer", "segment", "list"} /\ (pc # "segment" => ~toggle)
  BY <1>4 DEF Asking
<1>6. \/ at = "repeat" /\ at' = "ack" /\ again' = TRUE /\ UNCHANGED <<wkc, late>>
      \/ at = "ack" /\ at' = "fetch" /\ ~again /\ again' = again /\ sm1 # None /\ UNCHANGED <<wkc, late>>
  <2>1. CASE MbxRepeat
    BY <2>1 DEF MbxRepeat, Lose, Fair
  <2>2. CASE MbxAck
    <3>1. ~(quick \/ Quiet)
      BY <1>5, NotQuiet DEF Quiet, Prompt, Holds
    <3>2. ~Expire(quick \/ Quiet)
      BY <3>1, FairIs DEF Expire, Prompt, Holds
    <3> QED BY <1>4, <2>2, <3>2 DEF MbxAck, slave
  <2> QED BY <2>1, <2>2
<1>7. Places' = Places /\ \A k : Waiting(k)' = Waiting(k)
  BY <1>2 DEF Places, Waiting
<1>8. Pending'
  <2>1. \A k \in Places : (Final(Waiting(k))' <=> Final(Waiting(k))) /\ (Part(Waiting(k))' <=> Part(Waiting(k)))
                           /\ (Idle(Waiting(k))' <=> Idle(Waiting(k)))
    BY <1>1, <1>7, SameCall DEF Idle, Notice
  <2>2. Coming => Coming'
    BY <1>7, <2>1 DEF Coming
  <2>3. Asks(sm0)' <=> Asks(sm0)
    BY <1>1, <1>2, SameCall
  <2>4. Calm => Calm'
    BY <1>7 DEF Calm, Idle, Notice
  <2> QED BY <1>2, <1>5, <2>2, <2>3, <2>4 DEF Pending
<1>9. Asking'
  BY <1>1, <1>2, <1>5, <1>6, <1>8 DEF Asking
<1>10. Holds' /\ Counters' /\ Repeats'
  BY <1>1, <1>2, <1>4, <1>6 DEF Prompt, Holds, Counters, LastSent, Repeats, Notice
<1> QED BY <1>9, <1>10 DEF Prompt

(* SM1 is read: a notice, a part of the answer or its end.                  *)
LEMMA FetchMoves ==
  ASSUME IsSeq(outq), UNCHANGED <<pc, call, p, toggle, server, outq>>, sm1' = None
  PROVE  /\ Calm => Calm'
         /\ Coming /\ ~Final(sm1) => Coming'
         /\ Coming /\ Final(sm1) => Calm'
         /\ Coming => Idle(sm1) \/ Replies(sm1)
         /\ Coming /\ outq = << >> => Final(sm1)
<1>1. /\ Places' = Places /\ 0 \in Places /\ Waiting(0) = sm1 /\ Waiting(0)' = None
      /\ \A k \in Places : k # 0 => k > 0 /\ Waiting(k)' = Waiting(k)
  BY DEF Places, Waiting, IsSeq
<1>2. Calm => Calm'
  BY <1>1 DEF Calm, Idle, Notice
<1>3. SUFFICES ASSUME Coming
               PROVE  /\ ~Final(sm1) => Coming'
                      /\ Final(sm1) => Calm'
                      /\ Idle(sm1) \/ Replies(sm1)
                      /\ outq = << >> => Final(sm1)
  BY <1>2
<1>4. PICK k \in Places :
        /\ Final(Waiting(k))
        /\ \A j \in Places : (j < k => Idle(Waiting(j)) \/ Part(Waiting(j))) /\ (j > k => Idle(Waiting(j)))
  BY <1>3 DEF Coming
<1>5. k # 0 => 0 < k
  BY DEF Places
<1>6. Idle(sm1) \/ Replies(sm1)
  <2>1. CASE k = 0
    BY <1>1, <1>4, <2>1 DEF Final
  <2>2. CASE k # 0
    BY <1>1, <1>4, <1>5, <2>2 DEF Part
  <2> QED BY <2>1, <2>2
<1>7. outq = << >> => Final(sm1)
  BY <1>1, <1>4 DEF Places
<1>8. ASSUME Final(sm1) PROVE Calm'
  <2>1. k = 0
    <3>1. ~Idle(sm1)
      BY <1>8, NoticesAre
    <3>2. ~Part(sm1)
      BY <1>8 DEF Final, Part
    <3> QED BY <1>1, <1>4, <1>5, <3>1, <3>2
  <2>2. \A j \in Places : Idle(Waiting(j))'
    BY <1>1, <1>4, <2>1 DEF Idle, Notice
  <2> QED BY <1>1, <2>2 DEF Calm
<1>9. ASSUME ~Final(sm1) PROVE Coming'
  <2>1. k # 0 /\ Waiting(k)' = Waiting(k)
    BY <1>1, <1>4, <1>9
  <2>2. Final(Waiting(k))'
    BY <1>4, <2>1, SameCall
  <2>3. ASSUME NEW j \in Places
        PROVE  (j < k => Idle(Waiting(j))' \/ Part(Waiting(j))') /\ (j > k => Idle(Waiting(j))')
    <3>1. CASE j = 0
      BY <1>1, <3>1 DEF Idle
    <3>2. CASE j # 0
      <4>1. Waiting(j)' = Waiting(j)
        BY <1>1, <3>2
      <4>2. (Idle(Waiting(j))' <=> Idle(Waiting(j))) /\ (Part(Waiting(j))' <=> Part(Waiting(j)))
        BY <4>1, SameCall DEF Idle, Notice
      <4> QED BY <1>4, <4>2
    <3> QED BY <3>1, <3>2
  <2> QED BY <1>1, <2>2, <2>3 DEF Coming
<1> QED BY <1>6, <1>7, <1>8, <1>9

LEMMA FetchPrompt ==
  ASSUME Fair, Prompt, MbxFetch, lost' = 0, UNCHANGED <<program, toggle, store, server>>
  PROVE  Prompt'
<1>1. UNCHANGED <<client, pc, call, calls, p, result>>
  BY DEF program
<1>2. UNCHANGED <<quick, want, mbxOut, cnt, sm0, outq, again, seen>> /\ at = "fetch"
  BY DEF MbxFetch
<1>3. late' = late /\
      \/ /\ sm1 # None /\ mbxIn' = sm1 /\ lastout' = sm1 /\ sm1' = None /\ Notice(sm1)
         /\ \/ (quick \/ (sm0 = None /\ outq = << >>)) /\ at' = "end"
            \/ ~quick /\ at' = at
      \/ sm1 # None /\ mbxIn' = sm1 /\ lastout' = sm1 /\ sm1' = None /\ ~Notice(sm1) /\ at' = "end" /\ wkc' = 1
      \/ sm1 = None /\ at' = "repeat" /\ UNCHANGED <<sm1, lastout>>
  BY FairIs DEF MbxFetch, Expire, End, Prompt, Holds, Lose, Fair, Notice
<1>4. Phases
  BY DEF Prompt, Phases
<1>5. IsSeq(outq)
  BY DEF Prompt, Holds
<1>6. Phases'
  <2>1. CASE Clearing
    <3>1. sm1 # None /\ quick
      BY <1>2, <2>1 DEF Clearing
    <3>2. Calm' /\ Idle(sm1)
      <4>1. Calm /\ 0 \in Places /\ Waiting(0) = sm1
        BY <1>5, <2>1 DEF Clearing, Quietude, Places, Waiting, IsSeq
      <4>2. Idle(sm1)
        BY <4>1 DEF Calm
      <4> QED BY <1>1, <1>2, <1>3, <1>5, <3>1, <4>1, <4>2, FetchMoves
    <3>3. at' = "end"
      BY <1>3, <3>1
    <3>4. Clearing'
      BY <1>1, <1>2, <2>1, <3>2, <3>3 DEF Clearing, Quietude, Unasked, Says
    <3> QED BY <3>4 DEF Phases
  <2>2. CASE Asking
    <3>1. Pending /\ ~quick /\ pc \in {"answer", "segment", "list"} /\ (pc # "segment" => ~toggle)
      BY <1>2, <2>2 DEF Asking
    <3>2. CASE sm1 = None
      <4>1. at' = "repeat" /\ sm1' = None
        BY <1>3, <3>2
      <4>2. ~Final(sm1)
        BY <3>2, NoticesAre
      <4>3. (Calm => Calm') /\ (Coming => Coming')
        BY <1>1, <1>2, <1>5, <4>1, <4>2, FetchMoves
      <4>4. Asks(sm0)' <=> Asks(sm0)
        BY <1>1, <1>2, SameCall
      <4>5. Pending'
        BY <1>2, <3>1, <4>3, <4>4 DEF Pending
      <4>6. Asking'
        BY <1>1, <1>2, <3>1, <4>1, <4>5 DEF Asking
      <4> QED BY <4>6 DEF Phases
    <3>3. CASE sm1 # None /\ Notice(sm1)
      <4>1. ~Final(sm1) /\ sm1' = None
        BY <1>3, <3>3, NoticesAre
      <4>2. /\ Calm => Calm'
            /\ Coming => Coming'
            /\ Coming => outq # << >>
        BY <1>1, <1>2, <1>5, <4>1, FetchMoves
      <4>3. ~(sm0 = None /\ outq = << >>)
        BY <3>1, <4>2 DEF Pending
      <4>4. at' = "fetch"
        BY <1>2, <1>3, <3>1, <3>3, <4>3
      <4>5. Asks(sm0)' <=> Asks(sm0)
        BY <1>1, <1>2, SameCall
      <4>6. Pending'
        BY <1>2, <3>1, <4>2, <4>5 DEF Pending
      <4>7. Asking'
        BY <1>1, <1>2, <3>1, <4>4, <4>6 DEF Asking
      <4> QED BY <4>7 DEF Phases
    <3>4. CASE sm1 # None /\ ~Notice(sm1)
      <4>1. at' = "end" /\ wkc' = 1 /\ mbxIn' = sm1 /\ sm1' = None
        BY <1>3, <3>4
      <4>2. 0 \in Places /\ Waiting(0) = sm1 /\ ~Idle(sm1)
        BY <1>5, <3>4 DEF Places, Waiting, IsSeq, Idle
      <4>3. sm0 = None /\ Coming
        BY <3>1, <4>2 DEF Pending, Calm
      <4>4. /\ Replies(sm1)
            /\ ~Final(sm1) => Coming'
            /\ Final(sm1) => Calm'
        BY <1>1, <1>2, <1>5, <4>1, <4>2, <4>3, FetchMoves
      <4>5. Replies(mbxIn)' /\ (Part(mbxIn)' <=> Part(sm1))
        BY <1>1, <4>1, <4>4, SameCall
      <4>6. Part(sm1) <=> ~Final(sm1)
        BY <4>4 DEF Part, Final
      <4>7. Asking'
        BY <1>1, <1>2, <3>1, <4>1, <4>3, <4>4, <4>5, <4>6 DEF Asking
      <4> QED BY <4>7 DEF Phases
    <3> QED BY <3>2, <3>3, <3>4
  <2> QED BY <1>2, <1>4, <2>1, <2>2 DEF Phases, Resting, Dispatching
<1>7. Holds' /\ Counters'
  BY <1>1, <1>2, <1>3 DEF Prompt, Holds, Counters, LastSent
<1>8. Repeats'
  <2>1. ~again
    BY <1>2 DEF Prompt, Repeats
  <2>2. sm1 = None => Notice(lastout)
    BY <1>2 DEF Prompt, Repeats
  <2> QED BY <1>2, <1>3, <2>1, <2>2 DEF Repeats, Notice
<1> QED BY <1>6, <1>7, <1>8 DEF Prompt, Phases

LEMMA BoxPrompt ==
  ASSUME Fair, Prompt, Box, Line, lost' = 0
  PROVE  Prompt'
<1>1. UNCHANGED <<program, toggle, store, server>>
  BY DEF Line, coeVars, objects
<1>2. CASE MasterStep
  BY <1>1, <1>2, EmptyPrompt, SendPrompt, PollPrompt, FetchPrompt, AckPrompt DEF MasterStep
<1>3. CASE SlaveStep
  BY <1>1, <1>3, PutPrompt, RepeatPrompt, NotIgnored DEF SlaveStep
<1>4. CASE SlaveEmergency
  BY <1>1, <1>4, EmergencyPrompt
<1>5. CASE PopError
  <2>1. UNCHANGED <<master, cnt, slave, seen, faults>>
    BY <1>5 DEF PopError
  <2> QED BY <1>1, <2>1, StillPrompt
<1> QED BY <1>2, <1>3, <1>4, <1>5 DEF Box
-----------------------------------------------------------------------------
(* The master begins to send: the next counter.                             *)
LEMMA Dispatch ==
  ASSUME Fair, Prompt, at = "end", NEW m, NEW w, m.cnt = NextMbxCnt(cnt), mbxOut' = m, cnt' = NextMbxCnt(cnt),
         at' = "empty", UNCHANGED <<slave, seen>>
  PROVE  Counters' /\ Repeats'
<1>1. UNCHANGED <<sm0, sm1, outq, lastout, again>>
  BY DEF slave
<1>2. cnt = LastSent /\ ~again
  BY DEF Prompt, Counters, Repeats
<1> QED BY <1>1, <1>2 DEF Prompt, Counters, LastSent, Repeats

(* A call goes on with the next request.                                    *)
LEMMA ContinuePrompt ==
  ASSUME Fair, Prompt, at = "end", Calm, Unasked, NEW to \in {"answer", "segment", "list"}, NEW m, NEW a,
         a = [m EXCEPT !.cnt = NextMbxCnt(cnt)], a.cnt = NextMbxCnt(cnt),
         Continue(to, m), Asks(a)', toggle' \in BOOLEAN, to # "segment" => ~toggle'
  PROVE  Prompt'
<1>1. /\ pc' = to /\ at' = "empty" /\ want' = TRUE /\ quick' = FALSE /\ mbxOut' = a /\ cnt' = NextMbxCnt(cnt)
      /\ UNCHANGED <<client, call, calls, result, slave, seen, faults, objects>>
  BY DEF Continue, Send
<1>2. UNCHANGED <<sm0, sm1, outq, lastout, again, late, store, server>>
  BY <1>1 DEF slave, faults, objects
<1>3. Calm' /\ Unasked'
  BY <1>2 DEF Calm, Places, Waiting, Idle, Notice, Unasked, Says
<1>4. Asks(mbxOut)'
  BY <1>1
<1>5. Asking'
  BY <1>1, <1>3, <1>4 DEF Asking, Quietude
<1>6. Counters' /\ Repeats'
  BY <1>1, Dispatch
<1>7. pc # "idle"
  BY DEF Prompt, Resting, Clearing, Dispatching, Asking
<1>8. Holds'
  BY <1>1, <1>2, <1>7 DEF Prompt, Holds
<1> QED BY <1>5, <1>6, <1>8 DEF Prompt

(* A call ends well.                                                        *)
LEMMA FinishPrompt ==
  ASSUME Fair, Prompt, at = "end", Calm, Unasked, NEW status, NEW data, status # "failed", Finish(status, data)
  PROVE  Prompt'
<1>1. /\ pc' = "idle" /\ result' = [op |-> call.op, status |-> status, data |-> data] /\ toggle' = FALSE
      /\ at' = "idle" /\ UNCHANGED <<client, calls, cnt, slave, seen, faults, objects>>
  BY DEF Finish
<1>2. UNCHANGED <<sm0, sm1, outq, lastout, again, late, store, server>>
  BY <1>1 DEF slave, faults, objects
<1>3. Calm' /\ Unasked'
  BY <1>2 DEF Calm, Places, Waiting, Idle, Notice, Unasked, Says
<1>4. Resting'
  BY <1>1, <1>3 DEF Resting, Quietude
<1>5. Holds' /\ Counters' /\ Repeats'
  BY <1>1, <1>2 DEF Prompt, Holds, Counters, LastSent, Repeats
<1> QED BY <1>4, <1>5 DEF Prompt

LEMMA BeginPrompt ==
  ASSUME Fair, Prompt, Begin
  PROVE  Prompt'
<1>1. /\ pc = "idle" /\ at = "idle" /\ pc' = "clear" /\ at' = "poll" /\ quick' = TRUE
      /\ call' \in client.calls /\ call'.op \in CoeOps
      /\ call'.op = "write" => p' = Bytes(calls', call'.n)
      /\ UNCHANGED <<client, toggle, result, cnt, slave, seen, faults, store, server>>
  BY DEF Begin, Receive
<1>2. UNCHANGED <<sm0, sm1, outq, lastout, again, late>>
  BY <1>1 DEF slave, faults
<1>3. Resting
  BY <1>1 DEF Prompt, Resting, Clearing, Dispatching, Asking
<1>4. Calm' /\ Unasked' /\ ~toggle'
  BY <1>1, <1>2, <1>3 DEF Resting, Quietude, Calm, Places, Waiting, Idle, Notice, Unasked, Says
<1>5. call'.op = "write" => IsSeq(p') /\ Len(p') = call'.n
  <2>1. call'.n \in Nat
    BY <1>1, CoEAssumption DEF CoEAssumption, CoeCall, Fair
  <2>2. IsSeq(Bytes(calls', call'.n)) /\ Len(Bytes(calls', call'.n)) = call'.n
    BY <2>1, BytesIs
  <2> QED BY <1>1, <2>2
<1>6. Clearing'
  BY <1>1, <1>4, <1>5 DEF Clearing, Quietude
<1>7. Holds' /\ Counters' /\ Repeats'
  BY <1>1, <1>2 DEF Prompt, Holds, Counters, LastSent, Repeats
<1> QED BY <1>6, <1>7 DEF Prompt

(* First and Rest of what is still to write.                                *)
LEMMA Splits ==
  ASSUME NEW d, IsSeq(d), NEW n \in Nat
  PROVE  /\ IsSeq(First(d, n)) /\ IsSeq(Rest(d, n))
         /\ Len(First(d, n)) + Len(Rest(d, n)) = Len(d)
         /\ Len(First(d, n)) = (IF Len(d) < n THEN Len(d) ELSE n)
         /\ (Len(d) <= n <=> Rest(d, n) = << >>)
<1>1. Len(d) \in Nat
  BY DEF IsSeq
<1>2. IsSeq(First(d, n)) /\ Len(First(d, n)) = (IF Len(d) < n THEN Len(d) ELSE n)
  BY <1>1, PrefixIs DEF First
<1>3. CASE Len(d) <= n
  <2>1. PICK S : d \in Seq(S)
    BY Common
  <2>2. SubSeq(d, n + 1, Len(d)) = << >>
    BY <1>1, <1>3, <2>1
  <2>3. Rest(d, n) = << >>
    BY <2>2 DEF Rest
  <2> QED BY <1>1, <1>2, <1>3, <2>3, EmptyIs
<1>4. CASE Len(d) > n
  <2>1. IsSeq(Rest(d, n)) /\ Len(Rest(d, n)) = Len(d) - n
    BY <1>1, <1>4, SuffixIs DEF Rest
  <2>2. Rest(d, n) # << >>
    BY <1>1, <1>4, <2>1, EmptyIs
  <2> QED BY <1>1, <1>2, <1>4, <2>1, <2>2
<1> QED BY <1>1, <1>3, <1>4

LEMMA PaddedIs ==
  ASSUME NEW d, IsSeq(d)
  PROVE  LET u == IF Len(d) < 7 THEN 7 - Len(d) ELSE 0 IN
         IsSeq(Padded(d)) /\ u \in 0 .. Len(Padded(d)) /\ Len(Padded(d)) - u = Len(d)
<1> DEFINE u == IF Len(d) < 7 THEN 7 - Len(d) ELSE 0
           f == [b \in 1 .. u |-> Pad]
<1>1. Len(d) \in Nat /\ u \in Nat
  BY DEF IsSeq
<1>2. Padded(d) = d \o f
  <2>1. 1 .. 7 - Len(d) = 1 .. u
    BY <1>1
  <2> QED BY <2>1 DEF Padded
<1> HIDE DEF u
<1>3. f \in Seq({Pad}) /\ Len(f) = u
  BY <1>1
<1>4. IsSeq(f)
  BY <1>3, SeqIs
<1> HIDE DEF f
<1>5. IsSeq(d \o f) /\ Len(d \o f) = Len(d) + u
  BY <1>3, <1>4, JoinIs
<1> QED BY <1>1, <1>2, <1>5 DEF u

LEMMA DataNumbers == InitData \in Nat \ {0} /\ SegData \in Nat \ {0} /\ InitData + 8 \in Nat
BY CoEAssumption DEF CoEAssumption, SegData

LEMMA RequestPrompt ==
  ASSUME Fair, Prompt, Request
  PROVE  Prompt'
<1>1. pc = "clear" /\ at = "end" /\ call.op \in CoeOps /\ toggle' = toggle
  BY DEF Request
<1>2. Calm /\ Unasked /\ ~toggle /\ (call.op = "write" => IsSeq(p) /\ Len(p) = call.n)
  BY <1>1 DEF Prompt, Resting, Clearing, Dispatching, Asking, Quietude
<1>3. toggle' \in BOOLEAN /\ ~toggle'
  BY <1>1, <1>2 DEF Prompt, Holds
<1>4. call' = call /\ server' = server
  BY DEF Request, Continue, objects, CoeOps
<1>5. ASSUME NEW to \in {"answer", "list"}, NEW m, NEW a, a = [m EXCEPT !.cnt = NextMbxCnt(cnt)], a.cnt = NextMbxCnt(cnt),
             Continue(to, m), Asks(a)'
      PROVE  Prompt'
  BY <1>1, <1>2, <1>3, <1>5, ContinuePrompt
<1>7. CASE call.op = "read"
  <2>1. Continue("answer", Coe("sdoreq", "up", call.o, << >>))
    BY <1>7 DEF Request
  <2>2. PICK m, a : m = Coe("sdoreq", "up", call.o, << >>) /\ a = [m EXCEPT !.cnt = NextMbxCnt(cnt)]
    OBVIOUS
  <2>3. Says(a, "sdoreq", "up") /\ a.o = call.o /\ a.cnt = NextMbxCnt(cnt)
    BY ONLY <2>2 DEF Coe, Says
  <2>4. Asks(a)'
    BY <1>4, <1>7, <2>1, <2>3 DEF Asks, AsksToRead, Says, Continue
  <2> QED BY <1>5, <2>1, <2>2, <2>3, <2>4
<1>8. CASE call.op = "write" /\ Expedited
  <2>1. Continue("answer", Coe("sdoreq", "down expedited", call.o, p)) /\ p' = << >>
    BY <1>8 DEF Request
  <2>2. PICK m, a : m = Coe("sdoreq", "down expedited", call.o, p) /\ a = [m EXCEPT !.cnt = NextMbxCnt(cnt)]
    OBVIOUS
  <2>3. Says(a, "sdoreq", "down expedited") /\ a.o = call.o /\ a.data = p /\ a.cnt = NextMbxCnt(cnt)
    BY ONLY <2>2 DEF Coe, Says
  <2>4. Asks(a)'
    BY <1>2, <1>4, <1>8, <2>1, <2>3, EmptyIs DEF Asks, AsksToWrite, Says, Continue
  <2> QED BY <1>5, <2>1, <2>2, <2>3, <2>4
<1>9. CASE call.op = "write" /\ ~Expedited
  <2>1. /\ Continue("answer", [Coe("sdoreq", "down", call.o, First(p, InitData)) EXCEPT !.size = Len(p)])
        /\ p' = Rest(p, InitData)
    BY <1>9 DEF Request
  <2>2. PICK m, a : m = [Coe("sdoreq", "down", call.o, First(p, InitData)) EXCEPT !.size = Len(p)]
                    /\ a = [m EXCEPT !.cnt = NextMbxCnt(cnt)]
    OBVIOUS
  <2>3. Says(a, "sdoreq", "down") /\ a.o = call.o /\ a.data = First(p, InitData) /\ a.size = Len(p) /\ a.cnt = NextMbxCnt(cnt)
    BY ONLY <2>2 DEF Coe, Says
  <2>4. IsSeq(a.data) /\ IsSeq(p') /\ a.size = Len(a.data) + Len(p')
    BY <1>2, <1>9, <2>1, <2>3, Splits, DataNumbers
  <2>5. Asks(a)'
    BY <1>4, <1>9, <2>1, <2>3, <2>4 DEF Asks, AsksToWrite, Says, Continue
  <2> QED BY <1>5, <2>1, <2>2, <2>3, <2>5
<1>10. CASE call.op = "txpdo"
  <2>1. Continue("answer", Coe("txpdo rr", "pdo", call.o, << >>))
    BY <1>10 DEF Request
  <2>2. PICK m, a : m = Coe("txpdo rr", "pdo", call.o, << >>) /\ a = [m EXCEPT !.cnt = NextMbxCnt(cnt)]
    OBVIOUS
  <2>3. Says(a, "txpdo rr", "pdo") /\ a.cnt = NextMbxCnt(cnt)
    BY ONLY <2>2 DEF Coe, Says
  <2>4. Asks(a)'
    BY <1>4, <1>10, <2>1, <2>3 DEF Asks, Says, Continue
  <2> QED BY <1>5, <2>1, <2>2, <2>3, <2>4
<1>11. CASE call.op = "odlist"
  <2>1. Continue("list", Coe("info", "list", call.o, << >>))
    BY <1>11 DEF Request
  <2>2. PICK m, a : m = Coe("info", "list", call.o, << >>) /\ a = [m EXCEPT !.cnt = NextMbxCnt(cnt)]
    OBVIOUS
  <2>3. Says(a, "info", "list") /\ a.cnt = NextMbxCnt(cnt)
    BY ONLY <2>2 DEF Coe, Says
  <2>4. Asks(a)'
    BY <1>4, <1>11, <2>1, <2>3 DEF Asks, Says, Continue
  <2> QED BY <1>5, <2>1, <2>2, <2>3, <2>4
<1>12. CASE call.op = "describe"
  <2>1. Continue("answer", Coe("info", "describe", call.o, << >>))
    BY <1>12 DEF Request
  <2>2. PICK m, a : m = Coe("info", "describe", call.o, << >>) /\ a = [m EXCEPT !.cnt = NextMbxCnt(cnt)]
    OBVIOUS
  <2>3. Says(a, "info", "describe") /\ a.cnt = NextMbxCnt(cnt)
    BY ONLY <2>2 DEF Coe, Says
  <2>4. Asks(a)'
    BY <1>4, <1>12, <2>1, <2>3 DEF Asks, Says, Continue
  <2> QED BY <1>5, <2>1, <2>2, <2>3, <2>4
<1>13. CASE call.op = "entries"
  <2>1. Continue("answer", Coe("info", "entry", NextEntry, << >>))
    BY <1>13 DEF Request
  <2>2. PICK m, a : m = Coe("info", "entry", NextEntry, << >>) /\ a = [m EXCEPT !.cnt = NextMbxCnt(cnt)]
    OBVIOUS
  <2>3. Says(a, "info", "entry") /\ a.cnt = NextMbxCnt(cnt)
    BY ONLY <2>2 DEF Coe, Says
  <2>4. Asks(a)'
    BY <1>4, <1>13, <2>1, <2>3 DEF Asks, Says, Continue
  <2> QED BY <1>5, <2>1, <2>2, <2>3, <2>4
<1>14. CASE call.op = "rxpdo"
  <2>1. /\ pc' = "sent" /\ Send(Coe("rxpdo", "pdo", call.o, First(p, InitData + 8)), FALSE)
        /\ UNCHANGED <<client, call, calls, result, sound, errors, slave, seen, faults, objects>>
    BY <1>14 DEF Request
  <2>2. PICK a : a = [Coe("rxpdo", "pdo", call.o, First(p, InitData + 8)) EXCEPT !.cnt = NextMbxCnt(cnt)]
    OBVIOUS
  <2>3. Says(a, "rxpdo", "pdo") /\ a.cnt = NextMbxCnt(cnt)
    BY ONLY <2>2 DEF Coe, Says
  <2>4. /\ mbxOut' = a /\ cnt' = NextMbxCnt(cnt) /\ at' = "empty" /\ want' = FALSE
        /\ UNCHANGED <<sm0, sm1, outq, lastout, again, late, store, server>>
    BY <2>1, <2>2 DEF Send, slave, faults, objects
  <2>5. Calm' /\ Unasked'
    BY <1>2, <2>4 DEF Calm, Places, Waiting, Idle, Notice, Unasked, Says
  <2>6. Dispatching'
    BY <1>3, <1>4, <1>14, <2>1, <2>3, <2>4, <2>5 DEF Dispatching, Quietude, Says
  <2>7. Counters' /\ Repeats'
    BY <1>1, <2>1, <2>3, <2>4, Dispatch
  <2>8. Holds'
    BY <1>1, <2>1, <2>4, <1>3 DEF Prompt, Holds
  <2> QED BY <2>6, <2>7, <2>8 DEF Prompt
<1> QED BY <1>1, <1>7, <1>8, <1>9, <1>10, <1>11, <1>12, <1>13, <1>14 DEF CoeOps
-----------------------------------------------------------------------------
(* The answer a call has when the receiving ends.                           *)
LEMMA AnsweredWell ==
  ASSUME Fair, Prompt, at = "end", pc \in {"answer", "segment", "list"}
  PROVE  /\ wkc = 1 /\ sm0 = None /\ Unasked /\ Replies(mbxIn) /\ ~quick
         /\ IF Part(mbxIn) THEN Coming ELSE Calm
         /\ pc # "list" => Calm
         /\ toggle \in BOOLEAN /\ (pc # "segment" => ~toggle)
<1>1. Asking
  BY DEF Prompt, Resting, Clearing, Dispatching
<1>2. /\ wkc = 1 /\ sm0 = None /\ Replies(mbxIn) /\ ~quick
      /\ IF Part(mbxIn) THEN Coming ELSE Calm
      /\ pc # "segment" => ~toggle
  BY <1>1 DEF Asking
<1> QED BY <1>2 DEF Unasked, Part, Prompt, Holds

LEMMA SentPrompt ==
  ASSUME Fair, Prompt, Sent
  PROVE  Prompt'
<1>1. pc = "sent" /\ at = "end"
  BY DEF Sent
<1>2. wkc = 1 /\ Calm /\ Unasked
  BY <1>1 DEF Prompt, Resting, Clearing, Dispatching, Asking, Quietude
<1>3. Finish("ok", << >>)
  BY <1>2 DEF Sent
<1> QED BY <1>1, <1>2, <1>3, FinishPrompt

LEMMA AlwaysAnswer == ASSUME Fair, Prompt, NoAnswer PROVE FALSE
<1>1. pc \in {"answer", "list"} /\ at = "end" /\ wkc <= 0
  BY DEF NoAnswer
<1> QED BY <1>1, AnsweredWell

LEMMA ReadAnswerPrompt ==
  ASSUME Fair, Prompt, ReadAnswer
  PROVE  Prompt'
<1>1. pc = "answer" /\ at = "end" /\ call.op = "read"
  BY DEF ReadAnswer, Answered
<1>2. Unasked /\ Replies(mbxIn) /\ Calm /\ ~toggle
  BY <1>1, AnsweredWell
<1>3. RepliesToRead(mbxIn)
  BY <1>1, <1>2 DEF Replies
<1>4. SdoResponse /\ mbxIn.o.idx = call.o.idx
  BY <1>1, <1>3 DEF RepliesToRead, Says, SdoResponse
<1>5. \/ Finish("ok", mbxIn.data) \/ Finish("ok", First(mbxIn.data, mbxIn.size)) \/ Finish("small", << >>)
      \/ /\ mbxIn.cmd # "up expedited" /\ Len(mbxIn.data) < mbxIn.size /\ toggle' = TRUE
         /\ Continue("segment", Coe("sdoreq", "segment up", call.o, << >>))
  BY <1>4 DEF ReadAnswer
<1>6. CASE Finish("ok", mbxIn.data) \/ Finish("ok", First(mbxIn.data, mbxIn.size)) \/ Finish("small", << >>)
  BY <1>1, <1>2, <1>6, FinishPrompt
<1>7. CASE /\ mbxIn.cmd # "up expedited" /\ Len(mbxIn.data) < mbxIn.size /\ toggle' = TRUE
           /\ Continue("segment", Coe("sdoreq", "segment up", call.o, << >>))
  <2>1. Uploading(FALSE)
    <3>1. Uploading(toggle)
      BY <1>1, <1>3, <1>7 DEF RepliesToRead, Says
    <3>2. toggle = FALSE
      BY <1>2 DEF Prompt, Holds
    <3> QED BY <3>1, <3>2
  <2>2. PICK m, a : m = Coe("sdoreq", "segment up", call.o, << >>) /\ a = [m EXCEPT !.cnt = NextMbxCnt(cnt)]
    OBVIOUS
  <2>3. Says(a, "sdoreq", "segment up") /\ a.toggle = FALSE /\ a.cnt = NextMbxCnt(cnt)
    BY ONLY <2>2 DEF Coe, Says
  <2>4. UNCHANGED <<call, server>> /\ pc' = "segment"
    BY <1>7 DEF Continue, objects
  <2>5. Asks(a)'
    BY <1>1, <1>7, <2>1, <2>3, <2>4 DEF Asks, AsksToRead, Says, Uploading
  <2> QED BY <1>1, <1>2, <1>7, <2>2, <2>3, <2>5, ContinuePrompt
<1> QED BY <1>5, <1>6, <1>7

LEMMA ReadSegmentPrompt ==
  ASSUME Fair, Prompt, ReadSegment
  PROVE  Prompt'
<1>1. pc = "segment" /\ at = "end" /\ call.op = "read"
  BY DEF ReadSegment
<1>2. Unasked /\ Replies(mbxIn) /\ Calm /\ wkc = 1 /\ toggle \in BOOLEAN
  BY <1>1, AnsweredWell
<1>3. RepliesToRead(mbxIn)
  BY <1>1, <1>2 DEF Replies
<1>4. SdoResponse /\ mbxIn.cmd = "segment up" /\ (~mbxIn.last => Uploading(toggle))
  BY <1>1, <1>3 DEF RepliesToRead, Says, SdoResponse
<1>5. (\E d : Finish("ok", d)) \/ (~mbxIn.last /\ NextSegmentUp)
  <2>1. ~(wkc <= 0)
    BY <1>2
  <2> QED BY <1>4, <2>1, Zenon DEF ReadSegment
<1>6. CASE \E d : Finish("ok", d)
  BY <1>1, <1>2, <1>6, FinishPrompt
<1>7. CASE ~mbxIn.last /\ NextSegmentUp
  <2>1. toggle' = ~toggle /\ Continue("segment", [Coe("sdoreq", "segment up", call.o, << >>) EXCEPT !.toggle = toggle])
    BY <1>7 DEF NextSegmentUp
  <2>2. PICK m, a : m = [Coe("sdoreq", "segment up", call.o, << >>) EXCEPT !.toggle = toggle]
                    /\ a = [m EXCEPT !.cnt = NextMbxCnt(cnt)]
    OBVIOUS
  <2>3. Says(a, "sdoreq", "segment up") /\ a.toggle = toggle /\ a.cnt = NextMbxCnt(cnt)
    BY ONLY <2>2 DEF Coe, Says
  <2>4. UNCHANGED <<call, server>> /\ pc' = "segment"
    BY <2>1 DEF Continue, objects
  <2>5. a.toggle = ~toggle'
    BY <1>2, <2>1, <2>3
  <2>6. Asks(a)'
    BY <1>1, <1>4, <1>7, <2>3, <2>4, <2>5 DEF Asks, AsksToRead, Says, Uploading
  <2>7. toggle' \in BOOLEAN
    BY <2>1
  <2> QED BY <1>1, <1>2, <2>1, <2>2, <2>3, <2>6, <2>7, ContinuePrompt
<1> QED BY <1>5, <1>6, <1>7

(* The next segment of a write, of which Len(p) bytes are left.             *)
LEMMA SegmentDownPrompt ==
  ASSUME Fair, Prompt, at = "end", pc \in {"answer", "segment"}, call.op = "write", IsSeq(p),
         Downloading(toggle, Len(p)), NextSegmentDown(toggle)
  PROVE  Prompt'
<1>1. Unasked /\ Calm /\ toggle \in BOOLEAN
  BY AnsweredWell
<1> DEFINE d == First(p, SegData)
           u == IF Len(d) < 7 THEN 7 - Len(d) ELSE 0
           l == Len(p) <= SegData
<1>2. /\ p' = Rest(p, SegData) /\ toggle' = ~toggle
      /\ Continue("segment", [Coe("sdoreq", "segment down", call.o, Padded(d)) EXCEPT
                   !.toggle = toggle, !.last = l, !.unused = u])
  BY DEF NextSegmentDown
<1>3. PICK m, a : m = [Coe("sdoreq", "segment down", call.o, Padded(d)) EXCEPT !.toggle = toggle, !.last = l, !.unused = u]
                  /\ a = [m EXCEPT !.cnt = NextMbxCnt(cnt)]
  OBVIOUS
<1>4. /\ IsSeq(d) /\ IsSeq(p') /\ Len(d) + Len(p') = Len(p) /\ (l <=> p' = << >>)
  BY <1>2, Splits, DataNumbers
<1> HIDE DEF l
<1>5. IsSeq(Padded(d)) /\ u \in 0 .. Len(Padded(d)) /\ Len(Padded(d)) - u = Len(d)
  <2> HIDE DEF d
  <2> QED BY <1>4, PaddedIs
<1> HIDE DEF d, u
<1>6. /\ Says(a, "sdoreq", "segment down") /\ a.toggle = toggle /\ a.cnt = NextMbxCnt(cnt)
      /\ a.data = Padded(d) /\ a.last = l /\ a.unused = u
  BY ONLY <1>3 DEF Coe, Says
<1>7. UNCHANGED <<call, server>> /\ pc' = "segment"
  BY <1>2 DEF Continue, objects
<1>8. a.toggle = ~toggle' /\ toggle' \in BOOLEAN
  BY <1>1, <1>2, <1>6
<1>9. Len(a.data) - a.unused + Len(p') = Len(p)
  BY <1>4, <1>5, <1>6
<1>10. /\ {"kind", "toggle", "data"} \subseteq DOMAIN server'
       /\ server'.kind = "down" /\ server'.toggle = a.toggle /\ IsSeq(server'.data)
       /\ server'.size = Len(server'.data) + (Len(a.data) - a.unused + Len(p'))
  <2>1. /\ {"kind", "toggle", "data"} \subseteq DOMAIN server
        /\ server.kind = "down" /\ server.toggle = toggle
        /\ IsSeq(server.data) /\ server.size = Len(server.data) + Len(p)
    BY DEF Downloading
  <2>2. server' = server /\ a.toggle = toggle
    BY <1>6, <1>7
  <2> QED BY <1>9, <2>1, <2>2
<1>11. AsksToWrite(a)'
  <2>1. (a.last <=> p' = << >>) /\ a.unused \in 0 .. Len(a.data) /\ IsSeq(a.data)
    BY <1>4, <1>5, <1>6
  <2>2. Downloading(a.toggle, Len(a.data) - a.unused + Len(p))'
    BY <1>10, Zenon DEF Downloading
  <2> QED BY <1>4, <1>6, <1>7, <1>8, <2>1, <2>2, Zenon DEF AsksToWrite, Says
<1>12. Asks(a)'
  BY <1>7, <1>11 DEF Asks
<1> QED BY <1>1, <1>2, <1>3, <1>6, <1>8, <1>12, ContinuePrompt

LEMMA WritePrompt ==
  ASSUME Fair, Prompt, WriteAnswer \/ WriteSegment
  PROVE  Prompt'
<1>1. pc \in {"answer", "segment"} /\ at = "end" /\ call.op = "write"
  BY DEF WriteAnswer, WriteSegment, Answered
<1>2. Unasked /\ Replies(mbxIn) /\ Calm /\ wkc = 1 /\ (pc = "answer" => toggle = FALSE)
  BY <1>1, AnsweredWell
<1>3. RepliesToWrite(mbxIn)
  BY <1>1, <1>2 DEF Replies
<1>4. /\ SdoResponse
      /\ pc = "answer" => mbxIn.o.idx = call.o.idx /\ mbxIn.o.sub = call.o.sub
      /\ pc = "segment" => mbxIn.cmd = "segment down"
      /\ IsSeq(p) /\ (p # << >> => Downloading(toggle, Len(p)))
  BY <1>3 DEF RepliesToWrite, Says, SdoResponse
<1>5. (p # << >> /\ NextSegmentDown(toggle)) \/ Finish("ok", << >>)
  <2>0. ~(wkc <= 0) /\ wkc > 0
    BY <1>2
  <2>1. CASE WriteAnswer
    BY <1>2, <1>4, <2>0, <2>1, Zenon DEF WriteAnswer, Answered
  <2>2. CASE WriteSegment
    BY <1>2, <1>4, <2>0, <2>2, Zenon DEF WriteSegment
  <2> QED BY <2>1, <2>2
<1>6. CASE p # << >> /\ NextSegmentDown(toggle)
  BY <1>1, <1>4, <1>6, SegmentDownPrompt
<1>7. CASE Finish("ok", << >>)
  BY <1>1, <1>2, <1>7, FinishPrompt
<1> QED BY <1>5, <1>6, <1>7

LEMMA OtherAnswerPrompt ==
  ASSUME Fair, Prompt, TxPdoAnswer \/ DescribeAnswer
  PROVE  Prompt'
<1>1. pc = "answer" /\ at = "end" /\ call.op \in {"txpdo", "describe"}
  BY DEF TxPdoAnswer, DescribeAnswer, Answered
<1>2. Unasked /\ Replies(mbxIn) /\ Calm
  BY <1>1, AnsweredWell
<1>3. \E d : Finish("ok", d) \/ Finish("small", d)
  <2>1. CASE TxPdoAnswer
    <3>1. mbxIn.type = "coe" /\ mbxIn.service = "txpdo"
      BY <1>2, <2>1 DEF TxPdoAnswer, Replies, Says
    <3> QED BY <2>1, <3>1 DEF TxPdoAnswer
  <2>2. CASE DescribeAnswer
    <3>1. mbxIn.type = "coe" /\ mbxIn.cmd = "describe"
      BY <1>2, <2>2 DEF DescribeAnswer, Replies, Says
    <3> QED BY <2>2, <3>1 DEF DescribeAnswer
  <2> QED BY <2>1, <2>2
<1> QED BY <1>1, <1>2, <1>3, FinishPrompt

LEMMA EntryPrompt ==
  ASSUME Fair, Prompt, EntryAnswer
  PROVE  Prompt'
<1>1. pc = "answer" /\ at = "end" /\ call.op = "entries"
  BY DEF EntryAnswer
<1>2. Unasked /\ Replies(mbxIn) /\ Calm /\ wkc = 1 /\ ~toggle
  BY <1>1, AnsweredWell
<1>3. wkc > 0 /\ mbxIn.type = "coe" /\ mbxIn.cmd = "entry"
  BY <1>1, <1>2 DEF Replies, Says
<1>4. \/ \E d : Finish("ok", d)
      \/ /\ pc' = "clear" /\ Receive(TRUE)
         /\ UNCHANGED <<client, call, calls, toggle, result, slave, seen, faults, objects>>
  BY <1>3 DEF EntryAnswer
<1>5. CASE \E d : Finish("ok", d)
  BY <1>1, <1>2, <1>5, FinishPrompt
<1>6. CASE /\ pc' = "clear" /\ Receive(TRUE)
           /\ UNCHANGED <<client, call, calls, toggle, result, slave, seen, faults, objects>>
  <2>1. /\ at' = "poll" /\ quick' = TRUE /\ cnt' = cnt
        /\ UNCHANGED <<sm0, sm1, outq, lastout, again, late, store, server>>
    BY <1>6 DEF Receive, slave, faults, objects
  <2>2. Calm' /\ Unasked'
    BY <1>2, <2>1 DEF Calm, Places, Waiting, Idle, Notice, Unasked, Says
  <2>3. Clearing'
    BY <1>1, <1>2, <1>6, <2>1, <2>2 DEF Clearing, Quietude
  <2>4. Holds' /\ Counters' /\ Repeats'
    BY <1>1, <1>6, <2>1 DEF Prompt, Holds, Counters, LastSent, Repeats
  <2> QED BY <2>3, <2>4 DEF Prompt
<1> QED BY <1>4, <1>5, <1>6

LEMMA ListPrompt ==
  ASSUME Fair, Prompt, ListAnswer
  PROVE  Prompt'
<1>1. pc = "list" /\ at = "end"
  BY DEF ListAnswer, Answered
<1>2. /\ Unasked /\ Replies(mbxIn) /\ ~toggle /\ sm0 = None /\ ~quick
      /\ IF Part(mbxIn) THEN Coming ELSE Calm
  BY <1>1, AnsweredWell
<1>3. call.op = "odlist" /\ mbxIn.type = "coe" /\ mbxIn.cmd = "list"
  BY <1>1, <1>2 DEF Replies, RepliesToRead, RepliesToWrite, Says
<1>4. \/ mbxIn.last /\ \E d : Finish("ok", d)
      \/ /\ ~mbxIn.last /\ Receive(FALSE)
         /\ UNCHANGED <<client, pc, call, calls, toggle, result, sound, slave, seen, faults, objects>>
  BY <1>3 DEF ListAnswer
<1>5. CASE mbxIn.last /\ \E d : Finish("ok", d)
  <2>1. Calm
    BY <1>2, <1>5 DEF Part
  <2> QED BY <1>1, <1>2, <1>5, <2>1, FinishPrompt
<1>6. CASE /\ ~mbxIn.last /\ Receive(FALSE)
           /\ UNCHANGED <<client, pc, call, calls, toggle, result, sound, slave, seen, faults, objects>>
  <2>1. /\ at' = "poll" /\ quick' = FALSE /\ cnt' = cnt
        /\ UNCHANGED <<sm0, sm1, outq, lastout, again, late, store, server>>
    BY <1>6 DEF Receive, slave, faults, objects
  <2>2. Coming
    BY <1>1, <1>2, <1>6 DEF Part
  <2>3. \A m : (Final(m)' <=> Final(m)) /\ (Part(m)' <=> Part(m))
    <3>1. \A m : Replies(m)' <=> Replies(m)
      BY <1>1, <1>3, <1>6 DEF Replies, Says
    <3> QED BY <1>6, <3>1 DEF Final, Part
  <2>4. Coming'
    <3>1. Places' = Places /\ \A k : Waiting(k)' = Waiting(k)
      BY <2>1 DEF Places, Waiting
    <3>2. \A k \in Places : (Final(Waiting(k))' <=> Final(Waiting(k))) /\ (Part(Waiting(k))' <=> Part(Waiting(k)))
                             /\ (Idle(Waiting(k))' <=> Idle(Waiting(k)))
      BY <2>3, <3>1 DEF Idle, Notice
    <3> QED BY <2>2, <3>1, <3>2 DEF Coming
  <2>5. Asking'
    BY <1>1, <1>2, <1>6, <2>1, <2>4 DEF Asking, Pending
  <2>6. Holds' /\ Counters' /\ Repeats'
    BY <1>1, <1>6, <2>1 DEF Prompt, Holds, Counters, LastSent, Repeats
  <2> QED BY <2>5, <2>6 DEF Prompt
<1> QED BY <1>4, <1>5, <1>6

LEMMA ClientPrompt ==
  ASSUME Fair, Prompt, CoeClient
  PROVE  Prompt'
BY BeginPrompt, RequestPrompt, SentPrompt, AlwaysAnswer, ReadAnswerPrompt, ReadSegmentPrompt, WritePrompt,
   OtherAnswerPrompt, EntryPrompt, ListPrompt DEF CoeClient
-----------------------------------------------------------------------------
(* What the slave takes: the message of ecx_RxPDO, or the request the master*)
(* waits with.                                                              *)
Waits ==
  /\ sm0 # None /\ Asks(sm0) /\ Calm
  /\ pc \in {"answer", "segment", "list"} /\ ~quick /\ (pc # "segment" => ~toggle)
  /\ at \in {"poll", "fetch", "repeat", "ack"}

LEMMA AsksService == \A m : Asks(m) => m.service # "rxpdo"
BY DEF Asks, AsksToRead, AsksToWrite, Says

LEMMA WhatIsAsked ==
  ASSUME Fair, Prompt, sm0.type = "coe"
  PROVE  Says(sm0, "rxpdo", "pdo") \/ Waits
<1>1. sm0 # None
  BY NoticesAre
<1>2. CASE Resting \/ Clearing \/ Dispatching
  BY <1>1, <1>2 DEF Resting, Clearing, Dispatching, Quietude, Unasked
<1>3. CASE Asking
  BY <1>1, <1>3 DEF Asking, Pending, Quietude, Unasked, Waits
<1> QED BY <1>2, <1>3 DEF Prompt

LEMMA DroppedPrompt ==
  ASSUME Fair, Prompt, sm0.type = "coe", sm0.service = "rxpdo", Take(<< >>),
         UNCHANGED <<program, toggle, store, server>>
  PROVE  Prompt'
<1>1. UNCHANGED <<client, pc, call, calls, p, result>>
  BY DEF program
<1>2. /\ seen' = sm0.cnt /\ sm0' = None /\ outq' = outq \o << >> /\ sm0 # None
      /\ UNCHANGED <<at, quick, want, mbxOut, mbxIn, wkc, cnt, sm1, lastout, again, late>>
  BY DEF Take, master, faults
<1>3. outq' = outq
  <2>1. PICK S : outq \in Seq(S)
    BY Common DEF Prompt, Holds
  <2>2. outq \o << >> = outq
    BY <2>1
  <2> QED BY <1>2, <2>2
<1>4. Calm' <=> Calm
  BY <1>2, <1>3 DEF Calm, Places, Waiting, Idle, Notice
<1>5. Unasked' /\ ~Asks(sm0)
  BY <1>2, AsksService DEF Unasked
<1>6. Phases'
  <2>1. CASE Resting
    BY <1>1, <1>2, <1>4, <1>5, <2>1 DEF Resting, Quietude, Phases
  <2>2. CASE Clearing
    BY <1>1, <1>2, <1>4, <1>5, <2>2 DEF Clearing, Quietude, Phases
  <2>3. CASE Dispatching
    BY <1>1, <1>2, <1>4, <1>5, <2>3 DEF Dispatching, Quietude, Phases, Says
  <2>4. CASE Asking
    <3>1. at = "empty" /\ want /\ Asks(mbxOut) /\ Calm /\ pc \in {"answer", "segment", "list"} /\ ~quick
          /\ (pc # "segment" => ~toggle)
      BY <1>2, <1>5, <2>4 DEF Asking, Pending, Quietude
    <3>2. Asks(mbxOut)'
      BY <1>1, <1>2, <3>1, SameCall
    <3> QED BY <1>1, <1>2, <1>4, <1>5, <3>1, <3>2 DEF Asking, Quietude, Phases
  <2> QED BY <2>1, <2>2, <2>3, <2>4 DEF Prompt
<1>7. Counters'
  <2>1. sm0.cnt = NextMbxCnt(seen) /\ seen \in 0 .. MaxMbxCnt
    BY <1>2 DEF Prompt, Counters
  <2>2. seen' \in 0 .. MaxMbxCnt
    BY <1>2, <2>1, NextCnt, FairIs
  <2> QED BY <1>2, <2>2 DEF Prompt, Counters, LastSent
<1>8. Holds' /\ Repeats'
  BY <1>1, <1>2, <1>3 DEF Prompt, Holds, Repeats
<1> QED BY <1>6, <1>7, <1>8 DEF Prompt, Phases

(* The slave answers the request: its messages end with the answer.         *)
LEMMA ServedPrompt ==
  ASSUME Fair, Prompt, Waits, NEW q, IsSeq(q), Len(q) > 0, Take(q), UNCHANGED <<program, toggle>>,
         DOMAIN store' = Objects, \A o \in Objects : IsSeq(store'[o]),
         Final(q[Len(q)])', \A k \in 1 .. Len(q) - 1 : Part(q[k])'
  PROVE  Prompt'
<1>1. UNCHANGED <<client, pc, call, calls, p, result>>
  BY DEF program
<1>2. /\ seen' = sm0.cnt /\ sm0' = None /\ outq' = outq \o q /\ sm0 # None
      /\ UNCHANGED <<at, quick, want, mbxOut, mbxIn, wkc, cnt, sm1, lastout, again, late>>
  BY DEF Take, master, faults
<1>3. /\ IsSeq(outq') /\ Len(outq') = Len(outq) + Len(q) /\ Len(outq) \in Nat /\ Len(q) \in Nat
      /\ \A k \in 1 .. Len(outq) : outq'[k] = outq[k]
      /\ \A k \in Len(outq) + 1 .. Len(outq) + Len(q) : outq'[k] = q[k - Len(outq)]
  <2>1. IsSeq(outq) /\ outq' = outq \o q
    BY <1>2 DEF Prompt, Holds
  <2>2. Len(outq) \in Nat /\ Len(q) \in Nat
    BY <2>1 DEF IsSeq
  <2>3. /\ IsSeq(outq \o q) /\ Len(outq \o q) = Len(outq) + Len(q)
        /\ \A k \in 1 .. Len(outq) : (outq \o q)[k] = outq[k]
        /\ \A k \in Len(outq) + 1 .. Len(outq) + Len(q) : (outq \o q)[k] = q[k - Len(outq)]
    BY <2>1, JoinIs
  <2> QED BY <2>1, <2>2, <2>3
<1>4. Coming'
  <2> PICK n : n = Len(outq) + Len(q)
    OBVIOUS
  <2>1. n \in Places' /\ n # 0 /\ n - Len(outq) = Len(q) /\ n \in Len(outq) + 1 .. Len(outq) + Len(q)
    BY <1>3 DEF Places
  <2>2. Final(Waiting(n))'
    <3>1. Waiting(n)' = q[Len(q)]
      BY <1>2, <1>3, <2>1 DEF Waiting
    <3> QED BY <3>1
  <2>3. ASSUME NEW j \in Places'
        PROVE  j <= n /\ (j < n => Idle(Waiting(j))' \/ Part(Waiting(j))')
    <3>1. j \in 0 .. n
      BY <1>3 DEF Places
    <3>2. CASE j <= Len(outq)
      <4>1. j \in Places /\ Waiting(j)' = Waiting(j)
        BY <1>2, <1>3, <3>1, <3>2 DEF Places, Waiting
      <4>2. Idle(Waiting(j))
        BY <4>1 DEF Waits, Calm
      <4> QED BY <3>1, <4>1, <4>2 DEF Idle, Notice
    <3>3. CASE j > Len(outq) /\ j < n
      <4>1. j - Len(outq) \in 1 .. Len(q) - 1 /\ j # 0 /\ j \in Len(outq) + 1 .. Len(outq) + Len(q)
        BY <1>3, <3>1, <3>3
      <4>2. Waiting(j)' = q[j - Len(outq)]
        BY <1>3, <4>1 DEF Waiting
      <4> QED BY <3>3, <4>1, <4>2
    <3> QED BY <1>3, <3>1, <3>2, <3>3
  <2>4. \A j \in Places' : (j < n => Idle(Waiting(j))' \/ Part(Waiting(j))') /\ (j > n => Idle(Waiting(j))')
    BY <1>3, <2>3 DEF Places
  <2> QED BY <2>1, <2>2, <2>4 DEF Coming
<1>5. Asking'
  BY <1>1, <1>2, <1>4 DEF Waits, Asking, Pending
<1>6. Counters'
  <2>1. sm0.cnt = NextMbxCnt(seen) /\ seen \in 0 .. MaxMbxCnt
    BY <1>2 DEF Prompt, Counters
  <2>2. seen' \in 0 .. MaxMbxCnt
    BY <1>2, <2>1, NextCnt, FairIs
  <2> QED BY <1>2, <2>2 DEF Prompt, Counters, LastSent
<1>7. Holds' /\ Repeats'
  BY <1>1, <1>2, <1>3 DEF Prompt, Holds, Repeats
<1> QED BY <1>5, <1>6, <1>7 DEF Prompt

(* One message is the whole answer.                                         *)
LEMMA ReplyPrompt ==
  ASSUME Fair, Prompt, Waits, pc # "list", NEW m, NEW a, a = [m EXCEPT !.re = sm0.cnt], Reply(m),
         UNCHANGED <<program, toggle>>, DOMAIN store' = Objects, \A o \in Objects : IsSeq(store'[o]), Replies(a)'
  PROVE  Prompt'
<1>1. PICK q : q = <<a>>
  OBVIOUS
<1>2. IsSeq(q) /\ Len(q) = 1 /\ q[1] = a
  BY <1>1 DEF IsSeq
<1>3. Take(q)
  BY <1>1 DEF Reply
<1>4. pc' = pc
  BY DEF program
<1>5. Final(q[Len(q)])'
  BY <1>2, <1>4 DEF Final
<1>6. \A k \in 1 .. Len(q) - 1 : Part(q[k])'
  BY <1>2
<1> QED BY <1>2, <1>3, <1>5, <1>6, ServedPrompt

LEMMA WhenEmpty ==
  ASSUME NEW q, IsSeq(q)
  PROVE  Len(q) \in Nat /\ (q = << >> <=> Len(q) = 0)
<1>1. PICK S : q \in Seq(S)
  BY Common
<1> QED BY <1>1

(* Which request the slave has, by its command.                             *)
LEMMA Question ==
  ASSUME Fair, Prompt, sm0.type = "coe", sm0.cmd # "pdo"
  PROVE  /\ Waits
         /\ sm0.cmd = "up" => call.op = "read" /\ pc = "answer" /\ sm0.o = call.o
         /\ sm0.cmd = "segment up" => call.op = "read" /\ pc = "segment" /\ AsksToRead(sm0)
         /\ sm0.cmd = "down" => call.op = "write" /\ pc = "answer" /\ AsksToWrite(sm0)
         /\ sm0.cmd = "down expedited" => call.op = "write" /\ pc = "answer" /\ AsksToWrite(sm0)
         /\ sm0.cmd = "segment down" => call.op = "write" /\ pc = "segment" /\ AsksToWrite(sm0)
         /\ sm0.cmd = "list" => call.op = "odlist" /\ pc = "list"
         /\ sm0.cmd = "describe" => call.op = "describe" /\ pc = "answer"
         /\ sm0.cmd = "entry" => call.op = "entries" /\ pc = "answer"
<1>1. Waits
  BY WhatIsAsked DEF Says
<1>2. Asks(sm0)
  BY <1>1 DEF Waits
<1> QED BY <1>1, <1>2 DEF Asks, AsksToRead, AsksToWrite, Says

LEMMA CalledObject ==
  ASSUME Fair, Prompt, pc # "idle"
  PROVE  call.o \in Objects /\ IsSeq(store[call.o])
<1>1. call \in client.calls /\ call.op \in CoeOps
  BY FairIs DEF Prompt, Holds
<1>2. call.o \in Objects
  BY <1>1, CoEAssumption DEF CoEAssumption, CoeCall, Fair
<1> QED BY <1>2 DEF Prompt, Holds

LEMMA ServeUploadPrompt ==
  ASSUME Fair, Prompt, ServeUpload
  PROVE  Prompt'
<1>1. sm0.type = "coe" /\ sm0.cmd = "up" /\ UNCHANGED <<program, toggle, store>>
  BY DEF ServeUpload, session
<1>2. Waits /\ call.op = "read" /\ pc = "answer" /\ sm0.o = call.o
  BY <1>1, Question
<1>3. PICK d : d = store[sm0.o]
  OBVIOUS
<1>4. IsSeq(d) /\ Len(d) \in Nat
  BY <1>2, <1>3, CalledObject DEF IsSeq
<1>5. UNCHANGED <<pc, call, toggle>> /\ toggle = FALSE
  BY <1>1, <1>2 DEF program, Waits, Prompt, Holds
<1>6. DOMAIN store' = Objects /\ \A o \in Objects : IsSeq(store'[o])
  BY <1>1 DEF Prompt, Holds
<1>7. CASE Len(d) <= 4 /\ ~sm0.o.ca
  <2>1. PICK m, a : m = Coe("sdores", "up expedited", sm0.o, d) /\ a = [m EXCEPT !.re = sm0.cnt]
    OBVIOUS
  <2>2. Says(a, "sdores", "up expedited") /\ a.o = sm0.o
    BY ONLY <2>1 DEF Coe, Says
  <2>3. Reply(m)
    BY <1>3, <1>7, <2>1 DEF ServeUpload
  <2>4. Replies(a)'
    BY <1>2, <1>5, <2>2 DEF Replies, RepliesToRead, Says
  <2> QED BY <1>1, <1>2, <1>6, <2>1, <2>3, <2>4, ReplyPrompt
<1>8. CASE ~(Len(d) <= 4 /\ ~sm0.o.ca)
  <2>1. PICK m, a : m = [Coe("sdores", "up", sm0.o, First(d, InitData)) EXCEPT !.size = Len(d)]
             /\ a = [m EXCEPT !.re = sm0.cnt]
    OBVIOUS
  <2>2. Says(a, "sdores", "up") /\ a.o = sm0.o /\ a.data = First(d, InitData) /\ a.size = Len(d)
    BY ONLY <2>1 DEF Coe, Says
  <2>3. Reply(m)
    BY <1>3, <1>8, <2>1 DEF ServeUpload
  <2>4. Len(a.data) < a.size => Len(d) > InitData
    BY <1>4, <2>2, Splits, DataNumbers
  <2>5. Len(d) > InitData => server' = [kind |-> "up", o |-> sm0.o, data |-> Rest(d, InitData), toggle |-> FALSE]
    BY <1>3, <1>8 DEF ServeUpload
  <2>6. Len(d) > InitData => Uploading(toggle)'
    <3> HAVE Len(d) > InitData
    <3>1. PICK r : r = Rest(d, InitData)
      OBVIOUS
    <3>2. server' = [kind |-> "up", o |-> sm0.o, data |-> r, toggle |-> FALSE]
      BY <2>5, <3>1
    <3>3. server'.kind = "up" /\ server'.toggle = FALSE /\ {"kind", "toggle", "data"} \subseteq DOMAIN server'
      BY ONLY <3>2
    <3> QED BY <1>5, <3>3 DEF Uploading
  <2>7. Replies(a)'
    BY <1>2, <1>5, <2>2, <2>4, <2>6 DEF Replies, RepliesToRead, Says
  <2> QED BY <1>1, <1>2, <1>6, <2>1, <2>3, <2>7, ReplyPrompt
<1> QED BY <1>7, <1>8

LEMMA ServeUploadSegmentPrompt ==
  ASSUME Fair, Prompt, ServeUploadSegment
  PROVE  Prompt'
<1>1. sm0.type = "coe" /\ sm0.cmd = "segment up" /\ UNCHANGED <<program, toggle>>
  BY DEF ServeUploadSegment, session
<1>2. Waits /\ call.op = "read" /\ pc = "segment" /\ sm0.toggle = ~toggle /\ Uploading(sm0.toggle)
  BY <1>1, Question DEF AsksToRead
<1>3. PICK d, s : d = First(server.data, SegData) /\ s = (Len(server.data) <= SegData)
  OBVIOUS
<1>4. /\ Reply([Coe("sdores", "segment up", sm0.o, Padded(d)) EXCEPT
                  !.last = s, !.unused = IF Len(d) < 7 THEN 7 - Len(d) ELSE 0])
      /\ ~s => server' = [server EXCEPT !.data = Rest(@, SegData), !.toggle = ~@]
      /\ UNCHANGED store
  BY <1>2, <1>3 DEF ServeUploadSegment, Uploading
<1>5. UNCHANGED <<pc, call, toggle>> /\ toggle \in BOOLEAN
  BY <1>1 DEF program, Prompt, Holds
<1>6. DOMAIN store' = Objects /\ \A o \in Objects : IsSeq(store'[o])
  BY <1>4 DEF Prompt, Holds
<1>7. PICK u : u = IF Len(d) < 7 THEN 7 - Len(d) ELSE 0
  OBVIOUS
<1>8. PICK m, a : m = [Coe("sdores", "segment up", sm0.o, Padded(d)) EXCEPT !.last = s, !.unused = u]
            /\ a = [m EXCEPT !.re = sm0.cnt]
  OBVIOUS
<1>9. Says(a, "sdores", "segment up") /\ a.last = s
  BY ONLY <1>8 DEF Coe, Says
<1>10. ~s => Uploading(toggle)'
  BY <1>2, <1>4, <1>5 DEF Uploading
<1>11. Replies(a)'
  BY <1>2, <1>5, <1>9, <1>10 DEF Replies, RepliesToRead, Says
<1>12. Reply(m)
  BY <1>4, <1>7, <1>8
<1> QED BY <1>1, <1>2, <1>6, <1>8, <1>11, <1>12, ReplyPrompt

(* What the slave applies is a sequence of bytes.                           *)
LEMMA ApplyKeeps ==
  ASSUME Prompt, NEW o, NEW d, IsSeq(d), Apply(o, d)
  PROVE  DOMAIN store' = Objects /\ \A x \in Objects : IsSeq(store'[x])
BY DEF Apply, Prompt, Holds

LEMMA ServeDownloadPrompt ==
  ASSUME Fair, Prompt, ServeDownload
  PROVE  Prompt'
<1>1. sm0.type = "coe" /\ sm0.cmd \in {"down", "down expedited"} /\ UNCHANGED <<program, toggle>>
      /\ Reply(Coe("sdores", "down", sm0.o, << >>))
  BY DEF ServeDownload, session
<1>2. Waits /\ call.op = "write" /\ pc = "answer" /\ AsksToWrite(sm0)
  BY <1>1, Question
<1>3. /\ IsSeq(p) /\ IsSeq(sm0.data) /\ sm0.o = call.o
      /\ sm0.cmd = "down expedited" => p = << >>
      /\ sm0.cmd = "down" => sm0.size = Len(sm0.data) + Len(p)
  BY <1>1, <1>2 DEF AsksToWrite, Says
<1>4. Len(p) \in Nat /\ Len(sm0.data) \in Nat /\ (p = << >> <=> Len(p) = 0)
  BY <1>3, WhenEmpty
<1>5. UNCHANGED <<pc, call, p, toggle>> /\ toggle = FALSE
  BY <1>1, <1>2 DEF program, Waits, Prompt, Holds
<1>6. PICK m, a : m = Coe("sdores", "down", sm0.o, << >>) /\ a = [m EXCEPT !.re = sm0.cnt]
  OBVIOUS
<1>7. Says(a, "sdores", "down") /\ a.o = sm0.o
  BY ONLY <1>6 DEF Coe, Says
<1>8. CASE sm0.cmd = "down" /\ Len(sm0.data) < sm0.size
  <2>1. /\ server' = [kind |-> "down", o |-> sm0.o, data |-> sm0.data, size |-> sm0.size, toggle |-> FALSE]
        /\ UNCHANGED store
    BY <1>8 DEF ServeDownload
  <2>2. Downloading(toggle, Len(p))'
    BY <1>3, <1>5, <1>8, <2>1 DEF Downloading
  <2>3. Replies(a)'
    BY <1>2, <1>3, <1>5, <1>7, <2>2 DEF Replies, RepliesToWrite, Says
  <2>4. DOMAIN store' = Objects /\ \A o \in Objects : IsSeq(store'[o])
    BY <2>1 DEF Prompt, Holds
  <2> QED BY <1>1, <1>2, <1>6, <2>3, <2>4, ReplyPrompt
<1>9. CASE ~(sm0.cmd = "down" /\ Len(sm0.data) < sm0.size)
  <2>1. Apply(sm0.o, sm0.data)
    BY <1>9 DEF ServeDownload
  <2>2. p = << >>
    <3>1. CASE sm0.cmd = "down expedited"
      BY <1>3, <3>1
    <3>2. CASE sm0.cmd = "down"
      <4>1. ~(Len(sm0.data) < sm0.size) /\ sm0.size = Len(sm0.data) + Len(p)
        BY <1>3, <1>9, <3>2
      <4>2. Len(p) = 0
        BY <1>4, <4>1
      <4> QED BY <1>4, <4>2
    <3> QED BY <1>1, <3>1, <3>2
  <2>3. Replies(a)'
    BY <1>2, <1>3, <1>5, <1>7, <2>2 DEF Replies, RepliesToWrite, Says
  <2>4. DOMAIN store' = Objects /\ \A o \in Objects : IsSeq(store'[o])
    BY <1>3, <2>1, ApplyKeeps
  <2> QED BY <1>1, <1>2, <1>6, <2>3, <2>4, ReplyPrompt
<1> QED BY <1>8, <1>9

LEMMA ServeDownloadSegmentPrompt ==
  ASSUME Fair, Prompt, ServeDownloadSegment
  PROVE  Prompt'
<1>1. sm0.type = "coe" /\ sm0.cmd = "segment down" /\ UNCHANGED <<program, toggle>>
  BY DEF ServeDownloadSegment, session
<1>2. Waits /\ call.op = "write" /\ pc = "segment" /\ AsksToWrite(sm0)
  BY <1>1, Question
<1>3. PICK n : n = Len(sm0.data) - sm0.unused
  OBVIOUS
<1>4. /\ IsSeq(p) /\ IsSeq(sm0.data) /\ sm0.toggle = ~toggle /\ sm0.unused \in 0 .. Len(sm0.data)
      /\ (sm0.last <=> p = << >>) /\ Downloading(sm0.toggle, n + Len(p))
  BY <1>1, <1>2, <1>3 DEF AsksToWrite, Says
<1>5. /\ {"kind", "toggle", "data"} \subseteq DOMAIN server
      /\ server.kind = "down" /\ server.toggle = sm0.toggle /\ IsSeq(server.data)
      /\ server.size = Len(server.data) + (n + Len(p))
  BY <1>4 DEF Downloading
<1>6. PICK d : d = server.data \o First(sm0.data, n)
  OBVIOUS
<1>7. n \in Nat /\ n <= Len(sm0.data) /\ Len(p) \in Nat /\ Len(server.data) \in Nat /\ (p = << >> <=> Len(p) = 0)
  <2>1. Len(p) \in Nat /\ Len(sm0.data) \in Nat /\ Len(server.data) \in Nat /\ (p = << >> <=> Len(p) = 0)
    BY <1>4, <1>5, WhenEmpty
  <2> QED BY <1>3, <1>4, <2>1
<1>8. IsSeq(d) /\ Len(d) = Len(server.data) + n
  <2>1. IsSeq(First(sm0.data, n)) /\ Len(First(sm0.data, n)) = n
    BY <1>4, <1>7, Splits
  <2>2. PICK f, r : f = First(sm0.data, n) /\ r = server.data
    OBVIOUS
  <2>3. IsSeq(f) /\ Len(f) = n /\ IsSeq(r) /\ d = r \o f
    BY <1>5, <1>6, <2>1, <2>2
  <2>4. IsSeq(r \o f) /\ Len(r \o f) = Len(r) + Len(f)
    BY <2>3, JoinIs
  <2> QED BY <2>2, <2>3, <2>4
<1>9. IF sm0.last THEN Len(d) = server.size ELSE Len(d) < server.size
  BY <1>4, <1>5, <1>7, <1>8
<1>10. /\ Reply([Coe("sdores", "segment down", sm0.o, << >>) EXCEPT !.toggle = sm0.toggle])
       /\ IF sm0.last THEN Apply(server.o, d)
          ELSE server' = [server EXCEPT !.data = d, !.toggle = ~@] /\ UNCHANGED store
  BY <1>3, <1>5, <1>6, <1>9 DEF ServeDownloadSegment
<1>11. UNCHANGED <<pc, call, p, toggle>> /\ toggle \in BOOLEAN
  BY <1>1 DEF program, Prompt, Holds
<1>12. PICK m, a : m = [Coe("sdores", "segment down", sm0.o, << >>) EXCEPT !.toggle = sm0.toggle]
             /\ a = [m EXCEPT !.re = sm0.cnt]
  OBVIOUS
<1>13. Says(a, "sdores", "segment down")
  BY ONLY <1>12 DEF Coe, Says
<1>14. p # << >> => Downloading(toggle, Len(p))'
  <2> HAVE p # << >>
  <2>1. server' = [server EXCEPT !.data = d, !.toggle = ~@]
    BY <1>4, <1>10
  <2>2. server'.kind = "down" /\ server'.toggle = ~server.toggle /\ server'.data = d /\ server'.size = server.size
        /\ DOMAIN server' = DOMAIN server
    BY <1>5, <2>1
  <2>3. server'.toggle = toggle
    BY <1>4, <1>5, <1>11, <2>2
  <2>4. server'.size = Len(server'.data) + Len(p)
    BY <1>5, <1>7, <1>8, <2>2
  <2> QED BY <1>5, <1>8, <1>11, <2>2, <2>3, <2>4 DEF Downloading
<1>15. Replies(a)'
  BY <1>2, <1>4, <1>11, <1>13, <1>14 DEF Replies, RepliesToWrite, Says
<1>16. DOMAIN store' = Objects /\ \A o \in Objects : IsSeq(store'[o])
  <2>1. CASE sm0.last
    BY <1>8, <1>10, <2>1, ApplyKeeps
  <2>2. CASE ~sm0.last
    BY <1>10, <2>2 DEF Prompt, Holds
  <2> QED BY <2>1, <2>2
<1> QED BY <1>1, <1>2, <1>10, <1>12, <1>15, <1>16, ReplyPrompt

(* The fragments of a list are parts of the answer up to the last one.      *)
LEMMA FragmentsAnswer ==
  ASSUME NEW d, IsSeq(d), Len(d) > 0, UNCHANGED <<pc, call>>, call.op = "odlist", pc = "list", NEW q, q = Fragments(d)
  PROVE  /\ IsSeq(q) /\ Len(q) > 0
         /\ Final(q[Len(q)])' /\ \A k \in 1 .. Len(q) - 1 : Part(q[k])'
<1>1. PICK n : n = (Len(d) + 1) \div 2
  OBVIOUS
<1>2. n \in Nat /\ n > 0
  <2>1. Len(d) \in Nat
    BY DEF IsSeq
  <2> QED BY <1>1, <2>1
<1>3. q = [k \in 1 .. n |-> [Coe("info", "list", sm0.o, First(Rest(d, 2 * k - 2), 2)) EXCEPT
                               !.re = sm0.cnt, !.last = k = n]]
  BY <1>1 DEF Fragments
<1>4. \A k \in 1 .. n : Says(q[k], "info", "list") /\ (q[k].last <=> k = n)
  <2> TAKE k \in 1 .. n
  <2>1. PICK f, l : f = First(Rest(d, 2 * k - 2), 2) /\ l = (k = n)
    OBVIOUS
  <2>2. q[k] = [Coe("info", "list", sm0.o, f) EXCEPT !.re = sm0.cnt, !.last = l]
    BY <1>3, <2>1
  <2>3. Says(q[k], "info", "list") /\ q[k].last = l
    BY ONLY <2>2 DEF Coe, Says
  <2> QED BY <2>1, <2>3
<1>5. q = [k \in 1 .. n |-> q[k]]
  BY <1>3
<1>6. q \in Seq({q[k] : k \in 1 .. n}) /\ Len(q) = n
  BY <1>2, <1>5
<1>7. IsSeq(q)
  BY <1>6, SeqIs
<1>8. \A k \in 1 .. n : Replies(q[k])'
  BY <1>4 DEF Replies, Says
<1>9. Final(q[n])'
  <2>1. n \in 1 .. n
    BY <1>2
  <2> QED BY <1>4, <1>8, <2>1 DEF Final
<1>10. \A k \in 1 .. n - 1 : Part(q[k])'
  <2>1. ASSUME NEW k \in 1 .. n - 1 PROVE k \in 1 .. n /\ k # n
    BY <1>2
  <2> QED BY <1>4, <1>8, <2>1 DEF Part
<1> QED BY <1>2, <1>6, <1>7, <1>9, <1>10

LEMMA ServeOtherPrompt ==
  ASSUME Fair, Prompt, ServeOther
  PROVE  Prompt'
<1>1. sm0.type = "coe" /\ UNCHANGED <<program, toggle, store, server>>
  BY DEF ServeOther, objects, session
<1>2. UNCHANGED <<pc, call, toggle>>
  BY <1>1 DEF program
<1>3. DOMAIN store' = Objects /\ \A o \in Objects : IsSeq(store'[o])
  BY <1>1 DEF Prompt, Holds
<1>4. CASE sm0.service = "rxpdo" /\ Take(<< >>)
  BY <1>1, <1>4, DroppedPrompt
<1>5. CASE sm0.service = "txpdo rr" /\ Reply(Coe("txpdo", "pdo", sm0.o, store[sm0.o]))
  <2>1. Waits
    BY <1>1, <1>5, WhatIsAsked DEF Says
  <2>2. call.op = "txpdo" /\ pc = "answer"
    BY <1>5, <2>1 DEF Waits, Asks, AsksToRead, AsksToWrite, Says
  <2>3. PICK m, a : m = Coe("txpdo", "pdo", sm0.o, store[sm0.o]) /\ a = [m EXCEPT !.re = sm0.cnt]
    OBVIOUS
  <2>4. Says(a, "txpdo", "pdo")
    BY ONLY <2>3 DEF Coe, Says
  <2>5. Replies(a)'
    BY <1>2, <2>2, <2>4 DEF Replies, Says
  <2> QED BY <1>1, <1>3, <1>5, <2>1, <2>2, <2>3, <2>5, ReplyPrompt
<1>6. CASE sm0.cmd = "list" /\ Take(Fragments(<<ListType>> \o Dictionary))
  <2>1. Waits /\ call.op = "odlist" /\ pc = "list"
    BY <1>1, <1>6, Question
  <2>2. PICK d, t : d = t \o Dictionary /\ t = <<ListType>>
    OBVIOUS
  <2>3. IsSeq(d) /\ Len(d) > 0
    <3>1. IsSeq(Dictionary)
      BY CoEAssumption, SeqIs DEF CoEAssumption
    <3>2. t \in Seq({ListType}) /\ Len(t) = 1
      BY <2>2
    <3>3. IsSeq(t)
      BY <3>2, SeqIs
    <3>4. IsSeq(t \o Dictionary) /\ Len(t \o Dictionary) = Len(t) + Len(Dictionary)
      BY ONLY <3>1, <3>3, JoinIs
    <3>5. Len(Dictionary) \in Nat
      BY <3>1 DEF IsSeq
    <3> QED BY <2>2, <3>2, <3>4, <3>5
  <2>4. PICK q : q = Fragments(d)
    OBVIOUS
  <2>5. IsSeq(q) /\ Len(q) > 0 /\ Final(q[Len(q)])' /\ \A k \in 1 .. Len(q) - 1 : Part(q[k])'
    BY <1>2, <2>1, <2>3, <2>4, FragmentsAnswer
  <2>6. Take(q)
    BY <1>6, <2>2, <2>4
  <2> QED BY <1>1, <1>3, <2>1, <2>5, <2>6, ServedPrompt
<1>7. CASE sm0.cmd = "entry" /\ Reply(Coe("info", "entry", sm0.o, <<sm0.o.sub>>))
  <2>1. Waits /\ call.op = "entries" /\ pc = "answer"
    BY <1>1, <1>7, Question
  <2>2. PICK m, a : m = Coe("info", "entry", sm0.o, <<sm0.o.sub>>) /\ a = [m EXCEPT !.re = sm0.cnt]
    OBVIOUS
  <2>3. Says(a, "info", "entry")
    BY ONLY <2>2 DEF Coe, Says
  <2>4. Replies(a)'
    BY <1>2, <2>1, <2>3 DEF Replies, Says
  <2> QED BY <1>1, <1>3, <1>7, <2>1, <2>2, <2>4, ReplyPrompt
<1>8. CASE sm0.cmd = "describe" /\ Reply(Coe("info", "describe", sm0.o, store[sm0.o]))
  <2>1. Waits /\ call.op = "describe" /\ pc = "answer"
    BY <1>1, <1>8, Question
  <2>2. PICK m, a : m = Coe("info", "describe", sm0.o, store[sm0.o]) /\ a = [m EXCEPT !.re = sm0.cnt]
    OBVIOUS
  <2>3. Says(a, "info", "describe")
    BY ONLY <2>2 DEF Coe, Says
  <2>4. Replies(a)'
    BY <1>2, <2>1, <2>3 DEF Replies, Says
  <2> QED BY <1>1, <1>3, <1>8, <2>1, <2>2, <2>4, ReplyPrompt
<1> QED BY <1>4, <1>5, <1>6, <1>7, <1>8 DEF ServeOther

LEMMA ServerPrompt ==
  ASSUME Fair, Prompt, CoeServer
  PROVE  Prompt'
BY ServeUploadPrompt, ServeUploadSegmentPrompt, ServeDownloadPrompt, ServeDownloadSegmentPrompt, ServeOtherPrompt
  DEF CoeServer

(* No other service is called, and none is asked of the slave.              *)
LEMMA NoOther ==
  ASSUME Fair, Prompt
  PROVE  ~BulkClient /\ ~BulkServer /\ ~SlaveFrame
<1>1. \A x \in client.calls : x.op \notin BulkOps
  BY FairIs DEF CoeOps, BulkOps
<1>2. pc \in {"idle", "clear", "sent", "answer", "segment", "list"} /\ (pc # "idle" => call.op \notin BulkOps)
  BY <1>1 DEF Prompt, Holds, Resting, Clearing, Dispatching, Asking
<1>3. ~BulkBegin /\ ~BulkRequest
  BY <1>1, <1>2 DEF BulkBegin, BulkRequest
<1>4. ~BulkClient
  BY <1>2, <1>3 DEF BulkClient, FOEread, FOEwrite, SoEread, SoEwrite, SoEwritten, EOEsetIp, EOEgetIp, EOEsend, EOErecv,
    EOEreadfragment, Ended
<1>5. sm0.type \in {"none", "coe"}
  BY NoticesAre, NoneIs DEF Prompt, Resting, Clearing, Dispatching, Asking, Quietude, Unasked, Pending
<1>6. ~BulkServer
  BY <1>5 DEF BulkServer, ServeFile, ServeIdn, ServeFrame
<1>7. ~SlaveFrame
  BY <1>1 DEF SlaveFrame, Listens, BulkOps
<1> QED BY <1>4, <1>6, <1>7
-----------------------------------------------------------------------------
(* Nothing that was lost is forgotten, and the program stays.               *)
Remembers == client' = client /\ lost' \in {lost, lost + 1}

LEMMA BoxRemembers == ASSUME Box, Line PROVE Remembers
<1>1. client' = client
  BY DEF Line, program
<1>2. CASE MasterStep
  BY <1>1, <1>2 DEF MasterStep, MbxEmpty, MbxSend, MbxPoll, MbxFetch, MbxRepeat, MbxAck, Lose, Remembers
<1>3. CASE SlaveStep \/ SlaveEmergency \/ PopError
  BY <1>1, <1>3 DEF SlaveStep, SlavePut, SlaveRepeat, Ignore, SlaveEmergency, PopError, faults, Remembers
<1> QED BY <1>2, <1>3 DEF Box

LEMMA CoeRemembers == ASSUME CoeClient \/ CoeServer PROVE Remembers
<1>1. CASE CoeClient
  BY <1>1 DEF CoeClient, Begin, Request, Sent, NoAnswer, ReadAnswer, ReadSegment, NextSegmentUp,
    WriteAnswer, WriteSegment,
    NextSegmentDown, TxPdoAnswer, DescribeAnswer, EntryAnswer, ListAnswer, Refuse, Continue, Finish,
    faults, Remembers, CoeOps
<1>2. CASE CoeServer
  BY <1>2 DEF CoeServer, ServeUpload, ServeUploadSegment, ServeDownload, ServeDownloadSegment, ServeOther,
    Reply, Abort, Take,
    session, program, faults, Remembers
<1> QED BY <1>1, <1>2

LEMMA BulkRemembers == ASSUME BulkClient \/ BulkServer \/ SlaveFrame PROVE Remembers
<1>1. ASSUME NEW status, NEW data, Conclude(status, data) PROVE Remembers
  BY <1>1 DEF Conclude, faults, Remembers
<1>2. ASSUME NEW to, NEW m, NEW w, Goto(to, m, w) PROVE Remembers
  BY <1>2 DEF Goto, faults, Remembers
<1>3. ASSUME NEW to, Await(to) PROVE Remembers
  BY <1>3 DEF Await, Remembers
<1>4. Failed \/ Unexpected \/ Quietly(Failed) \/ Quietly(Unexpected) => Remembers
  BY <1>1 DEF Failed, Unexpected, Quietly
<1>5. CASE BulkBegin
  BY <1>5 DEF BulkBegin, faults, Remembers
<1>6. CASE BulkRequest
  BY <1>2, <1>6 DEF BulkRequest
<1>7. CASE FOEread \/ FOEwrite
  BY <1>1, <1>2, <1>4, <1>7 DEF FOEread, FOEwrite, Quietly
<1>8. CASE SoEread \/ SoEwrite \/ SoEwritten
  BY <1>1, <1>2, <1>3, <1>4, <1>8 DEF SoEread, SoEwrite, SoEwritten, SoeSegment, Quietly
<1>9. CASE EOEsetIp \/ EOEgetIp \/ EOEsend
  BY <1>1, <1>2, <1>4, <1>9 DEF EOEsetIp, EOEgetIp, EOEsend, Quietly
<1>10. CASE EOErecv
  BY <1>1, <1>3, <1>4, <1>10 DEF EOErecv, Quietly
<1>11. CASE EOEreadfragment
  BY <1>1, <1>4, <1>11 DEF EOEreadfragment, Quietly
<1>12. CASE BulkServer
  BY <1>12 DEF BulkServer, ServeFile, ServeIdn, ServeFrame, Answer, Take, program, faults, Remembers
<1>13. CASE SlaveFrame
  BY <1>13 DEF SlaveFrame, program, faults, Remembers
<1> QED BY <1>5, <1>6, <1>7, <1>8, <1>9, <1>10, <1>11, <1>12, <1>13 DEF BulkClient

(* The other programs: no call of theirs is a CoE call.                     *)
LEMMA OthersStay ==
  ASSUME Course, Others, ~CoeCaller(client), Next
  PROVE  Others'
<1>1. CASE Box /\ Line
  BY <1>1 DEF Line, program, Others
<1>2. CASE CoeClient
  <2>1. CoeSteps
    BY <1>2, CoeClientSteps
  <2> QED BY <2>1 DEF CoeSteps, CoeBegins, CoeRuns, CoeCaller, Others
<1>3. CASE BulkClient
  <2>1. ASSUME NEW status, NEW data, Conclude(status, data) PROVE Others'
    BY <2>1 DEF Conclude, Others, NoCall, CoeOps
  <2>2. ASSUME NEW to, NEW m, NEW w, Goto(to, m, w) PROVE Others'
    BY <2>2 DEF Goto, Others
  <2>3. ASSUME NEW to, Await(to) PROVE Others'
    BY <2>3 DEF Await, Others
  <2>4. Failed \/ Unexpected \/ Quietly(Failed) \/ Quietly(Unexpected) => Others'
    BY <2>1 DEF Failed, Unexpected, Quietly
  <2>5. CASE BulkBegin
    <3>1. call'.op \in BulkOps /\ result' = result
      BY <2>5 DEF BulkBegin
    <3> QED BY <3>1 DEF BulkOps, CoeOps, Others
  <2>6. CASE BulkRequest
    BY <2>2, <2>6 DEF BulkRequest
  <2>7. CASE FOEread \/ FOEwrite
    BY <2>1, <2>2, <2>4, <2>7 DEF FOEread, FOEwrite, Quietly
  <2>8. CASE SoEread \/ SoEwrite \/ SoEwritten
    BY <2>1, <2>2, <2>3, <2>4, <2>8 DEF SoEread, SoEwrite, SoEwritten, SoeSegment, Quietly
  <2>9. CASE EOEsetIp \/ EOEgetIp \/ EOEsend
    BY <2>1, <2>2, <2>4, <2>9 DEF EOEsetIp, EOEgetIp, EOEsend, Quietly
  <2>10. CASE EOErecv
    BY <2>1, <2>3, <2>4, <2>10 DEF EOErecv, Quietly
  <2>11. CASE EOEreadfragment
    BY <2>1, <2>4, <2>11 DEF EOEreadfragment, Quietly
  <2> QED BY <1>3, <2>5, <2>6, <2>7, <2>8, <2>9, <2>10, <2>11 DEF BulkClient
<1>4. CASE CoeServer \/ BulkServer \/ SlaveFrame
  <2>1. UNCHANGED program
    BY <1>4 DEF CoeServer, ServeUpload, ServeUploadSegment, ServeDownload, ServeDownloadSegment, ServeOther, session,
      BulkServer, ServeFile, ServeIdn, ServeFrame, Answer, SlaveFrame
  <2> QED BY <2>1 DEF program, Others
<1> QED BY <1>1, <1>2, <1>3, <1>4 DEF Next, Program, External

LEMMA AnsweringBegins == ASSUME Init, Punctual PROVE Answering
<1>1. client \in Clients /\ pc = "idle" /\ call = NoCall /\ result.op = "none" /\ result.status # "failed"
      /\ at = "idle" /\ cnt = 0 /\ seen = 0 /\ lost = 0 /\ late = 0 /\ ~again
      /\ sm0 = None /\ sm1 = None /\ outq = << >>
  BY DEF Init, BoxInit
<1>2. toggle = FALSE /\ store = [o \in Objects |-> Bytes(0, Sizes[o])]
  BY DEF Init, CoeInit
<1>3. Others
  BY <1>1 DEF Others, NoCall, CoeOps
<1>4. Quietude
  <2>1. Places = {0} /\ Waiting(0) = None
    BY <1>1, EmptyIs DEF Places, Waiting
  <2> QED BY <1>1, <2>1 DEF Quietude, Calm, Unasked, Idle
<1>5. Resting
  BY <1>1, <1>2, <1>4 DEF Resting
<1>6. DOMAIN store = Objects /\ \A o \in Objects : IsSeq(store[o])
  BY <1>2, BytesIs, CoEAssumption DEF CoEAssumption
<1>7. Holds
  BY <1>1, <1>2, <1>6, EmptyIs DEF Holds
<1>8. Counters /\ Repeats
  BY <1>1, MailboxAssumption DEF Counters, LastSent, Repeats, MailboxAssumption
<1> QED BY <1>1, <1>3, <1>5, <1>7, <1>8 DEF Answering, Prompt

LEMMA AnsweringStays ==
  ASSUME Punctual, Frames, Answering, [Next]_vars
  PROVE  Answering'
<1>1. CASE Next
  <2>1. Remembers
    BY <1>1, BoxRemembers, CoeRemembers, BulkRemembers DEF Next, Program, External
  <2>2. client' = client /\ client \in Clients /\ lost \in Nat /\ lost' \in Nat
    BY <2>1 DEF Answering, Remembers
  <2>3. CoeCaller(client)' <=> CoeCaller(client)
    BY <2>2 DEF CoeCaller
  <2>4. CASE ~CoeCaller(client)
    <3>1. Others'
      BY <1>1, <2>4, OthersStay DEF Frames, Answering
    <3> QED BY <2>2, <2>3, <2>4, <3>1 DEF Answering
  <2>5. CASE CoeCaller(client) /\ lost' = 0
    <3>1. lost = 0
      BY <2>1, <2>2, <2>5 DEF Remembers
    <3>2. Fair /\ Prompt
      BY <2>5, <3>1 DEF Answering, Fair
    <3>3. Prompt'
      BY <1>1, <2>5, <3>2, BoxPrompt, ClientPrompt, ServerPrompt, NoOther DEF Next, Program, External
    <3> QED BY <2>2, <2>3, <2>5, <3>3 DEF Answering
  <2>6. CASE CoeCaller(client) /\ lost' # 0
    BY <2>2, <2>3, <2>6 DEF Answering
  <2> QED BY <2>4, <2>5, <2>6
<1>2. CASE UNCHANGED vars
  <2>1. UNCHANGED <<program, master, cnt, slave, seen, faults, toggle, store, server>>
    BY <1>2 DEF vars, box, coeVars, objects
  <2>2. UNCHANGED <<client, call, result, lost>>
    BY <2>1 DEF program, faults
  <2>3. Prompt => Prompt'
    BY <2>1, StillPrompt
  <2>4. Others => Others'
    BY <2>2 DEF Others
  <2>5. CoeCaller(client)' <=> CoeCaller(client)
    BY <2>2 DEF CoeCaller
  <2> QED BY <2>2, <2>3, <2>4, <2>5 DEF Answering
<1> QED BY <1>1, <1>2

(* While no datagram is lost, no CoE call fails, for every dictionary, size *)
(* of the mailbox and of the objects, every program, and wherever emergency *)
(* and error messages come between the answers: the two ends agree on what  *)
(* is asked, on segments and their toggle bits, and on the counters.        *)
THEOREM NoCallFails ==
  ASSUME Punctual
  PROVE  Spec => []NoFalseAlarm
<1>1. Init => Frames /\ Answering
  BY FramesBegin, AnsweringBegins
<1>2. Frames /\ Answering /\ [Next]_vars => (Frames /\ Answering)'
  BY FramesStay, AnsweringStays
<1>3. Answering => NoFalseAlarm
  BY DEF Answering, Prompt, Holds, Others, NoFalseAlarm
<1> QED BY <1>1, <1>2, <1>3, PTL DEF Spec
-----------------------------------------------------------------------------
(* Truth. While no datagram is lost, the service of CoE is the one its      *)
(* abstract specification promises: the invariant says of every message     *)
(* under way what data it brings, and of the call, the transfer of the      *)
(* slave and the master's buffer that together they are the whole of what   *)
(* is read or written.                                                      *)

(* What a program with a bound on its calls asks of a slave whose dictionary *)
(* is sorted.                                                                *)
Orderly ==
  /\ \E n \in Nat : \A c \in Clients : c.max <= n
  /\ \A c \in Clients : \A x \in c.calls : x.op = "write" => x.n > 0
  /\ \A j, k \in 1 .. Len(Dictionary) : j < k => Dictionary[j][1] < Dictionary[k][1]

Replying == {"answer", "segment", "list"}
Served   == {"poll", "fetch", "repeat", "ack"}
IsAnswer(m) == m.type = "coe"

(* What is read or written, and the write the slave has not carried out.    *)
Value == store[call.o]
Input == Bytes(calls, call.n)
Mine  == [o |-> call.o, k |-> calls, n |-> call.n]
Entered(n) == [k \in 1 .. n |-> <<k - 1>>]

(* A request with its data: what the slave has, the message brings and the  *)
(* master has still to send is all of it.                                   *)
WriteTrue(m) ==
  /\ unapplied = {Mine}
  /\ m.cmd = "down expedited" => m.data = Input
  /\ m.cmd = "down" => m.data \o p = Input
  /\ m.cmd = "segment down" =>
       server.o = call.o /\ server.data \o (First(m.data, Len(m.data) - m.unused) \o p) = Input
ReadOn == IsSeq(p) /\ IsSeq(server.data) /\ p \o server.data = Value /\ Len(Value) <= call.n
EntryTrue == mbxOut # None /\ mbxOut.o.sub \in 0 .. call.n /\ p = Entered(mbxOut.o.sub)
AskTrue(m) ==
  /\ call.op = "read" /\ pc = "segment" => ReadOn
  /\ call.op = "write" => WriteTrue(m)
  /\ call.op \in {"txpdo", "describe"} => m.o = call.o
  /\ call.op = "entries" => m.o.sub = mbxOut.o.sub /\ EntryTrue
  /\ call.op = "odlist" => p = << >>

(* An answer with its data.                                                 *)
Content(m) == IF m.last /\ Len(m.data) = 7 THEN First(m.data, 7 - m.unused) ELSE m.data
ReadTrue(m) ==
  /\ m.cmd = "up expedited" => m.data = Value
  /\ m.cmd = "up" =>
       /\ m.size = Len(Value)
       /\ IF Len(m.data) < m.size
          THEN IsSeq(m.data) /\ IsSeq(server.data) /\ m.data \o server.data = Value
          ELSE m.data = Value
  /\ m.cmd = "segment up" =>
       /\ IsSeq(p) /\ IsSeq(Content(m)) /\ Len(Value) <= call.n
       /\ IF m.last THEN p \o Content(m) = Value
          ELSE IsSeq(server.data) /\ (p \o Content(m)) \o server.data = Value
ReplyTrue(m) ==
  /\ call.op = "read" => ReadTrue(m)
  /\ call.op = "write" => IF p = << >> THEN unapplied = {}
                          ELSE unapplied = {Mine} /\ server.o = call.o /\ server.data \o p = Input
  /\ call.op \in {"txpdo", "describe"} => m.data = Value
  /\ call.op = "entries" => m.data = <<mbxOut.o.sub>> /\ EntryTrue

(* The fragments of a list come in their order, and what was taken of them  *)
(* is from the first g.                                                     *)
All == <<ListType>> \o Dictionary
Frag(i) == First(Rest(All, 2 * i - 2), 2)
TakenOf(g) ==
  /\ IsSeq(p) /\ Len(p) <= MaxODlist /\ (g = 0 => p = << >>)
  /\ \A k \in 1 .. Len(p) : \E i \in 1 .. Len(Dictionary) : i < 2 * g /\ p[k] = Dictionary[i]
  /\ \A k \in 1 .. Len(p) - 1 : p[k][1] < p[k + 1][1]
IsFrag(i, d) == 2 * i <= Len(All) + 1 /\ d = Frag(i)
InOrder(c, g) == \A k \in Places : IsAnswer(Waiting(k)) => k + c > g /\ IsFrag(k + c, Waiting(k).data)
ListTrue ==
  \E c \in Int, g \in Nat :
    /\ TakenOf(g) /\ InOrder(c, g)
    /\ at = "end" => \E i \in Nat : i > g /\ IsFrag(i, mbxIn.data) /\ InOrder(c, i)

Own ==
  /\ Ours /\ sound = TRUE /\ calls \in Nat
  /\ pc = "idle" => call = NoCall /\ unapplied = {} /\ mbxOut = None
  /\ pc # "idle" /\ call.op # "write" => unapplied = {}
  /\ pc = "clear" =>
       /\ call.op = "write" => p = Input /\ unapplied = {Mine}
       /\ call.op = "odlist" => p = << >>
       /\ call.op = "entries" => NextEntry.sub \in 0 .. call.n /\ p = Entered(NextEntry.sub)

Truth ==
  /\ Own
  /\ pc \in Replying /\ at \in {"empty", "write"} => AskTrue(mbxOut)
  /\ pc \in Replying /\ at \in Served /\ sm0 # None => AskTrue(sm0)
  /\ pc \in Replying => \A k \in Places : IsAnswer(Waiting(k)) => ReplyTrue(Waiting(k))
  /\ pc \in Replying /\ at = "end" => ReplyTrue(mbxIn)
  /\ pc = "list" => ListTrue

(* Programs that call other services.                                       *)
Strangers ==
  /\ {call.op, result.op} \subseteq BulkOps \cup {"none"}
  /\ pc # "idle" => call.op \in BulkOps
  /\ call.op = "none" /\ result.op = "none" =>
       call = NoCall /\ calls = 0 /\ result = [op |-> "none", status |-> "none", data |-> << >>]
  /\ mbxOut.type # "coe" /\ sm0.type # "coe"

Truthful == IF CoeCaller(client) THEN lost = 0 => Truth ELSE Strangers

(* The bound on calls of the service is one no program exceeds.             *)
LEMMA MayBegin ==
  ASSUME Orderly, client \in Clients, calls \in Nat, calls < client.max
  PROVE  calls < Cardinality(UNION {1 .. c.max : c \in Clients})
<1> DEFINE U == UNION {1 .. c.max : c \in Clients}
<1>1. PICK n \in Nat : \A c \in Clients : c.max <= n
  BY DEF Orderly
<1>2. U \in SUBSET Nat /\ \A k \in U : k <= n
  BY <1>1, MailboxAssumption DEF MailboxAssumption
<1>3. 1 .. client.max \subseteq U
  OBVIOUS
<1>4. client.max \in Nat /\ client.max > 0
  BY MailboxAssumption DEF MailboxAssumption
<1> HIDE DEF U
<1>5. IsFiniteSet(U)
  BY <1>2, FS_BoundedSetOfNaturals
<1>6. Cardinality(1 .. client.max) = client.max
  BY <1>4, FS_Interval
<1>7. Cardinality(1 .. client.max) <= Cardinality(U) /\ Cardinality(U) \in Nat
  BY <1>3, <1>5, FS_Subset, FS_CardinalityType
<1> QED BY <1>4, <1>6, <1>7 DEF U

(* Everything the invariant says of messages but where they are.            *)
said == <<pc, call, calls, p, result, store, server, unapplied, sound, mbxOut>>

LEMMA SameTruth ==
  ASSUME UNCHANGED said
  PROVE  /\ \A m : (AskTrue(m)' <=> AskTrue(m)) /\ (ReplyTrue(m)' <=> ReplyTrue(m))
         /\ \A g : TakenOf(g)' <=> TakenOf(g)
         /\ Own => Own'
<1>1. UNCHANGED <<pc, call, calls, p, result, store, server, unapplied, sound, mbxOut>>
  BY DEF said
<1>2. \A m : AskTrue(m)' <=> AskTrue(m)
  BY <1>1 DEF AskTrue, WriteTrue, ReadOn, EntryTrue, Mine, Input, Value, Entered
<1>3. \A m : ReplyTrue(m)' <=> ReplyTrue(m)
  BY <1>1 DEF ReplyTrue, ReadTrue, Content, EntryTrue, Mine, Input, Value, Entered
<1>4. \A g : TakenOf(g)' <=> TakenOf(g)
  BY <1>1 DEF TakenOf
<1>5. Own => Own'
  BY <1>1 DEF Own, Ours, Mine, Input, NextEntry, Entered
<1> QED BY <1>2, <1>3, <1>4, <1>5

(* The answers move by s places.                                            *)
Shifts(s) == \A k \in Places' : IsAnswer(Waiting(k))' => k + s \in Places /\ Waiting(k)' = Waiting(k + s)

LEMMA OrderMoves ==
  ASSUME NEW s \in {0, 1}, Shifts(s), NEW c \in Int, NEW g \in Nat, InOrder(c, g)
  PROVE  InOrder(c + s, g)'
<1>1. ASSUME NEW k \in Places', IsAnswer(Waiting(k))'
      PROVE  k + (c + s) > g /\ IsFrag(k + (c + s), (Waiting(k)').data)
  <2>1. k + s \in Places /\ Waiting(k)' = Waiting(k + s)
    BY <1>1 DEF Shifts
  <2>2. (k + s) + c > g /\ IsFrag((k + s) + c, Waiting(k + s).data)
    BY <1>1, <2>1 DEF InOrder, IsAnswer
  <2>3. k \in Int /\ (k + s) + c = k + (c + s)
    BY DEF Places
  <2> QED BY <2>1, <2>2, <2>3
<1> QED BY <1>1 DEF InOrder, IsFrag, IsAnswer

(* A step of the mailbox: answers move up, and one may be fetched, the      *)
(* request gets on, and nothing else changes.                               *)
Onward(s) ==
  /\ UNCHANGED said /\ Shifts(s)
  /\ pc \in Replying /\ at' \in {"empty", "write"} => at \in {"empty", "write"}
  /\ pc \in Replying /\ at' \in Served /\ sm0' # None =>
       (at \in Served /\ sm0' = sm0) \/ (at \in {"empty", "write"} /\ sm0' = mbxOut)
  /\ pc \in Replying /\ at' = "end" =>
       \/ at = "end" /\ mbxIn' = mbxIn
       \/ s = 0 /\ IsAnswer(sm1) /\ mbxIn' = sm1 /\ sm1' = None

LEMMA TruthMoves ==
  ASSUME Truth, IsSeq(outq), NEW s \in {0, 1}, Onward(s)
  PROVE  Truth'
<1>1. UNCHANGED said /\ Shifts(s) /\ pc' = pc
  BY DEF Onward, said
<1>2. /\ \A m : (AskTrue(m)' <=> AskTrue(m)) /\ (ReplyTrue(m)' <=> ReplyTrue(m))
      /\ \A g : TakenOf(g)' <=> TakenOf(g)
      /\ Own'
  BY <1>1, SameTruth DEF Truth
<1>3. mbxOut' = mbxOut
  BY <1>1 DEF said
<1>4. 0 \in Places /\ Waiting(0) = sm1
  BY DEF Places, Waiting, IsSeq
<1>5. pc' \in Replying /\ at' \in {"empty", "write"} => AskTrue(mbxOut)'
  BY <1>1, <1>2, <1>3 DEF Truth, Onward
<1>6. pc' \in Replying /\ at' \in Served /\ sm0' # None => AskTrue(sm0)'
  BY <1>1, <1>2, <1>3 DEF Truth, Onward
<1>7. pc' \in Replying => \A k \in Places' : IsAnswer(Waiting(k))' => ReplyTrue(Waiting(k))'
  <2> SUFFICES ASSUME pc \in Replying, NEW k \in Places', IsAnswer(Waiting(k))'
               PROVE  ReplyTrue(Waiting(k))'
    BY <1>1
  <2>1. k + s \in Places /\ Waiting(k)' = Waiting(k + s)
    BY <1>1 DEF Shifts
  <2>2. ReplyTrue(Waiting(k + s))
    BY <2>1 DEF Truth, IsAnswer
  <2> QED BY <1>2, <2>1, <2>2
<1>8. pc' \in Replying /\ at' = "end" => ReplyTrue(mbxIn)'
  <2> SUFFICES ASSUME pc \in Replying, at' = "end" PROVE ReplyTrue(mbxIn)'
    BY <1>1
  <2>1. ReplyTrue(mbxIn')
    BY <1>4 DEF Truth, Onward
  <2> QED BY <1>2, <2>1
<1>9. pc' = "list" => ListTrue'
  <2> SUFFICES ASSUME pc = "list" PROVE ListTrue'
    BY <1>1
  <2>1. PICK c \in Int, g \in Nat :
          /\ TakenOf(g) /\ InOrder(c, g)
          /\ at = "end" => \E i \in Nat : i > g /\ IsFrag(i, mbxIn.data) /\ InOrder(c, i)
    BY DEF Truth, ListTrue
  <2>2. TakenOf(g)' /\ InOrder(c + s, g)' /\ c + s \in Int
    BY <1>1, <1>2, <2>1, OrderMoves
  <2>3. at' = "end" => \E i \in Nat : i > g /\ IsFrag(i, mbxIn'.data) /\ InOrder(c + s, i)'
    <3> SUFFICES ASSUME at' = "end" PROVE \E i \in Nat : i > g /\ IsFrag(i, mbxIn'.data) /\ InOrder(c + s, i)'
      OBVIOUS
    <3>1. CASE at = "end" /\ mbxIn' = mbxIn
      <4>1. PICK i \in Nat : i > g /\ IsFrag(i, mbxIn.data) /\ InOrder(c, i)
        BY <2>1, <3>1
      <4>2. InOrder(c + s, i)'
        BY <1>1, <4>1, OrderMoves
      <4> QED BY <3>1, <4>1, <4>2
    <3>2. CASE s = 0 /\ IsAnswer(sm1) /\ mbxIn' = sm1 /\ sm1' = None
      <4>1. 0 + c > g /\ IsFrag(0 + c, sm1.data)
        BY <1>4, <2>1, <3>2 DEF InOrder
      <4>2. c \in Nat /\ c > g /\ 0 + c = c
        BY <4>1
      <4>3. ASSUME NEW k \in Places', IsAnswer(Waiting(k))' PROVE k + c > c /\ IsFrag(k + c, Waiting(k)'.data)
        <5>1. k + 0 \in Places /\ Waiting(k)' = Waiting(k + 0)
          BY <1>1, <3>2, <4>3 DEF Shifts
        <5>2. k \in Nat /\ k + 0 = k
          BY <5>1 DEF Places
        <5>3. k # 0
          <6>1. k = 0 => Waiting(k)' = None
            BY <3>2 DEF Waiting
          <6> QED BY <4>3, <6>1, NoneIs DEF IsAnswer
        <5>4. IsFrag(k + c, Waiting(k).data)
          BY <2>1, <4>3, <5>1, <5>2 DEF InOrder, IsAnswer
        <5> QED BY <4>2, <5>1, <5>2, <5>3, <5>4
      <4>4. InOrder(c + s, c)'
        BY <3>2, <4>2, <4>3 DEF InOrder, IsFrag, IsAnswer
      <4> QED BY <3>2, <4>1, <4>2, <4>4
    <3> QED BY <3>1, <3>2 DEF Onward, Replying
  <2> QED BY <2>1, <2>2, <2>3 DEF ListTrue, IsFrag
<1> QED BY <1>2, <1>5, <1>6, <1>7, <1>8, <1>9 DEF Truth

LEMMA LineSays ==
  ASSUME Line, UNCHANGED mbxOut
  PROVE  UNCHANGED said
BY DEF Line, program, coeVars, objects, said

(* What the phases say of a call that waits for its answer.                 *)
LEMMA WhenAsking ==
  ASSUME Fair, Prompt, pc \in Replying
  PROVE  /\ at \in {"empty", "write"} \cup Served \cup {"end"}
         /\ at = "write" => want /\ sm0 = None
         /\ at = "end" => wkc = 1 /\ sm0 = None /\ IsAnswer(mbxIn)
         /\ ~quick
<1>1. Asking
  BY DEF Prompt, Resting, Clearing, Dispatching, Replying
<1> QED BY <1>1, NoticesAre DEF Asking, Served, IsAnswer

LEMMA BoxTruth ==
  ASSUME Fair, Prompt, Prompt', lost' = 0, Truth, Box, Line
  PROVE  Truth'
<1>1. IsSeq(outq) /\ late = 0 /\ client.late = 0 /\ ~client.overtakes /\ lost = 0 /\ lost' # lost + 1
  BY FairIs DEF Prompt, Holds, Fair
<1>2. pc' = pc /\ client' = client
  BY DEF Line, program
<1>3. pc \in Replying /\ at' = "end" => wkc' = 1 /\ IsAnswer(mbxIn')
  <2> SUFFICES ASSUME pc' \in Replying, at' = "end" PROVE wkc' = 1 /\ IsAnswer(mbxIn')
    BY <1>2
  <2>1. Asking'
    BY DEF Prompt, Resting, Clearing, Dispatching, Replying
  <2>2. wkc' = 1 /\ Replies(mbxIn)'
    BY <2>1 DEF Asking
  <2>3. IsAnswer(mbxIn)'
    BY <2>2 DEF Replies, RepliesToRead, RepliesToWrite, Says, IsAnswer
  <2> QED BY <2>2, <2>3 DEF IsAnswer
<1>4. pc \in Replying => ~quick /\ (at = "write" => want /\ sm0 = None)
  BY WhenAsking
<1>5. SUFFICES \E s \in {0, 1} : Onward(s)
  BY <1>1, TruthMoves
<1>6. UNCHANGED <<sm1, outq>> => Shifts(0)
  <2> HAVE UNCHANGED <<sm1, outq>>
  <2>1. Places' = Places /\ \A k : Waiting(k)' = Waiting(k)
    BY DEF Places, Waiting
  <2>2. \A k \in Places : k + 0 = k
    BY DEF Places
  <2> QED BY <2>1, <2>2 DEF Shifts
<1>7. ASSUME Shifts(0) \/ Shifts(1), UNCHANGED <<at, mbxIn, sm0, mbxOut>> PROVE \E s \in {0, 1} : Onward(s)
  BY <1>2, <1>7, LineSays DEF Onward
<1>8. CASE MbxEmpty
  <2>1. at = "empty" /\ at' = "write" /\ UNCHANGED <<mbxOut, sm1, outq>>
    BY <1>1, <1>8 DEF MbxEmpty, Expire, slave
  <2> QED BY <1>6, <2>1, LineSays DEF Onward, Served
<1>9. CASE MbxSend
  <2>1. UNCHANGED <<mbxOut, sm1, outq>> /\ at = "write"
    BY <1>9 DEF MbxSend
  <2>2. pc \in Replying => at' = "poll" /\ sm0' = mbxOut
    BY <1>1, <1>4, <1>9, <2>1 DEF MbxSend, Lose
  <2> QED BY <1>6, <2>1, <2>2, LineSays DEF Onward
<1>10. CASE MbxPoll
  <2>1. UNCHANGED <<mbxOut, sm0, sm1, outq>> /\ at = "poll" /\ at' \in {"fetch", "end"} /\ (at' = "end" => wkc' \in {-5, -1})
    BY <1>10 DEF MbxPoll, End, slave
  <2>2. pc \in Replying => at' # "end"
    BY <1>3, <2>1
  <2> QED BY <1>2, <1>6, <2>1, <2>2, LineSays DEF Onward, Served
<1>11. CASE MbxRepeat \/ MbxAck
  <2>1. /\ UNCHANGED <<mbxOut, sm0, sm1, outq>> /\ at \in {"repeat", "ack", "unheard"} /\ at' \in {"ack", "unheard", "fetch", "end"}
        /\ at' = "end" => wkc' = 0
    BY <1>11 DEF MbxRepeat, MbxAck, End, slave
  <2>2. pc \in Replying => at' # "end" /\ at # "unheard"
    BY <1>3, <2>1, WhenAsking DEF Served
  <2> QED BY <1>2, <1>6, <2>1, <2>2, LineSays DEF Onward, Served
<1>12. CASE MbxFetch
  <2>1. UNCHANGED <<mbxOut, sm0, outq>> /\ at = "fetch"
    BY <1>12 DEF MbxFetch
  <2>2. \/ sm1 # None /\ mbxIn' = sm1 /\ sm1' = None /\ at' \in {"fetch", "end"}
        \/ sm1' = sm1 /\ at' = "repeat"
    BY <1>1, <1>12 DEF MbxFetch, Lose, End
  <2>3. Shifts(0)
    <3>1. Places' = Places /\ \A k : Waiting(k)' = Waiting(k) \/ Waiting(k)' = None
      BY <2>1, <2>2 DEF Places, Waiting
    <3>2. \A k \in Places : k + 0 = k
      BY DEF Places
    <3> QED BY <3>1, <3>2, NoneIs DEF Shifts, IsAnswer
  <2>4. pc \in Replying /\ at' = "end" => IsAnswer(sm1) /\ mbxIn' = sm1 /\ sm1' = None
    BY <1>3, <2>2
  <2> QED BY <1>2, <2>1, <2>2, <2>3, <2>4, LineSays DEF Onward, Served
<1>13. CASE SlavePut
  <2>1. sm1 = None /\ outq # << >> /\ sm1' = Head(outq) /\ outq' = Tail(outq) /\ UNCHANGED <<at, mbxIn, sm0, mbxOut>>
    BY <1>13 DEF SlavePut, master
  <2>2. /\ Len(outq) > 0 /\ Head(outq) = outq[1] /\ IsSeq(Tail(outq)) /\ Len(Tail(outq)) = Len(outq) - 1
        /\ \A k \in 1 .. Len(outq) - 1 : Tail(outq)[k] = outq[k + 1]
    BY <1>1, <2>1, TailIs
  <2>3. Len(outq) \in Nat /\ Len(outq') = Len(outq) - 1
    BY <1>1, <2>1, <2>2 DEF IsSeq
  <2>4. ASSUME NEW k \in Places' PROVE k + 1 \in Places /\ Waiting(k)' = Waiting(k + 1)
    <3>1. k \in 0 .. Len(outq) - 1
      BY <2>3 DEF Places
    <3>2. k # 0 => outq'[k] = outq[k + 1]
      BY <2>1, <2>2, <3>1
    <3> QED BY <2>1, <2>2, <2>3, <3>1, <3>2 DEF Waiting, Places
  <2>5. Shifts(1)
    BY <2>4 DEF Shifts
  <2> QED BY <1>7, <2>1, <2>5
<1>14. CASE SlaveRepeat
  <2>1. \/ sm1' = sm1 /\ outq' = outq
        \/ sm1' = lastout /\ outq' = outq
    BY <1>1, <1>14 DEF SlaveRepeat
  <2>2. UNCHANGED <<at, mbxIn, sm0, mbxOut>> /\ Notice(lastout)
    BY <1>14 DEF SlaveRepeat, master, Prompt, Repeats
  <2>3. Places' = Places /\ \A k : Waiting(k)' = Waiting(k) \/ Notice(Waiting(k)')
    BY <2>1, <2>2 DEF Places, Waiting
  <2>4. \A k \in Places : k + 0 = k
    BY DEF Places
  <2>5. Shifts(0)
    BY <2>3, <2>4 DEF Shifts, IsAnswer, Notice
  <2> QED BY <1>7, <2>2, <2>5
<1>15. CASE SlaveEmergency
  <2>1. PICK e \in {Emergency, MbxError} : outq' = Append(outq, e)
    BY <1>15 DEF SlaveEmergency
  <2>2. UNCHANGED <<at, mbxIn, sm0, sm1, mbxOut>>
    BY <1>15 DEF SlaveEmergency, master
  <2>3. /\ Len(outq') = Len(outq) + 1 /\ outq'[Len(outq) + 1] = e /\ Len(outq) \in Nat
        /\ \A k \in 1 .. Len(outq) : outq'[k] = outq[k]
    BY <1>1, <2>1, AppendIs DEF IsSeq
  <2>4. ASSUME NEW k \in Places', IsAnswer(Waiting(k))' PROVE k + 0 \in Places /\ Waiting(k)' = Waiting(k + 0)
    <3>1. k \in 0 .. Len(outq) + 1
      BY <2>3 DEF Places
    <3>2. k = Len(outq) + 1 => Waiting(k)' = e
      BY <2>3 DEF Waiting
    <3>3. k \in 0 .. Len(outq)
      BY <2>3, <2>4, <3>1, <3>2 DEF IsAnswer, Emergency, MbxError
    <3> QED BY <2>2, <2>3, <3>3 DEF Waiting, Places
  <2>5. Shifts(0)
    BY <2>4 DEF Shifts
  <2> QED BY <1>7, <2>2, <2>5
<1>16. CASE Ignore
  BY <1>16, NotIgnored
<1>17. CASE PopError
  <2>1. UNCHANGED <<at, mbxIn, sm0, sm1, outq, mbxOut>>
    BY <1>17 DEF PopError, master, slave
  <2> QED BY <1>6, <1>7, <2>1
<1> QED BY <1>8, <1>9, <1>10, <1>11, <1>12, <1>13, <1>14, <1>15, <1>16, <1>17 DEF Box, MasterStep, SlaveStep
-----------------------------------------------------------------------------
(* The master's steps: a call begins, goes on with its next request, and    *)
(* returns what the service promises.                                       *)
(* A step of the service, or none.                                          *)
Promised == Service!Next \/ UNCHANGED Service!abstract

LEMMA StillPromised ==
  ASSUME Ours, UNCHANGED <<store, unapplied, call, calls, result, sound>>
  PROVE  Promised
BY DEF Promised, Service!abstract, Ours

LEMMA CalledWell ==
  ASSUME Fair, Prompt, pc # "idle"
  PROVE  /\ call \in client.calls /\ call.op \in CoeOps /\ call.o \in Objects /\ call.n \in Nat /\ call # NoCall
         /\ IsSeq(store[call.o]) /\ "sub" \in DOMAIN call.o
<1>1. call \in client.calls /\ call.op \in CoeOps
  BY FairIs DEF Prompt, Holds
<1>2. call.o \in Objects /\ call.n \in Nat
  BY <1>1, CoEAssumption DEF CoEAssumption, CoeCall, Fair
<1>3. "sub" \in DOMAIN call.o
  BY <1>2, CoEAssumption DEF CoEAssumption
<1>4. call # NoCall
  BY <1>1 DEF NoCall, CoeOps
<1> QED BY <1>1, <1>2, <1>3, <1>4 DEF Prompt, Holds

LEMMA BeginTruth ==
  ASSUME Orderly, Fair, Prompt, Truth, Begin
  PROVE  Truth' /\ Promised
<1>1. /\ pc = "idle" /\ calls < client.max /\ calls' = calls + 1 /\ pc' = "clear"
      /\ call' \in client.calls /\ call'.op \in CoeOps
      /\ p' = (IF call'.op \in {"write", "rxpdo"} THEN Bytes(calls', call'.n) ELSE << >>)
      /\ unapplied' = (IF call'.op = "write" THEN unapplied \cup {[o |-> call'.o, k |-> calls', n |-> call'.n]} ELSE unapplied)
      /\ UNCHANGED <<result, sound, store, server, mbxOut>>
  BY DEF Begin, Receive
<1>2. /\ Ours /\ sound = TRUE /\ calls \in Nat /\ call = NoCall /\ unapplied = {} /\ mbxOut = None
  BY <1>1 DEF Truth, Own
<1>3. Ours'
  BY <1>1, <1>2 DEF Ours
<1>4. call'.o \in Objects /\ call'.n \in Nat /\ "sub" \in DOMAIN call'.o
  <2>1. call' \in CoeCall
    BY <1>1, CoEAssumption DEF CoEAssumption, Fair
  <2> QED BY <2>1, CoEAssumption DEF CoEAssumption, CoeCall
<1>5. call'.op = "entries" => NextEntry'.sub \in 0 .. call'.n /\ p' = Entered(NextEntry'.sub)
  <2> HAVE call'.op = "entries"
  <2>1. NextEntry'.sub = 0
    BY <1>1, <1>2, <1>4 DEF NextEntry
  <2>2. p' = << >>
    BY <1>1
  <2>3. Entered(0) = << >>
    BY DEF Entered
  <2> QED BY <1>4, <2>1, <2>2, <2>3
<1>6. Own'
  BY <1>1, <1>2, <1>3, <1>5 DEF Own, Mine, Input, Entered
<1>7. Truth'
  BY <1>1, <1>6 DEF Truth, Replying
<1>8. call' \in {x \in UNION {c.calls : c \in Clients} : x.op \in CoeOps}
  BY <1>1 DEF Fair
<1>9. calls < Cardinality(UNION {1 .. c.max : c \in Clients})
  BY <1>1, <1>2, MayBegin DEF Fair
<1>10. Service!NoCall = NoCall
  BY DEF NoCall, Service!NoCall
<1>11. Service!Begin
  <2>1. (IF call'.op # "write" THEN unapplied ELSE unapplied \cup {[o |-> call'.o, k |-> calls', n |-> call'.n]}) = unapplied'
    BY <1>1
  <2> QED BY <1>1, <1>2, <1>3, <1>8, <1>9, <1>10, <2>1 DEF Service!Begin
<1> QED BY <1>7, <1>11 DEF Promised, Service!Next

(* What a call may return.                                                  *)
Fulfils(status, data) ==
  \/ /\ status = "ok"
     /\ IF call.op = "odlist" THEN Service!PartOf(data) ELSE data = Service!Denotes(call)
     /\ call.op \in {"read", "txpdo"} => Len(data) <= call.n
  \/ /\ status = "small" /\ call.op \in {"read", "txpdo"} /\ Len(Value) > call.n

LEMMA FinishTruth ==
  ASSUME Fair, Prompt, Truth, pc # "idle", wkc > 0, unapplied = {}, NEW status, NEW data,
         Finish(status, data), Fulfils(status, data)
  PROVE  Truth' /\ Promised
<1>1. /\ pc' = "idle" /\ call' = NoCall /\ result' = [op |-> call.op, status |-> status, data |-> data]
      /\ mbxOut' = None /\ sound' = (sound /\ wkc > 0 /\ status # "failed")
      /\ UNCHANGED <<calls, store, server, unapplied>>
  BY DEF Finish, objects
<1>2. Ours /\ sound = TRUE /\ calls \in Nat /\ call.op \in CoeOps /\ call # NoCall
  BY CalledWell DEF Truth, Own
<1>3. status # "failed" /\ sound' = TRUE /\ NoCall.op = "none"
  BY <1>1, <1>2 DEF Fulfils, NoCall
<1>4. Ours'
  BY <1>1, <1>2, <1>3 DEF Ours
<1>5. Own'
  BY <1>1, <1>2, <1>3, <1>4 DEF Own
<1>6. Truth'
  BY <1>1, <1>5 DEF Truth, Replying
<1>7. Service!NoCall = NoCall
  BY DEF NoCall, Service!NoCall
<1>8. status = "ok" => Service!Done
  <2> HAVE status = "ok"
  <2>1. result'.data = data
    BY <1>1
  <2> QED BY <1>2, <1>4, <2>1 DEF Fulfils, Service!Done
<1>9. status = "small" => call.op \in {"read", "txpdo"} /\ Len(Service!Denotes(call)) > call.n
  BY DEF Fulfils, Service!Denotes, Value
<1>10. result'.status = status
  BY <1>1
<1>11. Service!Return
  BY <1>1, <1>2, <1>3, <1>4, <1>7, <1>8, <1>9, <1>10 DEF Service!Return, Fulfils
<1> QED BY <1>6, <1>11 DEF Promised, Service!Next

(* A call goes on with the next request, in which the master says the truth.*)
LEMMA ContinueTruth ==
  ASSUME Fair, Prompt, Truth, at = "end", Calm, NEW to \in Replying, NEW m, NEW a, a = [m EXCEPT !.cnt = NextMbxCnt(cnt)],
         pc # "idle", pc = "clear" \/ wkc > 0, Continue(to, m),
         mbxOut' = a => AskTrue(a)', to = "list" => p' = << >>
  PROVE  Truth' /\ Promised
<1>1. /\ pc' = to /\ at' = "empty" /\ mbxOut' = a
      /\ UNCHANGED <<call, calls, result, slave, store, server, unapplied, sound>>
  BY DEF Continue, Send, objects, Truth, Own
<1>2. Own'
  BY <1>1 DEF Truth, Own, Ours, Replying
<1>3. Calm'
  BY <1>1 DEF Calm, Places, Waiting, Idle, Notice, slave
<1>4. \A k \in Places' : ~IsAnswer(Waiting(k))'
  BY <1>3, NoticesAre DEF Calm, IsAnswer, Idle, Notice, None
<1>5. to = "list" => ListTrue'
  <2> HAVE to = "list"
  <2>1. TakenOf(0)'
    <3>1. p' = << >> /\ Len(<< >>) = 0 /\ IsSeq(<< >>) /\ MaxODlist \in Nat
      BY EmptyIs, CoEAssumption DEF CoEAssumption
    <3> QED BY <3>1 DEF TakenOf
  <2>2. InOrder(0, 0)'
    BY <1>4 DEF InOrder
  <2> QED BY <1>1, <2>1, <2>2 DEF ListTrue
<1>6. Truth'
  BY <1>1, <1>2, <1>4, <1>5 DEF Truth, Served
<1> QED BY <1>1, <1>6, StillPromised DEF Truth, Own

(* Taken apart and put together again.                                      *)
LEMMA SplitJoin ==
  ASSUME NEW d, IsSeq(d), NEW n \in Nat
  PROVE  First(d, n) \o Rest(d, n) = d
<1>1. Len(d) \in Nat
  BY DEF IsSeq
<1>2. CASE Len(d) <= n
  <2>1. First(d, n) = d
    <3>1. First(d, n) = SubSeq(d, 1, Len(d))
      BY <1>1, <1>2 DEF First
    <3> QED BY <3>1, CutAll
  <2>2. Rest(d, n) = << >>
    BY <1>2, Splits
  <2>3. PICK S : d \in Seq(S)
    BY Common
  <2>4. d \o << >> = d
    BY <2>3
  <2> QED BY <2>1, <2>2, <2>4
<1>3. CASE n < Len(d)
  <2>1. SubSeq(d, 1, n) \o SubSeq(d, n + 1, Len(d)) = SubSeq(d, 1, Len(d))
    <3>1. n \in 0 .. Len(d) /\ Len(d) \in 0 .. Len(d) /\ n <= Len(d)
      BY <1>1, <1>3
    <3> QED BY <3>1, CutJoin
  <2>2. First(d, n) = SubSeq(d, 1, n)
    BY <1>1, <1>3 DEF First
  <2> QED BY <2>1, <2>2, CutAll DEF Rest
<1> QED BY <1>1, <1>2, <1>3

LEMMA JoinNothing ==
  ASSUME NEW d, IsSeq(d)
  PROVE  d \o << >> = d /\ << >> \o d = d
<1>1. PICK S : d \in Seq(S)
  BY Common
<1> QED BY <1>1

LEMMA JoinJoin ==
  ASSUME NEW a, NEW b, NEW c, IsSeq(a), IsSeq(b), IsSeq(c)
  PROVE  (a \o b) \o c = a \o (b \o c)
<1> DEFINE ab == a \o b  bc == b \o c  u == ab \o c  w == a \o bc
<1>1. /\ IsSeq(ab) /\ Len(ab) = Len(a) + Len(b)
      /\ \A k \in 1 .. Len(a) : ab[k] = a[k]
      /\ \A k \in Len(a) + 1 .. Len(a) + Len(b) : ab[k] = b[k - Len(a)]
  BY JoinIs
<1>2. /\ IsSeq(bc) /\ Len(bc) = Len(b) + Len(c)
      /\ \A k \in 1 .. Len(b) : bc[k] = b[k]
      /\ \A k \in Len(b) + 1 .. Len(b) + Len(c) : bc[k] = c[k - Len(b)]
  BY JoinIs
<1> HIDE DEF ab, bc
<1>3. /\ IsSeq(u) /\ Len(u) = Len(ab) + Len(c)
      /\ \A k \in 1 .. Len(ab) : u[k] = ab[k]
      /\ \A k \in Len(ab) + 1 .. Len(ab) + Len(c) : u[k] = c[k - Len(ab)]
  BY <1>1, JoinIs
<1>4. /\ IsSeq(w) /\ Len(w) = Len(a) + Len(bc)
      /\ \A k \in 1 .. Len(a) : w[k] = a[k]
      /\ \A k \in Len(a) + 1 .. Len(a) + Len(bc) : w[k] = bc[k - Len(a)]
  BY <1>2, JoinIs
<1> HIDE DEF u, w
<1>5. Len(a) \in Nat /\ Len(b) \in Nat /\ Len(c) \in Nat
  BY DEF IsSeq
<1>6. ASSUME NEW k \in 1 .. Len(u) PROVE u[k] = w[k]
  <2>1. CASE k <= Len(a)
    BY <1>1, <1>3, <1>4, <1>5, <1>6, <2>1
  <2>2. CASE k > Len(a) /\ k <= Len(a) + Len(b)
    <3>1. k \in Len(a) + 1 .. Len(a) + Len(b) /\ k - Len(a) \in 1 .. Len(b) /\ k \in 1 .. Len(ab)
          /\ k \in Len(a) + 1 .. Len(a) + Len(bc)
      BY <1>1, <1>2, <1>5, <2>2
    <3> QED BY <1>1, <1>2, <1>3, <1>4, <3>1
  <2>3. CASE k > Len(a) + Len(b)
    <3>1. /\ k \in Len(ab) + 1 .. Len(ab) + Len(c) /\ k \in Len(a) + 1 .. Len(a) + Len(bc)
          /\ k - Len(a) \in Len(b) + 1 .. Len(b) + Len(c) /\ (k - Len(a)) - Len(b) = k - Len(ab)
      BY <1>1, <1>2, <1>3, <1>5, <2>3
    <3> QED BY <1>2, <1>3, <1>4, <3>1
  <2> QED BY <1>5, <2>1, <2>2, <2>3
<1>7. Len(u) = Len(w)
  BY <1>1, <1>2, <1>3, <1>4, <1>5
<1>8. u = w
  BY <1>3, <1>4, <1>6, <1>7, SameSeq
<1> QED BY <1>8 DEF u, w, ab, bc

(* Of a segment, the bytes in use are those that were put into it.          *)
LEMMA PaddedFirst ==
  ASSUME NEW d, IsSeq(d)
  PROVE  /\ First(Padded(d), Len(d)) = d
         /\ Len(d) >= 7 => Padded(d) = d
         /\ Len(d) < 7 => Len(Padded(d)) = 7
<1> DEFINE u == IF Len(d) < 7 THEN 7 - Len(d) ELSE 0
           f == [b \in 1 .. u |-> Pad]
           r == Padded(d)
<1>1. Len(d) \in Nat /\ u \in Nat
  BY DEF IsSeq
<1>2. r = d \o f
  <2>1. 1 .. 7 - Len(d) = 1 .. u
    BY <1>1
  <2> QED BY <2>1 DEF Padded
<1> HIDE DEF u, r
<1>3. f \in Seq({Pad}) /\ Len(f) = u
  BY <1>1
<1>4. IsSeq(f)
  BY <1>3, SeqIs
<1> HIDE DEF f
<1>5. IsSeq(d \o f) /\ Len(d \o f) = Len(d) + Len(f) /\ \A k \in 1 .. Len(d) : (d \o f)[k] = d[k]
  BY <1>4, JoinIs
<1>6. IsSeq(r) /\ Len(r) = Len(d) + u /\ \A k \in 1 .. Len(d) : r[k] = d[k]
  BY <1>2, <1>3, <1>5
<1>7. First(r, Len(d)) = SubSeq(r, 1, Len(d)) /\ Len(d) \in 0 .. Len(r)
  BY <1>1, <1>6 DEF First
<1>8. PICK g : g = SubSeq(r, 1, Len(d))
  OBVIOUS
<1>9. IsSeq(g) /\ Len(g) = Len(d) /\ \A k \in 1 .. Len(d) : g[k] = r[k]
  BY <1>6, <1>7, <1>8, PrefixIs
<1>10. g = d
  BY <1>6, <1>9, SameSeq
<1>11. Len(d) >= 7 => r = d
  <2> HAVE Len(d) >= 7
  <2>1. Len(r) = Len(d)
    BY <1>1, <1>6 DEF u
  <2> QED BY <1>6, <2>1, SameSeq
<1>12. Len(d) < 7 => Len(r) = 7
  BY <1>1, <1>6 DEF u
<1> QED BY <1>7, <1>8, <1>10, <1>11, <1>12 DEF r

LEMMA RequestTruth ==
  ASSUME Fair, Prompt, Truth, Request
  PROVE  Truth' /\ Promised
<1>1. pc = "clear" /\ at = "end" /\ call.op \in CoeOps
  BY DEF Request
<1>2. Calm /\ (call.op = "write" => IsSeq(p) /\ Len(p) = call.n)
  BY <1>1 DEF Prompt, Resting, Clearing, Dispatching, Asking, Quietude
<1>3. /\ Ours /\ sound = TRUE
      /\ call.op = "write" => p = Input /\ unapplied = {Mine}
      /\ call.op = "odlist" => p = << >>
      /\ call.op = "entries" => NextEntry.sub \in 0 .. call.n /\ p = Entered(NextEntry.sub)
  BY <1>1 DEF Truth, Own
<1>4. ASSUME NEW to \in {"answer", "list"}, NEW m, NEW a, a = [m EXCEPT !.cnt = NextMbxCnt(cnt)],
             Continue(to, m), mbxOut' = a => AskTrue(a)', to = "list" => p' = << >>
      PROVE  Truth' /\ Promised
  BY <1>1, <1>2, <1>4, ContinueTruth DEF Replying
<1>5. call.op # "rxpdo" => UNCHANGED <<call, calls, store, server, unapplied>> /\ pc' \in {"answer", "list"}
  BY <1>1 DEF Request, Continue, objects, CoeOps
<1>7. CASE call.op = "read"
  <2>1. PICK m, a : m = Coe("sdoreq", "up", call.o, << >>) /\ a = [m EXCEPT !.cnt = NextMbxCnt(cnt)]
    OBVIOUS
  <2>2. Continue("answer", m)
    BY <1>7, <2>1 DEF Request
  <2>3. AskTrue(a)'
    BY <1>5, <1>7 DEF AskTrue
  <2> QED BY <1>4, <2>1, <2>2, <2>3
<1>8. CASE call.op = "write" /\ Expedited
  <2>1. PICK m, a : m = Coe("sdoreq", "down expedited", call.o, p) /\ a = [m EXCEPT !.cnt = NextMbxCnt(cnt)]
    OBVIOUS
  <2>2. Continue("answer", m) /\ p' = << >>
    BY <1>8, <2>1 DEF Request
  <2>3. a.cmd = "down expedited" /\ a.data = p
    BY ONLY <2>1 DEF Coe
  <2>4. WriteTrue(a)'
    BY <1>3, <1>5, <1>8, <2>3 DEF WriteTrue, Mine, Input
  <2>5. AskTrue(a)'
    BY <1>5, <1>8, <2>4 DEF AskTrue
  <2> QED BY <1>4, <2>1, <2>2, <2>5
<1>9. CASE call.op = "write" /\ ~Expedited
  <2>1. PICK m, a : m = [Coe("sdoreq", "down", call.o, First(p, InitData)) EXCEPT !.size = Len(p)]
                    /\ a = [m EXCEPT !.cnt = NextMbxCnt(cnt)]
    OBVIOUS
  <2>2. Continue("answer", m) /\ p' = Rest(p, InitData)
    BY <1>9, <2>1 DEF Request
  <2>3. a.cmd = "down" /\ a.data = First(p, InitData)
    BY ONLY <2>1 DEF Coe
  <2>4. a.data \o p' = Input
    BY <1>2, <1>3, <1>9, <2>2, <2>3, SplitJoin, DataNumbers
  <2>5. WriteTrue(a)'
    BY <1>3, <1>5, <1>9, <2>3, <2>4 DEF WriteTrue, Mine, Input
  <2>6. AskTrue(a)'
    BY <1>5, <1>9, <2>5 DEF AskTrue
  <2> QED BY <1>4, <2>1, <2>2, <2>6
<1>10. CASE call.op = "txpdo"
  <2>1. PICK m, a : m = Coe("txpdo rr", "pdo", call.o, << >>) /\ a = [m EXCEPT !.cnt = NextMbxCnt(cnt)]
    OBVIOUS
  <2>2. Continue("answer", m)
    BY <1>10, <2>1 DEF Request
  <2>3. a.o = call.o
    BY ONLY <2>1 DEF Coe
  <2>4. AskTrue(a)'
    BY <1>5, <1>10, <2>3 DEF AskTrue
  <2> QED BY <1>4, <2>1, <2>2, <2>4
<1>11. CASE call.op = "odlist"
  <2>1. PICK m, a : m = Coe("info", "list", call.o, << >>) /\ a = [m EXCEPT !.cnt = NextMbxCnt(cnt)]
    OBVIOUS
  <2>2. Continue("list", m) /\ p' = p
    BY <1>11, <2>1 DEF Request
  <2>3. AskTrue(a)'
    BY <1>3, <1>5, <1>11, <2>2 DEF AskTrue
  <2> QED BY <1>3, <1>4, <1>11, <2>1, <2>2, <2>3
<1>12. CASE call.op = "describe"
  <2>1. PICK m, a : m = Coe("info", "describe", call.o, << >>) /\ a = [m EXCEPT !.cnt = NextMbxCnt(cnt)]
    OBVIOUS
  <2>2. Continue("answer", m)
    BY <1>12, <2>1 DEF Request
  <2>3. a.o = call.o
    BY ONLY <2>1 DEF Coe
  <2>4. AskTrue(a)'
    BY <1>5, <1>12, <2>3 DEF AskTrue
  <2> QED BY <1>4, <2>1, <2>2, <2>4
<1>13. CASE call.op = "entries"
  <2>1. PICK m, a : m = Coe("info", "entry", NextEntry, << >>) /\ a = [m EXCEPT !.cnt = NextMbxCnt(cnt)]
    OBVIOUS
  <2>2. Continue("answer", m) /\ p' = p
    BY <1>13, <2>1 DEF Request
  <2>3. a.o = NextEntry /\ a.type = "coe"
    BY ONLY <2>1 DEF Coe
  <2>4. mbxOut' = a => AskTrue(a)'
    <3> HAVE mbxOut' = a
    <3>1. a # None
      BY <2>3, NoneIs
    <3> QED BY <1>3, <1>5, <1>13, <2>2, <2>3, <3>1 DEF AskTrue, EntryTrue, Entered
  <2> QED BY <1>4, <2>1, <2>2, <2>4
<1>14. CASE call.op = "rxpdo"
  <2>1. pc' = "sent" /\ UNCHANGED <<call, calls, result, sound, store, unapplied>>
    BY <1>14 DEF Request, objects
  <2>2. Own'
    BY <1>1, <1>14, <2>1 DEF Truth, Own, Ours
  <2>3. Truth'
    BY <2>1, <2>2 DEF Truth, Replying
  <2> QED BY <1>3, <2>1, <2>3, StillPromised
<1> QED BY <1>1, <1>7, <1>8, <1>9, <1>10, <1>11, <1>12, <1>13, <1>14 DEF CoeOps

LEMMA SentTruth ==
  ASSUME Fair, Prompt, Truth, Sent
  PROVE  Truth' /\ Promised
<1>1. pc = "sent" /\ at = "end"
  BY DEF Sent
<1>2. wkc = 1 /\ call.op = "rxpdo"
  BY <1>1 DEF Prompt, Resting, Clearing, Dispatching, Asking, Quietude
<1>3. Finish("ok", << >>)
  BY <1>2 DEF Sent
<1>4. unapplied = {}
  BY <1>1, <1>2 DEF Truth, Own
<1>5. Fulfils("ok", << >>)
  BY <1>2 DEF Fulfils, Service!Denotes
<1> QED BY <1>1, <1>2, <1>3, <1>4, <1>5, FinishTruth

LEMMA AnsweredTruly ==
  ASSUME Fair, Prompt, Truth, at = "end", pc \in Replying
  PROVE  /\ wkc = 1 /\ wkc > 0 /\ sm0 = None /\ Replies(mbxIn) /\ ReplyTrue(mbxIn) /\ (pc # "list" => Calm)
         /\ pc # "idle" /\ (call.op # "write" => unapplied = {}) /\ toggle \in BOOLEAN /\ (pc # "segment" => ~toggle)
<1>1. wkc = 1 /\ sm0 = None /\ Replies(mbxIn) /\ (pc # "list" => Calm) /\ toggle \in BOOLEAN /\ (pc # "segment" => ~toggle)
  BY AnsweredWell DEF Replying
<1>2. ReplyTrue(mbxIn) /\ pc # "idle" /\ (call.op # "write" => unapplied = {})
  BY DEF Truth, Own, Replying
<1> QED BY <1>1, <1>2

LEMMA ReadAnswerTruth ==
  ASSUME Fair, Prompt, Truth, ReadAnswer
  PROVE  Truth' /\ Promised
<1>1. pc = "answer" /\ at = "end" /\ call.op = "read" /\ pc \in Replying
  BY DEF ReadAnswer, Answered, Replying
<1>2. Replies(mbxIn) /\ ReplyTrue(mbxIn) /\ Calm /\ wkc > 0 /\ pc # "idle" /\ unapplied = {}
  BY <1>1, AnsweredTruly
<1>3. RepliesToRead(mbxIn) /\ ReadTrue(mbxIn) /\ IsSeq(Value) /\ call.n \in Nat
  BY <1>1, <1>2, CalledWell DEF Replies, ReplyTrue, Value
<1>4. SdoResponse /\ mbxIn.o.idx = call.o.idx /\ mbxIn.cmd \in {"up expedited", "up"}
  BY <1>1, <1>3 DEF RepliesToRead, Says, SdoResponse
<1>5. \/ mbxIn.cmd = "up expedited" /\ Len(mbxIn.data) <= call.n /\ Finish("ok", mbxIn.data)
      \/ /\ mbxIn.cmd = "up" /\ mbxIn.size <= call.n /\ ~(Len(mbxIn.data) < mbxIn.size)
         /\ Finish("ok", First(mbxIn.data, mbxIn.size))
      \/ /\ mbxIn.cmd = "up" /\ mbxIn.size <= call.n /\ Len(mbxIn.data) < mbxIn.size /\ p' = mbxIn.data
         /\ Continue("segment", Coe("sdoreq", "segment up", call.o, << >>))
      \/ /\ (IF mbxIn.cmd = "up expedited" THEN Len(mbxIn.data) ELSE mbxIn.size) > call.n
         /\ Finish("small", << >>)
  BY <1>4 DEF ReadAnswer
<1>6. Service!Denotes(call) = Value
  BY <1>1 DEF Service!Denotes, Value
<1>7. ASSUME NEW d, d = Value, Len(d) <= call.n, Finish("ok", d) PROVE Truth' /\ Promised
  <2>1. Fulfils("ok", d)
    BY <1>1, <1>6, <1>7 DEF Fulfils
  <2> QED BY <1>2, <1>7, <2>1, FinishTruth
<1>8. CASE mbxIn.cmd = "up expedited" /\ Len(mbxIn.data) <= call.n /\ Finish("ok", mbxIn.data)
  BY <1>3, <1>7, <1>8 DEF ReadTrue
<1>9. CASE /\ mbxIn.cmd = "up" /\ mbxIn.size <= call.n /\ ~(Len(mbxIn.data) < mbxIn.size)
           /\ Finish("ok", First(mbxIn.data, mbxIn.size))
  <2>1. mbxIn.data = Value /\ mbxIn.size = Len(Value)
    BY <1>3, <1>9 DEF ReadTrue
  <2>2. First(Value, Len(Value)) = Value
    <3>1. Len(Value) \in Nat /\ SubSeq(Value, 1, Len(Value)) = Value
      BY <1>3, CutAll DEF IsSeq
    <3> QED BY <3>1 DEF First
  <2> QED BY <1>7, <1>9, <2>1, <2>2
<1>10. CASE /\ mbxIn.cmd = "up" /\ mbxIn.size <= call.n /\ Len(mbxIn.data) < mbxIn.size /\ p' = mbxIn.data
            /\ Continue("segment", Coe("sdoreq", "segment up", call.o, << >>))
  <2>1. PICK m, a : m = Coe("sdoreq", "segment up", call.o, << >>) /\ a = [m EXCEPT !.cnt = NextMbxCnt(cnt)]
    OBVIOUS
  <2>2. UNCHANGED <<call, store, server>>
    BY <1>10 DEF Continue, objects
  <2>3. mbxIn.size = Len(Value) /\ IsSeq(mbxIn.data) /\ IsSeq(server.data) /\ mbxIn.data \o server.data = Value
    BY <1>3, <1>10 DEF ReadTrue
  <2>4. ReadOn'
    BY <1>10, <2>2, <2>3 DEF ReadOn, Value
  <2>5. AskTrue(a)'
    BY <1>1, <2>2, <2>4 DEF AskTrue
  <2> QED BY <1>1, <1>2, <1>10, <2>1, <2>5, ContinueTruth DEF Replying
<1>11. CASE /\ (IF mbxIn.cmd = "up expedited" THEN Len(mbxIn.data) ELSE mbxIn.size) > call.n
            /\ Finish("small", << >>)
  <2>1. Len(Value) > call.n
    BY <1>3, <1>4, <1>11 DEF ReadTrue
  <2>2. Fulfils("small", << >>)
    BY <1>1, <2>1 DEF Fulfils
  <2> QED BY <1>2, <1>11, <2>2, FinishTruth
<1> QED BY <1>5, <1>8, <1>9, <1>10, <1>11

LEMMA ReadSegmentTruth ==
  ASSUME Fair, Prompt, Truth, ReadSegment
  PROVE  Truth' /\ Promised
<1>1. pc = "segment" /\ at = "end" /\ call.op = "read" /\ pc \in Replying
  BY DEF ReadSegment, Replying
<1>2. Replies(mbxIn) /\ ReplyTrue(mbxIn) /\ Calm /\ wkc > 0 /\ wkc = 1 /\ pc # "idle" /\ unapplied = {}
  BY <1>1, AnsweredTruly
<1>3. RepliesToRead(mbxIn) /\ ReadTrue(mbxIn)
  BY <1>1, <1>2 DEF Replies, ReplyTrue
<1>4. SdoResponse /\ mbxIn.cmd = "segment up"
  BY <1>1, <1>3 DEF RepliesToRead, Says, SdoResponse
<1>5. PICK d : d = Content(mbxIn)
  OBVIOUS
<1>6. /\ IsSeq(p) /\ IsSeq(d) /\ Len(Value) <= call.n
      /\ IF mbxIn.last THEN p \o d = Value ELSE IsSeq(server.data) /\ (p \o d) \o server.data = Value
  BY <1>3, <1>4, <1>5 DEF ReadTrue
<1>7. IF mbxIn.last THEN Finish("ok", p \o d) ELSE p' = p \o d /\ NextSegmentUp
  <2>1. ~(wkc <= 0)
    BY <1>2
  <2> QED BY <1>4, <1>5, <2>1, Zenon DEF ReadSegment, Content
<1>8. CASE mbxIn.last
  <2>1. Service!Denotes(call) = Value
    BY <1>1 DEF Service!Denotes, Value
  <2>2. PICK r : r = p \o d
    OBVIOUS
  <2>3. Finish("ok", r) /\ r = Value
    BY <1>6, <1>7, <1>8, <2>2
  <2>4. Fulfils("ok", r)
    BY <1>1, <1>6, <2>1, <2>3 DEF Fulfils
  <2> QED BY <1>2, <2>3, <2>4, FinishTruth
<1>9. CASE ~mbxIn.last
  <2>1. PICK m, a : m = [Coe("sdoreq", "segment up", call.o, << >>) EXCEPT !.toggle = toggle]
                    /\ a = [m EXCEPT !.cnt = NextMbxCnt(cnt)]
    OBVIOUS
  <2>2. Continue("segment", m) /\ p' = p \o d
    BY <1>7, <1>9, <2>1 DEF NextSegmentUp
  <2>3. UNCHANGED <<call, store, server>>
    BY <2>2 DEF Continue, objects
  <2>4. IsSeq(p')
    BY <1>6, <2>2, JoinIs
  <2>5. p' \o server.data = Value
    BY <1>6, <1>9, <2>2
  <2>6. ReadOn'
    BY <1>6, <1>9, <2>3, <2>4, <2>5 DEF ReadOn, Value
  <2>7. AskTrue(a)'
    BY <1>1, <2>3, <2>6 DEF AskTrue
  <2> QED BY <1>1, <1>2, <2>1, <2>2, <2>7, ContinueTruth DEF Replying
<1> QED BY <1>8, <1>9

LEMMA SegmentDownTruth ==
  ASSUME Fair, Prompt, Truth, at = "end", pc \in {"answer", "segment"}, call.op = "write", IsSeq(p), p # << >>,
         ReplyTrue(mbxIn), NEW t, NextSegmentDown(t)
  PROVE  Truth' /\ Promised
<1>1. Calm /\ wkc > 0 /\ pc # "idle"
  BY AnsweredTruly DEF Replying
<1> DEFINE d == First(p, SegData)
           u == IF Len(d) < 7 THEN 7 - Len(d) ELSE 0
           l == Len(p) <= SegData
<1>2. PICK m, a : m = [Coe("sdoreq", "segment down", call.o, Padded(d)) EXCEPT !.toggle = t, !.last = l, !.unused = u]
                  /\ a = [m EXCEPT !.cnt = NextMbxCnt(cnt)]
  OBVIOUS
<1>3. p' = Rest(p, SegData) /\ Continue("segment", m)
  BY <1>2 DEF NextSegmentDown
<1>4. IsSeq(d) /\ d \o p' = p
  BY <1>3, Splits, SplitJoin, DataNumbers
<1> HIDE DEF l
<1>5. First(Padded(d), Len(Padded(d)) - u) = d
  <2> HIDE DEF d
  <2>1. First(Padded(d), Len(d)) = d
    BY <1>4, PaddedFirst
  <2>2. Len(Padded(d)) - u = Len(d)
    BY <1>4, PaddedIs
  <2> QED BY <2>1, <2>2
<1> HIDE DEF d, u
<1>6. a.cmd = "segment down" /\ a.data = Padded(d) /\ a.unused = u
  BY ONLY <1>2 DEF Coe
<1>7. UNCHANGED <<call, calls, server, unapplied>> /\ pc' = "segment"
  BY <1>3 DEF Continue, objects
<1>8. unapplied = {Mine} /\ server.o = call.o /\ server.data \o p = Input
  BY DEF ReplyTrue
<1>9. First(a.data, Len(a.data) - a.unused) \o p' = p
  BY <1>4, <1>5, <1>6
<1>10. WriteTrue(a)'
  BY <1>6, <1>7, <1>8, <1>9 DEF WriteTrue, Mine, Input
<1>11. AskTrue(a)'
  BY <1>7, <1>10 DEF AskTrue
<1> QED BY <1>1, <1>2, <1>3, <1>11, ContinueTruth DEF Replying

LEMMA WriteTruth ==
  ASSUME Fair, Prompt, Truth, WriteAnswer \/ WriteSegment
  PROVE  Truth' /\ Promised
<1>1. pc \in {"answer", "segment"} /\ at = "end" /\ call.op = "write" /\ pc \in Replying
  BY DEF WriteAnswer, WriteSegment, Answered, Replying
<1>2. Replies(mbxIn) /\ ReplyTrue(mbxIn) /\ Calm /\ wkc > 0 /\ wkc = 1 /\ pc # "idle"
  BY <1>1, AnsweredTruly
<1>3. RepliesToWrite(mbxIn)
  BY <1>1, <1>2 DEF Replies
<1>4. /\ SdoResponse /\ IsSeq(p)
      /\ pc = "answer" => mbxIn.o.idx = call.o.idx /\ mbxIn.o.sub = call.o.sub
      /\ pc = "segment" => mbxIn.cmd = "segment down"
  BY <1>3 DEF RepliesToWrite, Says, SdoResponse
<1>5. (p # << >> /\ \E t : NextSegmentDown(t)) \/ (p = << >> /\ Finish("ok", << >>))
  <2>0. ~(wkc <= 0) /\ wkc > 0
    BY <1>2
  <2>1. CASE WriteAnswer
    BY <1>2, <1>4, <2>0, <2>1, Zenon DEF WriteAnswer, Answered
  <2>2. CASE WriteSegment
    BY <1>2, <1>4, <2>0, <2>2, Zenon DEF WriteSegment
  <2> QED BY <2>1, <2>2
<1>6. CASE p # << >> /\ \E t : NextSegmentDown(t)
  BY <1>1, <1>2, <1>4, <1>6, SegmentDownTruth
<1>7. CASE p = << >> /\ Finish("ok", << >>)
  <2>1. unapplied = {}
    BY <1>1, <1>2, <1>7 DEF ReplyTrue
  <2>2. Fulfils("ok", << >>)
    BY <1>1 DEF Fulfils, Service!Denotes
  <2> QED BY <1>2, <1>7, <2>1, <2>2, FinishTruth
<1> QED BY <1>5, <1>6, <1>7

LEMMA OtherAnswerTruth ==
  ASSUME Fair, Prompt, Truth, TxPdoAnswer \/ DescribeAnswer
  PROVE  Truth' /\ Promised
<1>1. pc = "answer" /\ at = "end" /\ call.op \in {"txpdo", "describe"} /\ pc \in Replying
  BY DEF TxPdoAnswer, DescribeAnswer, Answered, Replying
<1>2. Replies(mbxIn) /\ ReplyTrue(mbxIn) /\ wkc > 0 /\ pc # "idle" /\ unapplied = {}
  BY <1>1, AnsweredTruly
<1>3. mbxIn.data = Value /\ Service!Denotes(call) = Value
  BY <1>1, <1>2 DEF ReplyTrue, Service!Denotes, Value
<1>4. \/ Finish("ok", mbxIn.data) /\ (call.op = "txpdo" => ~(Len(mbxIn.data) > call.n))
      \/ Finish("small", << >>) /\ call.op = "txpdo" /\ Len(mbxIn.data) > call.n
  <2>1. CASE TxPdoAnswer
    <3>1. mbxIn.type = "coe" /\ mbxIn.service = "txpdo" /\ call.op = "txpdo"
      BY <1>2, <2>1 DEF TxPdoAnswer, Replies, Says
    <3> QED BY <2>1, <3>1 DEF TxPdoAnswer
  <2>2. CASE DescribeAnswer
    <3>1. mbxIn.type = "coe" /\ mbxIn.cmd = "describe" /\ call.op = "describe"
      BY <1>2, <2>2 DEF DescribeAnswer, Replies, Says
    <3> QED BY <2>2, <3>1 DEF DescribeAnswer
  <2> QED BY <2>1, <2>2
<1>5. IsSeq(Value) /\ call.n \in Nat /\ Len(Value) \in Nat
  BY <1>2, CalledWell DEF Value, IsSeq
<1>6. CASE Finish("ok", mbxIn.data) /\ (call.op = "txpdo" => ~(Len(mbxIn.data) > call.n))
  <2>1. Fulfils("ok", mbxIn.data)
    BY <1>1, <1>3, <1>5, <1>6 DEF Fulfils
  <2> QED BY <1>2, <1>6, <2>1, FinishTruth
<1>7. CASE Finish("small", << >>) /\ call.op = "txpdo" /\ Len(mbxIn.data) > call.n
  <2>1. Fulfils("small", << >>)
    BY <1>1, <1>3, <1>7 DEF Fulfils
  <2> QED BY <1>2, <1>7, <2>1, FinishTruth
<1> QED BY <1>4, <1>6, <1>7

LEMMA EnteredMore ==
  ASSUME NEW n \in Nat
  PROVE  Append(Entered(n), <<n>>) = Entered(n + 1)
<1>1. ASSUME NEW k \in Nat PROVE IsSeq(Entered(k)) /\ Len(Entered(k)) = k /\ \A j \in 1 .. k : Entered(k)[j] = <<j - 1>>
  <2> DEFINE S == {<<j - 1>> : j \in 1 .. k}
  <2>1. \A j \in 1 .. k : <<j - 1>> \in S
    OBVIOUS
  <2> HIDE DEF S
  <2>2. Entered(k) \in Seq(S) /\ Len(Entered(k)) = k
    BY <2>1 DEF Entered
  <2>3. \A j \in 1 .. k : Entered(k)[j] = <<j - 1>>
    BY DEF Entered
  <2> QED BY <2>2, <2>3, SeqIs
<1> DEFINE a == Append(Entered(n), <<n>>)  b == Entered(n + 1)
<1>2. /\ IsSeq(a) /\ Len(a) = n + 1 /\ a[n + 1] = <<n>> /\ \A k \in 1 .. n : a[k] = Entered(n)[k]
  BY <1>1, AppendIs
<1>3. IsSeq(b) /\ Len(b) = n + 1 /\ \A j \in 1 .. n + 1 : b[j] = <<j - 1>>
  BY <1>1
<1> HIDE DEF a, b
<1>4. ASSUME NEW k \in 1 .. n + 1 PROVE a[k] = b[k]
  <2>1. CASE k = n + 1
    BY <1>2, <1>3, <2>1
  <2>2. CASE k \in 1 .. n
    BY <1>1, <1>2, <1>3, <2>2
  <2> QED BY <2>1, <2>2
<1>5. a = b
  BY <1>2, <1>3, <1>4, SameSeq
<1> QED BY <1>5 DEF a, b

LEMMA EntryTruth ==
  ASSUME Fair, Prompt, Truth, EntryAnswer
  PROVE  Truth' /\ Promised
<1>1. pc = "answer" /\ at = "end" /\ call.op = "entries" /\ pc \in Replying
  BY DEF EntryAnswer, Replying
<1>2. Replies(mbxIn) /\ ReplyTrue(mbxIn) /\ wkc > 0 /\ pc # "idle" /\ unapplied = {}
  BY <1>1, AnsweredTruly
<1>3. mbxIn.type = "coe" /\ mbxIn.cmd = "entry"
  BY <1>1, <1>2 DEF Replies, Says
<1>4. PICK n, list : n = mbxOut.o.sub /\ list = Append(p, mbxIn.data)
  OBVIOUS
<1>5. mbxIn.data = <<n>> /\ mbxOut # None /\ n \in 0 .. call.n /\ p = Entered(n) /\ call.n \in Nat
  BY <1>1, <1>2, <1>4, CalledWell DEF ReplyTrue, EntryTrue
<1>6. list = Entered(n + 1)
  <2>1. n \in Nat
    BY <1>5
  <2>2. list = Append(Entered(n), <<n>>)
    BY <1>4, <1>5
  <2> QED BY <2>1, <2>2, EnteredMore
<1>7. IF n = call.n THEN Finish("ok", list)
      ELSE /\ p' = list /\ pc' = "clear" /\ sound' = sound /\ Receive(TRUE)
           /\ UNCHANGED <<client, call, calls, toggle, result, slave, seen, faults, objects>>
  BY <1>2, <1>3, <1>4 DEF EntryAnswer, Truth, Own
<1>8. CASE n = call.n
  <2>1. Fulfils("ok", list)
    BY <1>1, <1>6, <1>8 DEF Fulfils, Service!Denotes, Entered
  <2> QED BY <1>2, <1>7, <1>8, <2>1, FinishTruth
<1>9. CASE n # call.n
  <2>1. /\ p' = list /\ pc' = "clear" /\ UNCHANGED <<call, calls, result, store, server, unapplied, sound, mbxOut>>
    BY <1>7, <1>9 DEF Receive, objects
  <2>2. "sub" \in DOMAIN call.o
    BY <1>2, CalledWell
  <2>3. NextEntry'.sub = n + 1
    BY <1>4, <1>5, <2>1, <2>2 DEF NextEntry
  <2>4. n + 1 \in 0 .. call.n
    BY <1>5, <1>9
  <2>5. Own'
    BY <1>1, <1>2, <1>6, <2>1, <2>3, <2>4 DEF Truth, Own, Ours, Entered
  <2>6. Truth'
    BY <2>1, <2>5 DEF Truth, Replying
  <2> QED BY <2>1, <2>6, StillPromised DEF Truth, Own
<1> QED BY <1>8, <1>9

(* All of the list, and its fragments.                                      *)
LEMMA AllIs ==
  /\ IsSeq(All) /\ Len(All) = Len(Dictionary) + 1 /\ Len(Dictionary) \in Nat
  /\ All[1] = ListType /\ \A i \in 1 .. Len(Dictionary) : All[i + 1] = Dictionary[i]
<1>1. IsSeq(Dictionary) /\ Len(Dictionary) \in Nat
  BY CoEAssumption, SeqIs DEF CoEAssumption, IsSeq
<1>2. PICK t : t = <<ListType>>
  OBVIOUS
<1>3. t \in Seq({ListType}) /\ Len(t) = 1 /\ t[1] = ListType
  BY <1>2
<1>4. IsSeq(t)
  BY <1>3, SeqIs
<1>5. PICK d : d = t \o Dictionary
  OBVIOUS
<1>6. /\ IsSeq(d) /\ Len(d) = 1 + Len(Dictionary) /\ \A k \in 1 .. 1 : d[k] = t[k]
      /\ \A k \in 1 + 1 .. 1 + Len(Dictionary) : d[k] = Dictionary[k - 1]
  <2>1. /\ IsSeq(t \o Dictionary) /\ Len(t \o Dictionary) = Len(t) + Len(Dictionary)
        /\ \A k \in 1 .. Len(t) : (t \o Dictionary)[k] = t[k]
        /\ \A k \in Len(t) + 1 .. Len(t) + Len(Dictionary) : (t \o Dictionary)[k] = Dictionary[k - Len(t)]
    BY ONLY <1>1, <1>4, JoinIs
  <2> QED BY <1>3, <1>5, <2>1
<1>7. d[1] = ListType /\ \A i \in 1 .. Len(Dictionary) : d[i + 1] = Dictionary[i]
  <2>1. ASSUME NEW i \in 1 .. Len(Dictionary) PROVE d[i + 1] = Dictionary[i]
    <3>1. i + 1 \in 1 + 1 .. 1 + Len(Dictionary) /\ (i + 1) - 1 = i
      BY <1>1
    <3> QED BY <1>6, <3>1
  <2> QED BY <1>3, <1>6, <2>1
<1>8. All = d
  BY <1>2, <1>5 DEF All
<1> QED BY <1>1, <1>6, <1>7, <1>8

LEMMA FragIs ==
  ASSUME NEW i \in Nat, i > 0, 2 * i <= Len(All) + 1
  PROVE  /\ IsSeq(Frag(i)) /\ Len(Frag(i)) \in {1, 2} /\ 2 * i - 2 + Len(Frag(i)) <= Len(All)
         /\ \A k \in 1 .. Len(Frag(i)) : Frag(i)[k] = All[2 * i - 2 + k]
<1>1. PICK j, n : j = 2 * i - 2 /\ n = Len(All)
  OBVIOUS
<1>2. IsSeq(All) /\ n \in Nat /\ j \in 0 .. n /\ j < n
  BY <1>1, AllIs
<1>3. PICK r : r = Rest(All, j)
  OBVIOUS
<1>4. IsSeq(r) /\ Len(r) = n - j /\ \A k \in 1 .. n - j : r[k] = All[j + k]
  BY <1>1, <1>2, <1>3, SuffixIs DEF Rest
<1>5. PICK m : m = IF Len(r) < 2 THEN Len(r) ELSE 2
  OBVIOUS
<1>6. m \in {1, 2} /\ m \in 0 .. Len(r) /\ m <= n - j
  BY <1>2, <1>4, <1>5
<1>7. PICK f : f = SubSeq(r, 1, m)
  OBVIOUS
<1>8. IsSeq(f) /\ Len(f) = m /\ \A k \in 1 .. m : f[k] = r[k]
  BY <1>4, <1>6, <1>7, PrefixIs
<1>9. Frag(i) = f
  BY <1>1, <1>3, <1>5, <1>7 DEF Frag, First
<1>10. ASSUME NEW k \in 1 .. m PROVE f[k] = All[j + k]
  BY <1>4, <1>6, <1>8
<1>11. IsSeq(f) /\ Len(f) \in {1, 2} /\ j + Len(f) <= n
  BY <1>2, <1>6, <1>8
<1>12. \A k \in 1 .. Len(f) : f[k] = All[j + k]
  BY <1>8, <1>10
<1> QED BY ONLY <1>1, <1>9, <1>11, <1>12

(* The entries in a fragment, from the one behind the b-th on.              *)
LEMMA FragEntries ==
  ASSUME NEW i \in Nat, i > 0, NEW d, IsFrag(i, d), NEW first \in BOOLEAN, ~first => i > 1,
         NEW e, e = (IF first THEN Tail(d) ELSE d)
  PROVE  \E b \in Nat : /\ IsSeq(e) /\ Len(e) \in {0, 1, 2} /\ b + Len(e) < 2 * i /\ b + Len(e) <= Len(Dictionary)
                        /\ \A k \in 1 .. Len(e) : e[k] = Dictionary[b + k]
                        /\ ~first => b >= 2 * i - 3
<1>1. PICK j, n, z : j = 2 * i - 2 /\ n = Len(d) /\ z = Len(Dictionary)
  OBVIOUS
<1>2. 2 * i <= Len(All) + 1 /\ d = Frag(i)
  BY DEF IsFrag
<1>3. /\ IsSeq(d) /\ n \in {1, 2} /\ j + n <= z + 1 /\ z \in Nat
      /\ \A k \in 1 .. n : d[k] = All[j + k]
  BY <1>1, <1>2, FragIs, AllIs
<1>4. \A x \in 1 .. z : All[x + 1] = Dictionary[x]
  BY <1>1, AllIs
<1>5. j \in Nat /\ (~first => j - 1 \in Nat) /\ j < 2 * i - 1
  BY <1>1
<1>6. CASE first
  <2>1. d # << >>
    <3>1. Len(d) # 0
      BY <1>1, <1>3
    <3> QED BY <3>1, EmptyIs
  <2>2. IsSeq(e) /\ Len(e) = n - 1 /\ \A k \in 1 .. n - 1 : e[k] = d[k + 1]
    BY <1>1, <1>3, <1>6, <2>1, TailIs
  <2>3. ASSUME NEW k \in 1 .. Len(e) PROVE e[k] = Dictionary[j + k]
    <3>1. k + 1 \in 1 .. n /\ k \in 1 .. n - 1 /\ j + k \in 1 .. z /\ j + (k + 1) = (j + k) + 1
      BY <1>3, <1>5, <2>2
    <3>2. e[k] = All[(j + k) + 1]
      BY <1>3, <2>2, <3>1
    <3> QED BY <1>4, <3>1, <3>2
  <2>4. n - 1 \in {0, 1, 2} /\ j + (n - 1) <= z /\ j + (n - 1) < 2 * i
    <3>1. CASE n = 1
      BY <1>1, <1>3, <3>1
    <3>2. CASE n = 2
      BY <1>1, <1>3, <3>2
    <3> QED BY <1>3, <3>1, <3>2
  <2>5. Len(e) \in {0, 1, 2} /\ j + Len(e) < 2 * i /\ j + Len(e) <= z
    BY <2>2, <2>4
  <2> QED BY <1>1, <1>5, <1>6, <2>2, <2>3, <2>5
<1>7. CASE ~first
  <2>1. PICK b : b = j - 1
    OBVIOUS
  <2>2. b \in Nat /\ e = d /\ b + 1 = j
    BY <1>5, <1>7, <2>1
  <2>3. ASSUME NEW k \in 1 .. Len(e) PROVE e[k] = Dictionary[b + k]
    <3>1. k \in 1 .. n /\ b + k \in 1 .. z /\ j + k = (b + k) + 1
      BY <1>1, <1>3, <1>5, <2>2
    <3>2. e[k] = All[(b + k) + 1]
      BY <1>3, <2>2, <3>1
    <3> QED BY <1>4, <3>1, <3>2
  <2>4. n \in {0, 1, 2} /\ b + n <= z /\ b + n < 2 * i /\ b >= 2 * i - 3
    <3>1. CASE n = 1
      BY <1>1, <1>3, <1>5, <2>2, <3>1
    <3>2. CASE n = 2
      BY <1>1, <1>3, <1>5, <2>2, <3>2
    <3> QED BY <1>3, <3>1, <3>2
  <2>5. Len(e) \in {0, 1, 2} /\ b + Len(e) < 2 * i /\ b + Len(e) <= z
    BY <1>1, <2>2, <2>4
  <2> QED BY <1>1, <1>3, <2>2, <2>3, <2>4, <2>5
<1> QED BY <1>6, <1>7

LEMMA FirstIs ==
  ASSUME NEW d, IsSeq(d), NEW n \in Nat, NEW l, l = First(d, n)
  PROVE  IsSeq(l) /\ Len(l) \in Nat /\ Len(l) <= n /\ Len(l) <= Len(d) /\ \A k \in 1 .. Len(l) : l[k] = d[k]
<1>1. PICK z, m : z = Len(d) /\ m = IF z < n THEN z ELSE n
  OBVIOUS
<1>2. z \in Nat
  BY <1>1 DEF IsSeq
<1>3. m \in 0 .. z /\ m <= n /\ m <= z
  BY <1>1, <1>2
<1>4. l = SubSeq(d, 1, m)
  BY <1>1 DEF First
<1>5. IsSeq(l) /\ Len(l) = m /\ \A k \in 1 .. m : l[k] = d[k]
  BY <1>1, <1>3, <1>4, PrefixIs
<1> QED BY <1>1, <1>3, <1>5

(* The next fragment is put behind what was taken of those before it.       *)
Joined(d) == First(p \o (IF p = << >> THEN Tail(d) ELSE d), MaxODlist)
Listed(i, l) ==
  /\ IsSeq(l) /\ Len(l) <= MaxODlist
  /\ \A k \in 1 .. Len(l) : \E j \in 1 .. Len(Dictionary) : j < 2 * i /\ l[k] = Dictionary[j]
  /\ \A k \in 1 .. Len(l) - 1 : l[k][1] < l[k + 1][1]

LEMMA TakesMore ==
  ASSUME Orderly, NEW g \in Nat, TakenOf(g), NEW i \in Nat, i > g, NEW d, IsFrag(i, d), NEW l, l = Joined(d)
  PROVE  Listed(i, l)
<1>0. PICK e : e = (IF p = << >> THEN Tail(d) ELSE d)
  OBVIOUS
<1>1. IsSeq(p) /\ MaxODlist \in Nat /\ (p = << >> <=> Len(p) = 0) /\ Len(p) \in Nat
  BY CoEAssumption, WhenEmpty DEF TakenOf, CoEAssumption
<1>2. i > 0 /\ (p # << >> => i > 1)
  BY DEF TakenOf
<1>3. PICK b \in Nat : /\ IsSeq(e) /\ Len(e) \in {0, 1, 2} /\ b + Len(e) < 2 * i /\ b + Len(e) <= Len(Dictionary)
                       /\ \A k \in 1 .. Len(e) : e[k] = Dictionary[b + k]
                       /\ p # << >> => b >= 2 * i - 3
  <2>1. PICK first \in BOOLEAN : first = (p = << >>)
    OBVIOUS
  <2>2. e = (IF first THEN Tail(d) ELSE d) /\ (~first => i > 1)
    BY <1>0, <1>2, <2>1
  <2> QED BY <1>2, <2>1, <2>2, FragEntries
<1>4. PICK w, n, m, z : w = p \o e /\ n = Len(p) /\ m = Len(e) /\ z = Len(Dictionary)
  OBVIOUS
<1>5. n \in Nat /\ m \in {0, 1, 2} /\ b + m < 2 * i /\ b + m <= z /\ z \in Nat
  BY <1>1, <1>3, <1>4, AllIs
<1>6. /\ IsSeq(w) /\ Len(w) = n + m
      /\ \A k \in 1 .. n : w[k] = p[k]
      /\ \A k \in n + 1 .. n + m : w[k] = e[k - n]
  BY <1>1, <1>3, <1>4, JoinIs
<1>7. IsSeq(l) /\ Len(l) \in Nat /\ Len(l) <= MaxODlist /\ Len(l) <= Len(w) /\ \A k \in 1 .. Len(l) : l[k] = w[k]
  <2>1. l = First(w, MaxODlist)
    BY <1>0, <1>4 DEF Joined
  <2> QED BY <1>1, <1>6, <2>1, FirstIs
<1>8. /\ \A k \in 1 .. n : \E j \in 1 .. z : j < 2 * g /\ p[k] = Dictionary[j]
      /\ \A k \in 1 .. n - 1 : p[k][1] < p[k + 1][1]
  BY <1>4 DEF TakenOf
<1>9. ASSUME NEW k \in 1 .. n PROVE \E j \in 1 .. z : j < 2 * g /\ w[k] = Dictionary[j]
  BY <1>6, <1>8
<1>10. ASSUME NEW k \in n + 1 .. n + m PROVE b + (k - n) \in 1 .. z /\ b + (k - n) < 2 * i /\ w[k] = Dictionary[b + (k - n)]
  <2>1. k - n \in 1 .. m
    BY <1>5
  <2>2. b + (k - n) \in 1 .. z /\ b + (k - n) < 2 * i
    BY <1>5, <2>1
  <2>3. w[k] = Dictionary[b + (k - n)]
    BY <1>3, <1>4, <1>6, <2>1
  <2> QED BY <2>2, <2>3
<1>11. ASSUME NEW k \in 1 .. n + m PROVE \E j \in 1 .. z : j < 2 * i /\ w[k] = Dictionary[j]
  <2>1. CASE k \in 1 .. n
    <3>1. PICK j \in 1 .. z : j < 2 * g /\ w[k] = Dictionary[j]
      BY <1>9, <2>1
    <3>2. j < 2 * i
      BY <3>1, <1>5
    <3> QED BY <3>1, <3>2
  <2>2. CASE k \in n + 1 .. n + m
    BY <1>10, <2>2
  <2> QED BY <1>5, <2>1, <2>2
<1>12. ASSUME NEW k \in 1 .. (n + m) - 1 PROVE w[k][1] < w[k + 1][1]
  <2>1. CASE k + 1 <= n
    <3>1. k \in 1 .. n - 1 /\ k \in 1 .. n /\ k + 1 \in 1 .. n
      BY <1>5, <2>1
    <3> QED BY <1>6, <1>8, <3>1
  <2>2. CASE k + 1 > n
    <3>1. k + 1 \in n + 1 .. n + m
      BY <1>5, <2>2
    <3>2. PICK x : x = b + ((k + 1) - n)
      OBVIOUS
    <3>3. x \in 1 .. z /\ w[k + 1] = Dictionary[x]
      BY <1>10, <3>1, <3>2
    <3>4. \E j \in 1 .. z : j < x /\ w[k] = Dictionary[j]
      <4>1. CASE k \in 1 .. n
        <5>1. n # 0 /\ k = n
          BY <1>5, <2>2, <4>1
        <5>2. b >= 2 * i - 3
          BY <1>1, <1>3, <1>4, <5>1
        <5>3. PICK j \in 1 .. z : j < 2 * g /\ w[k] = Dictionary[j]
          BY <1>9, <4>1
        <5>4. x = b + 1 /\ j < x
          BY <1>5, <3>2, <5>1, <5>2, <5>3
        <5> QED BY <5>3, <5>4
      <4>2. CASE k \in n + 1 .. n + m
        <5>1. PICK j : j = b + (k - n)
          OBVIOUS
        <5>2. j \in 1 .. z /\ w[k] = Dictionary[j] /\ j < x
          BY <1>5, <1>10, <3>2, <4>2, <5>1
        <5> QED BY <5>2
      <4> QED BY <1>5, <4>1, <4>2
    <3> QED BY <1>4, <3>3, <3>4 DEF Orderly
  <2> QED BY <1>5, <2>1, <2>2
<1>13. ASSUME NEW k \in 1 .. Len(l) PROVE \E j \in 1 .. z : j < 2 * i /\ l[k] = Dictionary[j]
  <2>1. k \in 1 .. n + m /\ l[k] = w[k]
    BY <1>5, <1>6, <1>7
  <2> QED BY <1>11, <2>1
<1>14. ASSUME NEW k \in 1 .. Len(l) - 1 PROVE l[k][1] < l[k + 1][1]
  <2>1. k \in 1 .. (n + m) - 1 /\ l[k] = w[k] /\ l[k + 1] = w[k + 1]
    BY <1>5, <1>6, <1>7
  <2> QED BY <1>12, <2>1
<1> QED BY <1>4, <1>7, <1>13, <1>14 DEF Listed

LEMMA ListTruth ==
  ASSUME Orderly, Fair, Prompt, Truth, ListAnswer
  PROVE  Truth' /\ Promised
<1>1. pc = "list" /\ at = "end" /\ pc \in Replying
  BY DEF ListAnswer, Answered, Replying
<1>2. Replies(mbxIn) /\ wkc > 0 /\ pc # "idle" /\ sm0 = None
  BY <1>1, AnsweredTruly
<1>3. call.op = "odlist" /\ mbxIn.type = "coe" /\ mbxIn.cmd = "list" /\ unapplied = {} /\ Ours
  BY <1>1, <1>2 DEF Replies, RepliesToRead, RepliesToWrite, Says, Truth, Own
<1>4. PICK l : l = Joined(mbxIn.data)
  OBVIOUS
<1>5. IF mbxIn.last THEN Finish("ok", l)
      ELSE /\ p' = l /\ Receive(FALSE)
           /\ UNCHANGED <<client, pc, call, calls, toggle, result, sound, slave, seen, faults, objects>>
  BY <1>3, <1>4 DEF ListAnswer, Joined
<1>6. PICK c \in Int, g \in Nat, i \in Nat :
        TakenOf(g) /\ i > g /\ IsFrag(i, mbxIn.data) /\ InOrder(c, i)
  <2>1. PICK c \in Int, g \in Nat :
          /\ TakenOf(g) /\ InOrder(c, g)
          /\ at = "end" => \E i \in Nat : i > g /\ IsFrag(i, mbxIn.data) /\ InOrder(c, i)
    BY <1>1 DEF Truth, ListTrue
  <2> QED BY <1>1, <2>1
<1>8. Listed(i, l)
  BY <1>4, <1>6, TakesMore
<1>9. CASE mbxIn.last
  <2>1. Service!PartOf(l)
    BY <1>8 DEF Listed, Service!PartOf
  <2>2. Fulfils("ok", l)
    BY <1>3, <2>1 DEF Fulfils
  <2> QED BY <1>2, <1>3, <1>5, <1>9, <2>2, FinishTruth
<1>10. CASE ~mbxIn.last
  <2>1. /\ p' = l /\ at' = "poll"
        /\ UNCHANGED <<pc, call, calls, result, sound, sm0, sm1, outq, store, server, unapplied>>
    BY <1>5, <1>10 DEF Receive, slave, objects
  <2>2. TakenOf(i)'
    BY <1>6, <1>8, <2>1 DEF TakenOf, Listed
  <2>3. InOrder(c, i)'
    <3>1. Places' = Places /\ \A k : Waiting(k)' = Waiting(k)
      BY <2>1 DEF Places, Waiting
    <3> QED BY <1>6, <3>1 DEF InOrder, IsFrag, IsAnswer
  <2>4. ListTrue'
    BY <2>1, <2>2, <2>3 DEF ListTrue
  <2>5. Own'
    BY <1>1, <1>3, <2>1 DEF Truth, Own, Ours
  <2>6. \A m : ReplyTrue(m)'
    BY <1>3, <2>1 DEF ReplyTrue
  <2>7. Truth'
    BY <1>1, <1>2, <2>1, <2>4, <2>5, <2>6 DEF Truth
  <2> QED BY <1>3, <2>1, <2>7, StillPromised
<1> QED BY <1>9, <1>10

LEMMA ClientTruth ==
  ASSUME Orderly, Fair, Prompt, Truth, CoeClient
  PROVE  Truth' /\ Promised
BY BeginTruth, RequestTruth, SentTruth, AlwaysAnswer, ReadAnswerTruth, ReadSegmentTruth, WriteTruth,
   OtherAnswerTruth, EntryTruth, ListTruth DEF CoeClient
-----------------------------------------------------------------------------
(* The slave's steps: an answer that tells the truth, and a write that is   *)
(* carried out at one moment and as a whole.                                *)
(* The slave answers the request with the truth.                            *)
LEMMA RepliedTruth ==
  ASSUME Fair, Prompt, Truth, Waits, pc # "list", NEW m, NEW a, a = [m EXCEPT !.re = sm0.cnt], Reply(m),
         UNCHANGED session, call.op # "write" => UNCHANGED unapplied, ReplyTrue(a)'
  PROVE  Truth'
<1>1. UNCHANGED <<client, pc, call, calls, p, result, sound>>
  BY DEF session, program
<1>2. /\ sm0' = None /\ outq' = outq \o <<a>>
      /\ UNCHANGED <<at, quick, want, mbxOut, mbxIn, wkc, cnt, sm1>>
  BY DEF Reply, Take, master
<1>3. PICK q : q = <<a>>
  OBVIOUS
<1>4. IsSeq(q) /\ Len(q) = 1 /\ q[1] = a
  BY <1>3 DEF IsSeq
<1>5. IsSeq(outq) /\ Len(outq) \in Nat
  BY DEF Prompt, Holds, IsSeq
<1>6. PICK n : n = Len(outq)
  OBVIOUS
<1>7. Len(outq') = n + 1 /\ (\A k \in 1 .. n : outq'[k] = outq[k]) /\ outq'[n + 1] = a
  <2>1. /\ Len(outq \o q) = Len(outq) + Len(q)
        /\ \A k \in 1 .. Len(outq) : (outq \o q)[k] = outq[k]
        /\ \A k \in Len(outq) + 1 .. Len(outq) + Len(q) : (outq \o q)[k] = q[k - Len(outq)]
    BY ONLY <1>4, <1>5, JoinIs
  <2>2. n + 1 \in n + 1 .. n + 1 /\ (n + 1) - n = 1
    BY <1>5, <1>6
  <2> QED BY <1>2, <1>3, <1>4, <1>6, <2>1, <2>2
<1>8. ASSUME NEW k \in Places', IsAnswer(Waiting(k))' PROVE Waiting(k)' = a
  <2>1. k \in 0 .. n + 1
    BY <1>7 DEF Places
  <2>2. CASE k \in 0 .. n
    <3>1. k \in Places /\ Waiting(k)' = Waiting(k)
      BY <1>2, <1>6, <1>7, <2>2 DEF Places, Waiting
    <3>2. Idle(Waiting(k))
      BY <3>1 DEF Waits, Calm
    <3> QED BY <1>8, <3>1, <3>2, NoticesAre DEF IsAnswer
  <2>3. CASE k = n + 1
    BY <1>5, <1>6, <1>7, <2>3 DEF Waiting
  <2> QED BY <1>5, <1>6, <2>1, <2>2, <2>3
<1>9. pc \in Replying /\ at \in Served
  BY DEF Waits, Replying, Served
<1>10. Own'
  BY <1>1, <1>9 DEF Truth, Own, Ours, Replying
<1>11. \A k \in Places' : IsAnswer(Waiting(k))' => ReplyTrue(Waiting(k))'
  BY <1>8
<1> QED BY <1>1, <1>2, <1>9, <1>10, <1>11 DEF Truth, Served

(* Serving leaves the call as it is.                                        *)
LEMMA ServedOn ==
  ASSUME Truth, UNCHANGED session, UNCHANGED <<store, unapplied>>
  PROVE  Promised
<1>1. UNCHANGED <<call, calls, result, sound>>
  BY DEF session, program
<1> QED BY <1>1, StillPromised DEF Truth, Own

LEMMA RequestIsTrue ==
  ASSUME Truth, Waits
  PROVE  AskTrue(sm0) /\ pc # "idle"
BY DEF Waits, Truth, Replying, Served

LEMMA FirstAll ==
  ASSUME NEW d, IsSeq(d), NEW n \in Nat, Len(d) <= n
  PROVE  First(d, n) = d
<1>1. Len(d) \in Nat
  BY DEF IsSeq
<1>2. First(d, n) = SubSeq(d, 1, Len(d))
  BY <1>1 DEF First
<1> QED BY <1>2, CutAll

LEMMA ServeUploadTruth ==
  ASSUME Fair, Prompt, Truth, ServeUpload
  PROVE  Truth' /\ Promised
<1>1. sm0.type = "coe" /\ sm0.cmd = "up" /\ UNCHANGED session /\ UNCHANGED <<store, unapplied>>
  BY DEF ServeUpload
<1>2. Waits /\ call.op = "read" /\ pc = "answer" /\ sm0.o = call.o
  BY <1>1, Question
<1>3. PICK d : d = store[sm0.o]
  OBVIOUS
<1>4. IsSeq(d) /\ Len(d) \in Nat /\ d = Value
  BY <1>2, <1>3, CalledObject DEF IsSeq, Value
<1>5. Value' = Value /\ call' = call
  BY <1>1 DEF Value, session, program
<1>6. Promised
  BY <1>1, ServedOn
<1>7. ASSUME NEW m, NEW a, a = [m EXCEPT !.re = sm0.cnt], Reply(m), ReadTrue(a)'
      PROVE  Truth'
  <2>1. ReplyTrue(a)'
    BY <1>2, <1>5, <1>7 DEF ReplyTrue
  <2> QED BY <1>1, <1>2, <1>7, <2>1, RepliedTruth
<1>8. CASE Len(d) <= 4 /\ ~sm0.o.ca
  <2>1. PICK m, a : m = Coe("sdores", "up expedited", sm0.o, d) /\ a = [m EXCEPT !.re = sm0.cnt]
    OBVIOUS
  <2>2. a.cmd = "up expedited" /\ a.data = d
    BY ONLY <2>1 DEF Coe
  <2>3. Reply(m)
    BY <1>3, <1>8, <2>1 DEF ServeUpload
  <2>4. ReadTrue(a)'
    BY <1>4, <1>5, <2>2 DEF ReadTrue
  <2> QED BY <1>6, <1>7, <2>1, <2>3, <2>4
<1>9. CASE ~(Len(d) <= 4 /\ ~sm0.o.ca)
  <2>1. PICK m, a : m = [Coe("sdores", "up", sm0.o, First(d, InitData)) EXCEPT !.size = Len(d)]
             /\ a = [m EXCEPT !.re = sm0.cnt]
    OBVIOUS
  <2>2. a.cmd = "up" /\ a.data = First(d, InitData) /\ a.size = Len(d)
    BY ONLY <2>1 DEF Coe
  <2>3. Reply(m)
    BY <1>3, <1>9, <2>1 DEF ServeUpload
  <2>4. CASE Len(d) > InitData
    <3>1. PICK r : r = Rest(d, InitData)
      OBVIOUS
    <3>2. server' = [kind |-> "up", o |-> sm0.o, data |-> r, toggle |-> FALSE]
      BY <1>3, <1>9, <2>4, <3>1 DEF ServeUpload
    <3>3. server'.data = r
      BY ONLY <3>2
    <3>4. IsSeq(a.data) /\ IsSeq(r) /\ a.data \o r = d /\ Len(a.data) < a.size
      BY <1>4, <2>2, <2>4, <3>1, Splits, SplitJoin, DataNumbers
    <3>5. ReadTrue(a)'
      BY <1>4, <1>5, <2>2, <3>3, <3>4 DEF ReadTrue
    <3> QED BY <1>6, <1>7, <2>1, <2>3, <3>5
  <2>5. CASE Len(d) <= InitData
    <3>1. a.data = d /\ ~(Len(a.data) < a.size)
      BY <1>4, <2>2, <2>5, FirstAll, DataNumbers
    <3>2. ReadTrue(a)'
      BY <1>4, <1>5, <2>2, <3>1 DEF ReadTrue
    <3> QED BY <1>6, <1>7, <2>1, <2>3, <3>2
  <2> QED BY <1>4, <2>4, <2>5, DataNumbers
<1> QED BY <1>8, <1>9

LEMMA ServeUploadSegmentTruth ==
  ASSUME Fair, Prompt, Truth, ServeUploadSegment
  PROVE  Truth' /\ Promised
<1>1. sm0.type = "coe" /\ sm0.cmd = "segment up" /\ UNCHANGED session
  BY DEF ServeUploadSegment
<1>2. Waits /\ call.op = "read" /\ pc = "segment" /\ Uploading(sm0.toggle)
  BY <1>1, Question DEF AsksToRead
<1>3. ReadOn
  BY <1>2, RequestIsTrue DEF AskTrue
<1>4. PICK b, d, s, r : /\ b = server.data /\ d = First(b, SegData) /\ s = (Len(b) <= SegData)
                        /\ r = Rest(b, SegData)
  OBVIOUS
<1>5. PICK u : u = IF Len(d) < 7 THEN 7 - Len(d) ELSE 0
  OBVIOUS
<1>6. PICK m, a : m = [Coe("sdores", "segment up", sm0.o, Padded(d)) EXCEPT !.last = s, !.unused = u]
            /\ a = [m EXCEPT !.re = sm0.cnt]
  OBVIOUS
<1>7. /\ Reply(m) /\ UNCHANGED <<store, unapplied>>
      /\ ~s => server' = [server EXCEPT !.data = Rest(@, SegData), !.toggle = ~@]
  BY <1>2, <1>4, <1>5, <1>6 DEF ServeUploadSegment, Uploading
<1>8. a.cmd = "segment up" /\ a.last = s /\ a.data = Padded(d) /\ a.unused = u
  BY ONLY <1>6 DEF Coe
<1>9. IsSeq(p) /\ IsSeq(b) /\ p \o b = Value /\ Len(Value) <= call.n
  BY <1>3, <1>4 DEF ReadOn
<1>10. /\ IsSeq(d) /\ IsSeq(r) /\ d \o r = b /\ Len(b) \in Nat /\ Len(d) \in Nat
       /\ s => d = b
       /\ ~s => Len(d) = SegData
  <2>1. SegData \in Nat /\ Len(b) \in Nat
    BY <1>9, DataNumbers DEF IsSeq
  <2>2. IsSeq(d) /\ IsSeq(r) /\ Len(d) = IF Len(b) < SegData THEN Len(b) ELSE SegData
    BY ONLY <1>4, <1>9, <2>1, Splits
  <2>3. d \o r = b
    BY ONLY <1>4, <1>9, <2>1, SplitJoin
  <2>4. s => d = b
    BY ONLY <1>4, <1>9, <2>1, FirstAll
  <2>5. ~s => Len(d) = SegData
    <3>1. ~s => ~(Len(b) <= SegData)
      BY <1>4, Zenon
    <3> QED BY <2>1, <2>2, <3>1
  <2> QED BY <2>1, <2>2, <2>3, <2>4, <2>5
<1>11. First(Padded(d), Len(d)) = d /\ (Len(d) >= 7 => Padded(d) = d) /\ (Len(d) < 7 => Len(Padded(d)) = 7)
  BY <1>10, PaddedFirst
<1>12. Content(a) = d
  <2>1. CASE Len(d) < 7
    <3>1. s
      BY <1>10, <2>1, CoEAssumption DEF CoEAssumption, SegData
    <3>2. 7 - u = Len(d)
      BY <1>5, <1>10, <2>1
    <3> QED BY <1>8, <1>11, <2>1, <3>1, <3>2 DEF Content
  <2>2. CASE Len(d) >= 7
    <3>1. u = 0 /\ Padded(d) = d
      BY <1>5, <1>10, <1>11, <2>2
    <3>2. Len(d) = 7 => First(d, 7 - 0) = d
      BY <1>11, <3>1
    <3> QED BY <1>8, <3>1, <3>2 DEF Content
  <2> QED BY <1>10, <2>1, <2>2
<1>13. UNCHANGED <<call, p>> /\ Value' = Value /\ Content(a)' = d
  BY <1>1, <1>7, <1>12 DEF session, program, Value, Content
<1>14. ReadTrue(a)'
  <2>1. CASE s
    <3>1. p \o d = Value
      BY <1>9, <1>10, <2>1
    <3> QED BY <1>8, <1>9, <1>10, <1>13, <2>1, <3>1 DEF ReadTrue
  <2>2. CASE ~s
    <3>1. server'.data = r
      BY <1>2, <1>4, <1>7, <2>2 DEF Uploading
    <3>2. (p \o d) \o r = Value
      <4>1. IsSeq(p) /\ IsSeq(d) /\ IsSeq(r)
        BY <1>9, <1>10
      <4>2. (p \o d) \o r = p \o (d \o r)
        BY ONLY <4>1, JoinJoin
      <4> QED BY <1>9, <1>10, <4>2
    <3> QED BY <1>8, <1>9, <1>10, <1>13, <2>2, <3>1, <3>2 DEF ReadTrue
  <2> QED BY <2>1, <2>2
<1>15. ReplyTrue(a)'
  BY <1>2, <1>13, <1>14 DEF ReplyTrue
<1> QED BY <1>1, <1>2, <1>6, <1>7, <1>15, RepliedTruth, ServedOn

(* The slave carries the write out.                                         *)
LEMMA ApplyTruth ==
  ASSUME Orderly, Fair, Prompt, Truth, pc # "idle", call.op = "write", unapplied = {Mine}, UNCHANGED session,
         Apply(call.o, Input)
  PROVE  unapplied' = {} /\ Promised
<1>1. UNCHANGED <<call, calls, result, sound>>
  BY DEF session, program
<1>2. call \in client.calls /\ call.n \in Nat
  BY CalledWell
<1>3. call.n > 0
  BY <1>2 DEF Orderly, Fair
<1>4. Input[1] = <<calls, 1>>
  <2>1. 1 \in 1 .. call.n
    BY <1>2, <1>3
  <2> QED BY <2>1 DEF Input, Bytes
<1>5. Input[1][1] = calls
  BY <1>4
<1>6. PICK w : w = Mine
  OBVIOUS
<1>7. w.o = call.o /\ w.k = calls /\ w.n = call.n
  BY <1>6 DEF Mine
<1>8. store' = [store EXCEPT ![call.o] = Input] /\ unapplied' = {x \in unapplied : x.o # call.o \/ x.k # Input[1][1]}
  BY DEF Apply
<1>9. unapplied' = {}
  BY <1>5, <1>6, <1>7, <1>8
<1>10. store' = [store EXCEPT ![w.o] = Service!Bytes(w.k, w.n)]
  BY <1>7, <1>8 DEF Input, Bytes, Service!Bytes
<1>11. w \in unapplied /\ unapplied' = unapplied \ {w}
  BY <1>6, <1>9
<1>12. Ours /\ Ours'
  BY <1>1 DEF Truth, Own, Ours
<1>13. Service!Carry
  BY <1>1, <1>10, <1>11, <1>12 DEF Service!Carry
<1> QED BY <1>9, <1>13 DEF Promised, Service!Next

LEMMA ServeDownloadTruth ==
  ASSUME Orderly, Fair, Prompt, Truth, ServeDownload
  PROVE  Truth' /\ Promised
<1>1. sm0.type = "coe" /\ sm0.cmd \in {"down", "down expedited"} /\ UNCHANGED session
      /\ Reply(Coe("sdores", "down", sm0.o, << >>))
  BY DEF ServeDownload
<1>2. Waits /\ call.op = "write" /\ pc = "answer" /\ AsksToWrite(sm0) /\ pc # "idle" /\ pc # "list"
  BY <1>1, Question
<1>3. /\ IsSeq(p) /\ IsSeq(sm0.data) /\ sm0.o = call.o
      /\ sm0.cmd = "down expedited" => p = << >>
      /\ sm0.cmd = "down" => sm0.size = Len(sm0.data) + Len(p)
  BY <1>1, <1>2 DEF AsksToWrite, Says
<1>4. Len(p) \in Nat /\ Len(sm0.data) \in Nat /\ (p = << >> <=> Len(p) = 0)
  BY <1>3, WhenEmpty
<1>5. UNCHANGED <<call, calls, p>>
  BY <1>1 DEF session, program
<1>6. WriteTrue(sm0)
  BY <1>2, RequestIsTrue DEF AskTrue
<1>7. PICK m, a : m = Coe("sdores", "down", sm0.o, << >>) /\ a = [m EXCEPT !.re = sm0.cnt]
  OBVIOUS
<1>8. CASE sm0.cmd = "down" /\ Len(sm0.data) < sm0.size
  <2>1. /\ server' = [kind |-> "down", o |-> sm0.o, data |-> sm0.data, size |-> sm0.size, toggle |-> FALSE]
        /\ UNCHANGED <<store, unapplied>>
    BY <1>8 DEF ServeDownload
  <2>2. server'.o = call.o /\ server'.data = sm0.data
    BY <1>3, <2>1
  <2>3. unapplied = {Mine} /\ sm0.data \o p = Input
    BY <1>6, <1>8 DEF WriteTrue
  <2>4. p # << >>
    BY <1>3, <1>4, <1>8
  <2>5. ReplyTrue(a)'
    BY <1>2, <1>5, <2>1, <2>2, <2>3, <2>4 DEF ReplyTrue, Mine, Input
  <2> QED BY <1>1, <1>2, <1>7, <2>1, <2>5, RepliedTruth, ServedOn
<1>9. CASE ~(sm0.cmd = "down" /\ Len(sm0.data) < sm0.size)
  <2>1. Apply(sm0.o, sm0.data)
    BY <1>9 DEF ServeDownload
  <2>2. p = << >>
    <3>1. CASE sm0.cmd = "down expedited"
      BY <1>3, <3>1
    <3>2. CASE sm0.cmd = "down"
      <4>1. ~(Len(sm0.data) < sm0.size) /\ sm0.size = Len(sm0.data) + Len(p)
        BY <1>3, <1>9, <3>2
      <4>2. Len(p) = 0
        BY <1>4, <4>1
      <4> QED BY <1>4, <4>2
    <3> QED BY <1>1, <3>1, <3>2
  <2>3. sm0.data = Input
    <3>1. PICK d : d = sm0.data
      OBVIOUS
    <3>2. d \o << >> = d
      BY <1>3, <3>1, JoinNothing
    <3> QED BY <1>1, <1>6, <2>2, <3>1, <3>2 DEF WriteTrue
  <2>4. unapplied' = {} /\ Promised
    BY <1>1, <1>2, <1>3, <1>6, <2>1, <2>3, ApplyTruth DEF WriteTrue
  <2>5. ReplyTrue(a)'
    BY <1>2, <1>5, <2>2, <2>4 DEF ReplyTrue
  <2> QED BY <1>1, <1>2, <1>7, <2>4, <2>5, RepliedTruth
<1> QED BY <1>8, <1>9

LEMMA ServeDownloadSegmentTruth ==
  ASSUME Orderly, Fair, Prompt, Truth, ServeDownloadSegment
  PROVE  Truth' /\ Promised
<1>1. sm0.type = "coe" /\ sm0.cmd = "segment down" /\ UNCHANGED session
  BY DEF ServeDownloadSegment
<1>2. Waits /\ call.op = "write" /\ pc = "segment" /\ AsksToWrite(sm0) /\ pc # "idle" /\ pc # "list"
  BY <1>1, Question
<1>3. PICK n, f, b : n = Len(sm0.data) - sm0.unused /\ f = First(sm0.data, n) /\ b = server.data
  OBVIOUS
<1>4. /\ IsSeq(p) /\ IsSeq(sm0.data) /\ sm0.unused \in 0 .. Len(sm0.data)
      /\ (sm0.last <=> p = << >>) /\ Downloading(sm0.toggle, n + Len(p))
  BY <1>1, <1>2, <1>3 DEF AsksToWrite, Says
<1>5. /\ server.kind = "down" /\ server.toggle = sm0.toggle /\ IsSeq(b) /\ {"kind", "toggle", "data"} \subseteq DOMAIN server
      /\ server.size = Len(b) + (n + Len(p))
  BY <1>3, <1>4 DEF Downloading
<1>6. n \in Nat /\ n <= Len(sm0.data) /\ Len(p) \in Nat /\ Len(b) \in Nat /\ (p = << >> <=> Len(p) = 0)
  <2>1. Len(p) \in Nat /\ Len(sm0.data) \in Nat /\ Len(b) \in Nat /\ (p = << >> <=> Len(p) = 0)
    BY <1>4, <1>5, WhenEmpty
  <2> QED BY <1>3, <1>4, <2>1
<1>7. IsSeq(f) /\ Len(f) = n
  BY <1>3, <1>4, <1>6, Splits
<1>8. PICK d : d = b \o f
  OBVIOUS
<1>9. IsSeq(d) /\ Len(d) = Len(b) + n
  BY <1>5, <1>7, <1>8, JoinIs
<1>10. IF sm0.last THEN Len(d) = server.size ELSE Len(d) < server.size
  BY <1>4, <1>5, <1>6, <1>9
<1>11. PICK m, a : m = [Coe("sdores", "segment down", sm0.o, << >>) EXCEPT !.toggle = sm0.toggle]
             /\ a = [m EXCEPT !.re = sm0.cnt]
  OBVIOUS
<1>12. /\ Reply(m)
       /\ IF sm0.last THEN Apply(server.o, d)
          ELSE server' = [server EXCEPT !.data = d, !.toggle = ~@] /\ UNCHANGED <<store, unapplied>>
  BY <1>3, <1>5, <1>8, <1>10, <1>11 DEF ServeDownloadSegment
<1>13. unapplied = {Mine} /\ server.o = call.o /\ d \o p = Input
  <2>1. unapplied = {Mine} /\ server.o = call.o /\ b \o (f \o p) = Input
    BY <1>1, <1>2, <1>3, RequestIsTrue DEF AskTrue, WriteTrue
  <2>2. (b \o f) \o p = b \o (f \o p)
    <3>1. IsSeq(b) /\ IsSeq(f) /\ IsSeq(p)
      BY <1>4, <1>5, <1>7
    <3> QED BY ONLY <3>1, JoinJoin
  <2> QED BY <1>8, <2>1, <2>2
<1>14. UNCHANGED <<call, calls, p>>
  BY <1>1 DEF session, program
<1>15. CASE sm0.last
  <2>1. p = << >> /\ d = Input
    <3>1. d \o << >> = d
      BY <1>9, JoinNothing
    <3> QED BY <1>4, <1>13, <1>15, <3>1
  <2>2. Apply(call.o, Input)
    BY <1>12, <1>13, <1>15, <2>1
  <2>3. unapplied' = {} /\ Promised
    BY <1>1, <1>2, <1>13, <2>2, ApplyTruth
  <2>4. ReplyTrue(a)'
    BY <1>2, <1>14, <2>1, <2>3 DEF ReplyTrue
  <2> QED BY <1>1, <1>2, <1>11, <1>12, <2>3, <2>4, RepliedTruth
<1>16. CASE ~sm0.last
  <2>1. server' = [server EXCEPT !.data = d, !.toggle = ~@] /\ UNCHANGED <<store, unapplied>>
    BY <1>12, <1>16
  <2>2. server'.data = d /\ server'.o = server.o
    BY <1>5, <2>1
  <2>3. ReplyTrue(a)'
    BY <1>2, <1>4, <1>13, <1>14, <1>16, <2>1, <2>2 DEF ReplyTrue, Mine, Input
  <2> QED BY <1>1, <1>2, <1>11, <1>12, <2>1, <2>3, RepliedTruth, ServedOn
<1> QED BY <1>15, <1>16

(* The fragments, each in its place.                                        *)
LEMMA FragmentsAre ==
  ASSUME NEW q, q = Fragments(All)
  PROVE  IsSeq(q) /\ \A k \in 1 .. Len(q) : IsFrag(k, q[k].data)
<1>1. PICK z, n : z = Len(All) /\ n = (z + 1) \div 2
  OBVIOUS
<1>2. z \in Nat
  BY <1>1, AllIs
<1>3. n \in Nat /\ 2 * n <= z + 1
  BY <1>1, <1>2
<1>4. q = [k \in 1 .. n |-> [Coe("info", "list", sm0.o, First(Rest(All, 2 * k - 2), 2)) EXCEPT
                               !.re = sm0.cnt, !.last = k = n]]
  BY <1>1 DEF Fragments
<1>5. \A k \in 1 .. n : q[k].data = Frag(k)
  <2> TAKE k \in 1 .. n
  <2>1. PICK f, l : f = First(Rest(All, 2 * k - 2), 2) /\ l = (k = n)
    OBVIOUS
  <2>2. q[k] = [Coe("info", "list", sm0.o, f) EXCEPT !.re = sm0.cnt, !.last = l]
    BY <1>4, <2>1
  <2>3. q[k].data = f
    BY ONLY <2>2 DEF Coe
  <2> QED BY <2>1, <2>3 DEF Frag
<1>6. q = [k \in 1 .. n |-> q[k]]
  BY <1>4
<1>7. q \in Seq({q[k] : k \in 1 .. n}) /\ Len(q) = n
  BY <1>3, <1>6
<1>8. IsSeq(q)
  BY <1>7, SeqIs
<1>9. ASSUME NEW k \in 1 .. n PROVE IsFrag(k, q[k].data)
  <2>1. 2 * k <= z + 1
    BY <1>2, <1>3
  <2> QED BY <1>1, <1>5, <2>1 DEF IsFrag
<1> QED BY <1>7, <1>8, <1>9

LEMMA ServeListTruth ==
  ASSUME Fair, Prompt, Truth, Waits, pc = "list", call.op = "odlist", Take(Fragments(All)), UNCHANGED <<objects, session>>
  PROVE  Truth' /\ Promised
<1>1. /\ UNCHANGED <<client, pc, call, calls, p, result, sound>>
      /\ UNCHANGED <<store, server, unapplied>>
  BY DEF session, program, objects
<1>2. PICK q : q = Fragments(All)
  OBVIOUS
<1>3. /\ sm0' = None /\ outq' = outq \o q
      /\ UNCHANGED <<at, quick, want, mbxOut, mbxIn, wkc, cnt, sm1>>
  BY <1>2 DEF Take, master
<1>4. IsSeq(q) /\ Len(q) \in Nat /\ \A k \in 1 .. Len(q) : IsFrag(k, q[k].data)
  BY <1>2, FragmentsAre DEF IsSeq
<1>5. IsSeq(outq) /\ Len(outq) \in Nat
  BY DEF Prompt, Holds, IsSeq
<1>6. PICK n, z : n = Len(outq) /\ z = Len(q)
  OBVIOUS
<1>7. /\ Len(outq') = n + z
      /\ \A k \in 1 .. n : outq'[k] = outq[k]
      /\ \A k \in n + 1 .. n + z : outq'[k] = q[k - n]
  <2>1. /\ Len(outq \o q) = Len(outq) + Len(q)
        /\ \A k \in 1 .. Len(outq) : (outq \o q)[k] = outq[k]
        /\ \A k \in Len(outq) + 1 .. Len(outq) + Len(q) : (outq \o q)[k] = q[k - Len(outq)]
    BY ONLY <1>4, <1>5, JoinIs
  <2> QED BY <1>3, <1>6, <2>1
<1>8. PICK c : c = 0 - n
  OBVIOUS
<1>9. c \in Int
  BY <1>5, <1>6, <1>8
<1>10. ASSUME NEW k \in Places', IsAnswer(Waiting(k))'
       PROVE  k + c > 0 /\ IsFrag(k + c, (Waiting(k)').data)
  <2>1. k \in 0 .. n + z
    BY <1>7 DEF Places
  <2>2. ~(k \in 0 .. n)
    <3> SUFFICES ASSUME k \in 0 .. n PROVE FALSE
      OBVIOUS
    <3>1. k \in Places /\ Waiting(k)' = Waiting(k)
      BY <1>3, <1>6, <1>7 DEF Places, Waiting
    <3>2. Idle(Waiting(k))
      BY <3>1 DEF Waits, Calm
    <3> QED BY <1>10, <3>1, <3>2, NoticesAre DEF IsAnswer
  <2>3. k \in n + 1 .. n + z /\ k - n \in 1 .. z /\ k + c = k - n /\ k # 0
    BY <1>4, <1>5, <1>6, <1>8, <2>1, <2>2
  <2>4. Waiting(k)' = q[k - n]
    BY <1>7, <2>3 DEF Waiting
  <2> QED BY <1>4, <1>6, <2>3, <2>4
<1>11. InOrder(c, 0)'
  BY <1>10 DEF InOrder, IsFrag, IsAnswer
<1>12. p = << >>
  BY RequestIsTrue DEF AskTrue
<1>13. TakenOf(0)'
  <2>1. p' = << >> /\ Len(<< >>) = 0 /\ IsSeq(<< >>) /\ MaxODlist \in Nat
    BY <1>1, <1>12, EmptyIs, CoEAssumption DEF CoEAssumption
  <2> QED BY <2>1 DEF TakenOf
<1>14. at \in Served /\ at # "end"
  BY DEF Waits, Served
<1>15. ListTrue'
  BY <1>3, <1>9, <1>11, <1>13, <1>14 DEF ListTrue
<1>16. Own'
  BY <1>1 DEF Truth, Own, Ours
<1>17. \A m : ReplyTrue(m)'
  BY <1>1 DEF ReplyTrue
<1>18. Truth'
  BY <1>1, <1>3, <1>14, <1>15, <1>16, <1>17 DEF Truth, Served
<1> QED BY <1>1, <1>18, StillPromised DEF Truth, Own

LEMMA DroppedTruth ==
  ASSUME Fair, Prompt, Truth, Take(<< >>), UNCHANGED <<objects, session>>
  PROVE  Truth' /\ Promised
<1>1. /\ UNCHANGED <<client, pc, call, calls, p, result, sound>>
      /\ UNCHANGED <<store, server, unapplied>>
  BY DEF session, program, objects
<1>2. sm0' = None /\ outq' = outq \o << >> /\ UNCHANGED <<at, quick, want, mbxOut, mbxIn, wkc, cnt, sm1>>
  BY DEF Take, master
<1>3. IsSeq(outq) /\ outq' = outq
  BY <1>2, JoinNothing DEF Prompt, Holds
<1>4. Shifts(0)
  <2>1. Places' = Places /\ \A k : Waiting(k)' = Waiting(k)
    BY <1>2, <1>3 DEF Places, Waiting
  <2>2. \A k \in Places : k + 0 = k
    BY DEF Places
  <2> QED BY <2>1, <2>2 DEF Shifts
<1>5. Onward(0)
  BY <1>1, <1>2, <1>4 DEF Onward, said
<1> QED BY <1>1, <1>3, <1>5, TruthMoves, StillPromised DEF Truth, Own

LEMMA ServeOtherTruth ==
  ASSUME Fair, Prompt, Truth, ServeOther
  PROVE  Truth' /\ Promised
<1>1. sm0.type = "coe" /\ UNCHANGED <<objects, session>>
  BY DEF ServeOther
<1>2. UNCHANGED <<pc, call, calls, p, store, server, unapplied>>
  BY <1>1 DEF session, program, objects
<1>3. Promised
  BY <1>1, ServedOn DEF objects
<1>4. CASE sm0.service = "rxpdo" /\ Take(<< >>)
  BY <1>1, <1>4, DroppedTruth
<1>5. CASE sm0.service = "txpdo rr" /\ Reply(Coe("txpdo", "pdo", sm0.o, store[sm0.o]))
  <2>1. Waits
    BY <1>1, <1>5, WhatIsAsked DEF Says
  <2>2. call.op = "txpdo" /\ pc = "answer"
    BY <1>5, <2>1 DEF Waits, Asks, AsksToRead, AsksToWrite, Says
  <2>3. PICK m, a : m = Coe("txpdo", "pdo", sm0.o, store[sm0.o]) /\ a = [m EXCEPT !.re = sm0.cnt]
    OBVIOUS
  <2>4. a.data = store[sm0.o]
    BY ONLY <2>3 DEF Coe
  <2>5. ReplyTrue(a)'
    BY <1>2, <2>1, <2>2, <2>4, RequestIsTrue DEF AskTrue, ReplyTrue, Value
  <2> QED BY <1>1, <1>2, <1>3, <1>5, <2>1, <2>2, <2>3, <2>5, RepliedTruth
<1>6. CASE sm0.cmd = "list" /\ Take(Fragments(<<ListType>> \o Dictionary))
  BY <1>1, <1>6, Question, ServeListTruth DEF All
<1>7. CASE sm0.cmd = "entry" /\ Reply(Coe("info", "entry", sm0.o, <<sm0.o.sub>>))
  <2>1. Waits /\ call.op = "entries" /\ pc = "answer"
    BY <1>1, <1>7, Question
  <2>2. PICK m, a : m = Coe("info", "entry", sm0.o, <<sm0.o.sub>>) /\ a = [m EXCEPT !.re = sm0.cnt]
    OBVIOUS
  <2>3. a.data = <<sm0.o.sub>>
    BY ONLY <2>2 DEF Coe
  <2>4. mbxOut' = mbxOut
    BY <1>7 DEF Reply, Take, master
  <2>5. ReplyTrue(a)'
    BY <1>2, <2>1, <2>3, <2>4, RequestIsTrue DEF AskTrue, ReplyTrue, EntryTrue, Entered
  <2> QED BY <1>1, <1>2, <1>3, <1>7, <2>1, <2>2, <2>5, RepliedTruth
<1>8. CASE sm0.cmd = "describe" /\ Reply(Coe("info", "describe", sm0.o, store[sm0.o]))
  <2>1. Waits /\ call.op = "describe" /\ pc = "answer"
    BY <1>1, <1>8, Question
  <2>2. PICK m, a : m = Coe("info", "describe", sm0.o, store[sm0.o]) /\ a = [m EXCEPT !.re = sm0.cnt]
    OBVIOUS
  <2>3. a.data = store[sm0.o]
    BY ONLY <2>2 DEF Coe
  <2>4. ReplyTrue(a)'
    BY <1>2, <2>1, <2>3, RequestIsTrue DEF AskTrue, ReplyTrue, Value
  <2> QED BY <1>1, <1>2, <1>3, <1>8, <2>1, <2>2, <2>4, RepliedTruth
<1> QED BY <1>4, <1>5, <1>6, <1>7, <1>8 DEF ServeOther

LEMMA ServerTruth ==
  ASSUME Orderly, Fair, Prompt, Truth, CoeServer
  PROVE  Truth' /\ Promised
BY ServeUploadTruth, ServeUploadSegmentTruth, ServeDownloadTruth, ServeDownloadSegmentTruth, ServeOtherTruth
  DEF CoeServer
-----------------------------------------------------------------------------
(* Programs that call other services leave the service as it began.         *)
LEMMA StrangersHidden ==
  ASSUME Strangers, Strangers', UNCHANGED <<store, unapplied, sound>>
  PROVE  Promised
<1> DEFINE nothing == [op |-> "none", status |-> "none", data |-> << >>]
<1>1. \A x \in BulkOps : x \notin CoeOps /\ x # "none"
  BY DEF BulkOps, CoeOps
<1>2. Ours => call = NoCall /\ calls = 0 /\ result = nothing
  BY <1>1 DEF Strangers, Ours
<1>3. Ours' => call' = NoCall /\ calls' = 0 /\ result' = nothing
  BY <1>1 DEF Strangers, Ours
<1>4. (IF Ours THEN call ELSE NoCall) = NoCall /\ (IF Ours' THEN call' ELSE NoCall) = NoCall
  BY <1>2, <1>3
<1>5. (IF Ours THEN calls ELSE 0) = 0 /\ (IF Ours' THEN calls' ELSE 0) = 0
  BY <1>2, <1>3
<1>6. (IF Ours THEN result ELSE nothing) = nothing /\ (IF Ours' THEN result' ELSE nothing) = nothing
  BY <1>2, <1>3
<1>7. UNCHANGED Service!abstract
  BY <1>4, <1>5, <1>6 DEF Service!abstract, NoCall
<1> QED BY <1>7 DEF Promised

(* What they send is no CoE message.                                        *)
LEMMA BulkMessages ==
  /\ \A type, op, no, d, x : [Msg(type, op, no, d) EXCEPT !.cnt = x].type = type
  /\ \A type, op, no, d, b, x : [[Msg(type, op, no, d) EXCEPT !.more = b] EXCEPT !.cnt = x].type = type
  /\ \A d, no, frame, total, x : [Fragment(d, no, frame, total) EXCEPT !.cnt = x].type = "eoe"
BY DEF Msg, Fragment

LEMMA BulkStrangers ==
  ASSUME Course, Strangers, BulkClient
  PROVE  Strangers'
<1>1. ASSUME NEW status, NEW data, Conclude(status, data), pc # "idle" PROVE Strangers'
  <2>1. call' = NoCall /\ result'.op = call.op /\ mbxOut' = None /\ sm0' = sm0 /\ pc' = "idle" /\ calls' = calls
    BY <1>1 DEF Conclude, slave
  <2>2. call.op \in BulkOps /\ NoCall.op = "none" /\ "none" \notin BulkOps /\ None.type # "coe"
    BY <1>1 DEF Strangers, NoCall, BulkOps, None
  <2> QED BY <2>1, <2>2 DEF Strangers
<1>2. ASSUME NEW to, NEW m, NEW w, Goto(to, m, w), pc # "idle", [m EXCEPT !.cnt = NextMbxCnt(cnt)].type # "coe"
      PROVE  Strangers'
  <2>1. UNCHANGED <<call, calls, result, sm0>> /\ mbxOut'.type # "coe"
    BY <1>2 DEF Goto, Send, slave
  <2>2. call.op \in BulkOps /\ "none" \notin BulkOps
    BY <1>2 DEF Strangers, BulkOps
  <2> QED BY <2>1, <2>2 DEF Strangers
<1>3. ASSUME NEW to, Await(to), pc # "idle" PROVE Strangers'
  <2>1. UNCHANGED <<call, calls, result, sm0, mbxOut>>
    BY <1>3 DEF Await, Receive, slave
  <2>2. call.op \in BulkOps
    BY <1>3 DEF Strangers
  <2> QED BY <2>1, <2>2 DEF Strangers
<1>4. pc # "idle" => (Failed \/ Unexpected \/ Quietly(Failed) \/ Quietly(Unexpected) => Strangers')
  BY <1>1 DEF Failed, Unexpected, Quietly
<1>5. CASE BulkBegin
  <2>1. call'.op \in BulkOps /\ result' = result /\ mbxOut' = mbxOut /\ sm0' = sm0
    BY <1>5 DEF BulkBegin, slave
  <2>2. "none" \notin BulkOps
    BY DEF BulkOps
  <2> QED BY <2>1, <2>2 DEF Strangers
<1>6. CASE BulkRequest
  <2>1. CASE call.op = "SoEwrite"
    <3>1. PICK m : m = [Msg("soe", "write", 0, First(p, MaxData)) EXCEPT !.more = Len(p) > MaxData]
      OBVIOUS
    <3>2. [m EXCEPT !.cnt = NextMbxCnt(cnt)].type # "coe"
      BY <3>1, BulkMessages
    <3>3. Goto("SoEwrite", m, FALSE) /\ pc # "idle"
      BY <1>6, <2>1, <3>1 DEF BulkRequest
    <3> QED BY <1>2, <3>2, <3>3
  <2>2. CASE call.op # "SoEwrite"
    <3>1. PICK type : type = CASE call.op \in {"FOEread", "FOEwrite"} -> "foe" [] call.op = "SoEread" -> "soe" [] OTHER -> "eoe"
      OBVIOUS
    <3>2. type # "coe"
      BY <3>1
    <3>3. PICK m : m = Msg(type, call.op, calls, <<call.known>>)
      OBVIOUS
    <3>4. [m EXCEPT !.cnt = NextMbxCnt(cnt)].type # "coe"
      BY <3>2, <3>3, BulkMessages
    <3>5. Goto(call.op, m, TRUE) /\ pc # "idle"
      BY <1>6, <2>2, <3>1, <3>3 DEF BulkRequest
    <3> QED BY <1>2, <3>4, <3>5
  <2> QED BY <2>1, <2>2
<1>7. CASE FOEread
  <2>1. pc # "idle"
    BY <1>7 DEF FOEread, Ended
  <2>2. ASSUME NEW no, NEW to, NEW w, Goto(to, Msg("foe", "ack", no, << >>), w) PROVE Strangers'
    BY <1>2, <2>1, <2>2, BulkMessages
  <2> QED BY <1>1, <1>4, <1>7, <2>1, <2>2 DEF FOEread, Quietly
<1>8. CASE FOEwrite
  <2>1. pc # "idle"
    BY <1>8 DEF FOEwrite, Ended
  <2>2. ASSUME NEW no, NEW d, Goto("FOEwrite", Msg("foe", "data", no, d), TRUE) PROVE Strangers'
    <3>1. PICK m : m = Msg("foe", "data", no, d)
      OBVIOUS
    <3>2. [m EXCEPT !.cnt = NextMbxCnt(cnt)].type # "coe"
      BY <3>1, BulkMessages
    <3>3. Goto("FOEwrite", m, TRUE)
      BY <2>2, <3>1
    <3> QED BY <1>2, <2>1, <3>2, <3>3
  <2>3. ASSUME NEW status, NEW data, Quietly(Conclude(status, data)) PROVE Strangers'
    BY <1>1, <2>1, <2>3 DEF Quietly
  <2>4. PICK d : d = First(p, MaxFile)
    OBVIOUS
  <2>5. Quietly(Goto("FOEwrite", Msg("foe", "data", number', d), TRUE)) => Strangers'
    BY <2>2 DEF Quietly
  <2>6. Quietly(Failed) \/ Quietly(Unexpected) \/ Quietly(Conclude("ok", << >>))
        \/ Quietly(Goto("FOEwrite", Msg("foe", "data", number', d), TRUE))
    BY ONLY <1>8, <2>4 DEF FOEwrite
  <2> QED BY <1>4, <2>1, <2>3, <2>5, <2>6
<1>9. pc # "idle" /\ SoeSegment => Strangers'
  <2> HAVE pc # "idle" /\ SoeSegment
  <2>1. PICK m : m = [Msg("soe", "write", 0, First(p, MaxData)) EXCEPT !.more = Len(p) > MaxData]
    OBVIOUS
  <2>2. [m EXCEPT !.cnt = NextMbxCnt(cnt)].type # "coe"
    BY <2>1, BulkMessages
  <2>3. Goto("SoEwrite", m, FALSE)
    BY <2>1 DEF SoeSegment
  <2> QED BY <1>2, <2>2, <2>3
<1>10. CASE SoEread \/ SoEwrite \/ SoEwritten
  <2>1. pc # "idle"
    BY <1>10 DEF SoEread, SoEwrite, SoEwritten, Ended
  <2> QED BY <1>1, <1>3, <1>4, <1>9, <1>10, <2>1 DEF SoEread, SoEwrite, SoEwritten, Quietly
<1>11. CASE EOEsetIp \/ EOEgetIp
  <2>1. pc # "idle"
    BY <1>11 DEF EOEsetIp, EOEgetIp, Ended
  <2> QED BY <1>1, <1>4, <1>11, <2>1 DEF EOEsetIp, EOEgetIp, Quietly
<1>12. CASE EOEsend
  <2>1. pc # "idle"
    BY <1>12 DEF EOEsend, Ended
  <2>2. Goto("EOEsend", Fragment(p, number, txframeno, call.n), FALSE) => Strangers'
    BY <1>2, <2>1, BulkMessages
  <2> QED BY <1>1, <1>4, <1>12, <2>1, <2>2 DEF EOEsend, Quietly
<1>13. CASE EOErecv
  <2>1. pc # "idle"
    BY <1>13 DEF EOErecv, Ended
  <2> QED BY <1>1, <1>3, <1>4, <1>13, <2>1 DEF EOErecv, Quietly
<1>14. CASE EOEreadfragment
  <2>1. pc # "idle"
    BY <1>14 DEF EOEreadfragment, Ended
  <2> QED BY <1>1, <1>4, <1>14, <2>1 DEF EOEreadfragment, Quietly
<1> QED BY <1>5, <1>6, <1>7, <1>8, <1>10, <1>11, <1>12, <1>13, <1>14 DEF BulkClient

LEMMA BoxStrangers ==
  ASSUME Strangers, Box, Line
  PROVE  Strangers' /\ UNCHANGED <<store, unapplied, sound>>
<1>1. UNCHANGED <<pc, call, calls, result, store, unapplied, sound>>
  BY DEF Line, program, coeVars, objects
<1>2. None.type # "coe"
  BY DEF None
<1>3. mbxOut' = mbxOut /\ sm0' \in {sm0, mbxOut, None}
  <2>1. CASE MasterStep
    BY <2>1 DEF MasterStep, MbxEmpty, MbxSend, MbxPoll, MbxFetch, MbxRepeat, MbxAck, slave
  <2>2. CASE SlaveStep \/ SlaveEmergency \/ PopError
    BY <2>2 DEF SlaveStep, SlavePut, SlaveRepeat, Ignore, SlaveEmergency, PopError, master, slave
  <2> QED BY <2>1, <2>2 DEF Box
<1> QED BY <1>1, <1>2, <1>3 DEF Strangers

LEMMA StrangersStay ==
  ASSUME Course, ~CoeCaller(client), Strangers, Next
  PROVE  Strangers' /\ Promised
<1>1. CASE Box /\ Line
  BY <1>1, BoxStrangers, StrangersHidden
<1>2. ~CoeClient
  <2> SUFFICES ASSUME CoeClient PROVE FALSE
    OBVIOUS
  <2>1. CoeBegins \/ CoeRuns
    BY CoeClientSteps DEF CoeSteps
  <2>2. ~CoeBegins
    BY DEF CoeBegins, CoeCaller
  <2>3. pc \in CoeStates => call.op \in BulkOps
    BY DEF CoeStates, Strangers
  <2> QED BY <2>1, <2>2, <2>3 DEF CoeRuns, CoeOps, BulkOps
<1>3. CASE BulkClient /\ UNCHANGED coeVars
  <2>1. UNCHANGED <<store, unapplied, sound>>
    BY <1>3 DEF coeVars, objects
  <2> QED BY <1>3, <2>1, BulkStrangers, StrangersHidden
<1>4. ~CoeServer
  BY DEF CoeServer, ServeUpload, ServeUploadSegment, ServeDownload, ServeDownloadSegment, ServeOther, Strangers
<1>5. CASE (BulkServer \/ SlaveFrame) /\ UNCHANGED coeVars
  <2>1. UNCHANGED <<store, unapplied, sound>>
    BY <1>5 DEF coeVars, objects
  <2>2. UNCHANGED <<pc, call, calls, result, mbxOut>> /\ sm0' \in {sm0, None}
    BY <1>5 DEF BulkServer, ServeFile, ServeIdn, ServeFrame, Answer, Take, SlaveFrame, program, master
  <2>3. None.type # "coe"
    BY DEF None
  <2>4. Strangers'
    BY <2>2, <2>3 DEF Strangers
  <2> QED BY <2>1, <2>4, StrangersHidden
<1> QED BY <1>1, <1>2, <1>3, <1>4, <1>5 DEF Next, Program, External
-----------------------------------------------------------------------------
LEMMA TruthfulBegins == ASSUME Init PROVE Truthful
<1>1. /\ pc = "idle" /\ call = NoCall /\ calls = 0 /\ mbxOut = None /\ sm0 = None /\ at = "idle"
      /\ result = [op |-> "none", status |-> "none", data |-> << >>]
      /\ unapplied = {} /\ sound = TRUE
  BY DEF Init, BoxInit, CoeInit
<1>2. None.type # "coe" /\ NoCall.op = "none" /\ result.op = "none"
  BY <1>1 DEF None, NoCall
<1>3. Strangers
  BY <1>1, <1>2 DEF Strangers
<1>4. Own
  BY <1>1, <1>2 DEF Own, Ours
<1>5. Truth
  BY <1>1, <1>4 DEF Truth, Replying
<1> QED BY <1>3, <1>5 DEF Truthful

LEMMA TruthfulStays ==
  ASSUME Punctual, Orderly, Frames, Answering, Truthful, [Next]_vars
  PROVE  Truthful' /\ (lost = 0 /\ lost' = 0 => Promised)
<1>1. CASE Next
  <2>1. Remembers
    BY <1>1, BoxRemembers, CoeRemembers, BulkRemembers DEF Next, Program, External
  <2>2. client' = client /\ client \in Clients /\ lost \in Nat /\ lost' \in Nat
    BY <2>1 DEF Answering, Remembers
  <2>3. CoeCaller(client)' <=> CoeCaller(client)
    BY <2>2 DEF CoeCaller
  <2>4. CASE ~CoeCaller(client)
    <3>1. Strangers' /\ Promised
      BY <1>1, <2>4, StrangersStay DEF Frames, Truthful
    <3> QED BY <2>3, <2>4, <3>1 DEF Truthful
  <2>5. CASE CoeCaller(client) /\ lost' = 0
    <3>1. lost = 0
      BY <2>1, <2>2, <2>5 DEF Remembers
    <3>2. Fair /\ Prompt /\ Truth
      BY <2>5, <3>1, <2>2 DEF Answering, Truthful, Fair
    <3>3. Answering'
      BY AnsweringStays
    <3>4. Prompt'
      BY <2>3, <2>5, <3>3 DEF Answering
    <3>5. Box /\ Line => Truth' /\ Promised
      <4> HAVE Box /\ Line
      <4>1. Truth'
        BY <2>5, <3>2, <3>4, BoxTruth
      <4>2. UNCHANGED <<store, unapplied, call, calls, result, sound>>
        BY DEF Line, program, coeVars, objects
      <4> QED BY <3>2, <4>1, <4>2, StillPromised DEF Truth, Own
    <3>6. Truth' /\ Promised
      BY <1>1, <3>2, <3>5, ClientTruth, ServerTruth, NoOther DEF Next, Program, External
    <3> QED BY <2>3, <2>5, <3>6 DEF Truthful
  <2>6. CASE CoeCaller(client) /\ lost' # 0
    BY <2>3, <2>6 DEF Truthful
  <2> QED BY <2>4, <2>5, <2>6
<1>2. CASE UNCHANGED vars
  <2>1. UNCHANGED <<program, box, store, server, unapplied, sound>>
    BY <1>2 DEF vars, coeVars, objects
  <2>2. UNCHANGED <<client, pc, call, calls, p, result, at, mbxOut, mbxIn, sm0, sm1, outq, lost>>
    BY <2>1 DEF program, box, master, slave, faults
  <2>3. UNCHANGED Service!abstract
    BY <2>1, <2>2 DEF Service!abstract, Ours
  <2>4. Strangers => Strangers'
    BY <2>2 DEF Strangers
  <2>5. Truth => Truth'
    <3> HAVE Truth
    <3>1. UNCHANGED said
      BY <2>1, <2>2 DEF said
    <3>2. /\ \A m : (AskTrue(m)' <=> AskTrue(m)) /\ (ReplyTrue(m)' <=> ReplyTrue(m))
          /\ \A g : TakenOf(g)' <=> TakenOf(g)
          /\ Own'
      BY <3>1, SameTruth DEF Truth
    <3>3. Places' = Places /\ \A k : Waiting(k)' = Waiting(k)
      BY <2>2 DEF Places, Waiting
    <3>4. \A c, g : InOrder(c, g)' <=> InOrder(c, g)
      BY <3>3 DEF InOrder, IsFrag, IsAnswer
    <3>5. ListTrue => ListTrue'
      BY <2>2, <3>2, <3>4 DEF ListTrue, IsFrag
    <3> QED BY <2>2, <3>2, <3>3, <3>5 DEF Truth, IsAnswer
  <2>6. CoeCaller(client)' <=> CoeCaller(client)
    BY <2>2 DEF CoeCaller
  <2> QED BY <2>2, <2>3, <2>4, <2>5, <2>6 DEF Truthful, Promised
<1> QED BY <1>1, <1>2

(* While no datagram is lost, the CoE services of SOEM are the service they *)
(* promise, for every slave, dictionary, object and size of the mailbox, and*)
(* wherever emergency and error messages come between the answers: what     *)
(* ecx_SDOread returns is the object as it is at that moment, whole and no  *)
(* longer than the buffer; what ecx_SDOwrite writes reaches the object at   *)
(* one moment, as a whole, once, and before it returns; and a list of       *)
(* objects is in order, from the dictionary, and no longer than the buffer. *)
THEOREM ServicesImplement ==
  ASSUME Punctual, Orderly
  PROVE  Spec /\ [](lost = 0) => Implements
<1>1. Init => Service!Init
  BY DEF Service!Init, Init, BoxInit, CoeInit, Ours, NoCall, Objects, Service!NoCall, Bytes, Service!Bytes
<1>2. Init => Frames /\ Answering /\ Truthful
  BY FramesBegin, AnsweringBegins, TruthfulBegins
<1>3. Frames /\ Answering /\ Truthful /\ lost = 0 /\ (lost = 0)' /\ [Next]_vars => [Service!Next]_(Service!abstract)
  BY TruthfulStays DEF Promised
<1>4. Frames /\ Answering /\ Truthful /\ [Next]_vars => (Frames /\ Answering /\ Truthful)'
  BY FramesStay, AnsweringStays, TruthfulStays
<1> QED BY <1>1, <1>2, <1>3, <1>4, PTL DEF Spec, Implements, Service!Spec
=============================================================================
