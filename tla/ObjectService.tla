--------------------------- MODULE ObjectService ---------------------------
(***************************************************************************)
(* What a client of the CoE services may rely on, without mailbox, message *)
(* or segment: a store of objects, one call at a time, and calls that      *)
(* either say that they failed or have done what they were asked for, as   *)
(* long as every request was answered.                                     *)
(***************************************************************************)
EXTENDS Integers, Sequences

CONSTANTS Calls, MaxCalls, Sizes, Dictionary, MaxODlist

VARIABLES
  store,     (* the objects                                                 *)
  unapplied, (* writes that were begun and have not been carried out        *)
  call, calls, result,
  sound      (* every request was answered                                  *)

abstract == <<store, unapplied, call, calls, result, sound>>

NoCall      == [op |-> "none"]
Bytes(k, n) == [b \in 1 .. n |-> <<k, b>>]

Init ==
  /\ store = [o \in DOMAIN Sizes |-> Bytes(0, Sizes[o])]
  /\ unapplied = {} /\ call = NoCall /\ calls = 0
  /\ result = [op |-> "none", status |-> "none", data |-> << >>] /\ sound = TRUE

Begin ==
  /\ call = NoCall /\ calls < MaxCalls
  /\ calls' = calls + 1
  /\ call' \in Calls
  /\ unapplied' = IF call'.op # "write" THEN unapplied
                  ELSE unapplied \cup {[o |-> call'.o, k |-> calls', n |-> call'.n]}
  /\ UNCHANGED <<store, result, sound>>

(* A write reaches its object at one moment, as a whole and at most once;  *)
(* that of a call that has failed may still do so afterwards.              *)
Carry ==
  /\ \E w \in unapplied :
       /\ store' = [store EXCEPT ![w.o] = Bytes(w.k, w.n)]
       /\ unapplied' = unapplied \ {w}
  /\ UNCHANGED <<call, calls, result, sound>>

(* A request that is not answered, or answered by something else.          *)
Disturb == sound' = FALSE /\ UNCHANGED <<store, unapplied, call, calls, result>>

(* What a call that succeeds returns.                                      *)
Denotes(c) == CASE c.op \in {"read", "txpdo", "describe"} -> store[c.o]
                [] c.op = "entries" -> [k \in 1 .. c.n + 1 |-> <<k - 1>>]
                [] OTHER -> << >>

(* A list of objects in their order, from which some may be missing: the   *)
(* slave sends it in several messages, and one of them may be overlooked.  *)
PartOf(list) ==
  /\ Len(list) <= MaxODlist
  /\ \A k \in 1 .. Len(list) : \E j \in 1 .. Len(Dictionary) : list[k] = Dictionary[j]
  /\ \A k \in 1 .. Len(list) - 1 : list[k][1] < list[k + 1][1]

Done ==
  /\ IF call.op = "odlist" THEN PartOf(result'.data) ELSE result'.data = Denotes(call)
  /\ call.op \in {"read", "txpdo"} => Len(result'.data) <= call.n
  /\ call.op = "write" => \A w \in unapplied : w.k # calls

Return ==
  /\ call # NoCall
  /\ call' = NoCall
  /\ \/ result'.status = "ok" /\ (sound' => Done)
     \/ /\ result'.status = "small"
        /\ sound' => call.op \in {"read", "txpdo"} /\ Len(Denotes(call)) > call.n
     \/ result'.status = "failed" /\ ~sound'
  /\ sound' => sound
  /\ UNCHANGED <<store, unapplied, calls>>

Next == Begin \/ Carry \/ Disturb \/ Return

Spec == Init /\ [][Next]_abstract
=============================================================================
