--------------------------- MODULE MCProcessImage ---------------------------
(* Instances of ProcessImage for TLC. *)
EXTENDS ProcessImage

(* Two neighbouring counts on either side of a carry through every byte.   *)
CarryWords == {<<1, 1, 0>>, <<0, 0, 1>>}

(* Words that differ in any byte, and two that differ in the lowest only.  *)
Targets == CarryWords \cup {<<0, 0, 0>>, <<1, 0, 0>>}

(* Words that differ in both bytes.                                        *)
AnyWord  == {<<1, 0>>, <<0, 1>>}
=============================================================================
