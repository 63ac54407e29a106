------------------------------ MODULE MCEeprom ------------------------------
(* Instances of Eeprom for TLC. *)
EXTENDS Eeprom

MCContents == [s \in {1, 2} |->
  IF s = 1
  THEN << [cat |-> String, value |-> << <<65, 66>>, <<67, 68, 69>> >>],
          [cat |-> Fmmu, value |-> <<1, 2>>],
          [cat |-> Pdo, value |-> <<[index |-> 6656, sm |-> 3, entries |-> <<8, 1>>],
                                    [index |-> 6657, sm |-> 255, entries |-> <<16>>],
                                    [index |-> 6658, sm |-> 3, entries |-> << >>]>>] >>
  ELSE << [cat |-> 30, value |-> <<5, 6, 7, 8>>],
          [cat |-> Fmmu, value |-> <<1, 2, 3, 0>>],
          [cat |-> Sm, value |-> <<[start |-> 4096, length |-> 128, control |-> 38, active |-> 1],
                                   [start |-> 4352, length |-> 256, control |-> 34, active |-> 1]>>] >>]

L(o, s, a) == [op |-> o, s |-> s, arg |-> a]
MCLookups == {
  L("string", 1, 2), L("PDO", 1, 0), L("FMMU", 2, 0), L("SM", 2, 0), L("find", 2, 30),
  L("read", 1, 1), L("write", 2, [word |-> 3, value |-> <<9, 9>>]),
  L("readAP", 2, 1), L("writeAP", 2, [word |-> 4, value |-> <<8, 8>>]), L("ident", 1, 1), L("dump", 2, 0)}
=============================================================================
