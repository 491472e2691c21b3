---------------------------- MODULE MachineWord ----------------------------
(* The server's unsigned integers are numbers modulo Word: 2^32, or as many *)
(* of the units in which a module counts bytes.                             *)
EXTENDS Integers

CONSTANT Word

ASSUME WordAssumption == Word \in Nat \ {0, 1}
=============================================================================
