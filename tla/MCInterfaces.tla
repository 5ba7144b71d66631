---------------------------- MODULE MCInterfaces ----------------------------
(* Small instances of Interfaces for TLC. *)
EXTENDS Interfaces

CONSTANTS i3, A, B

\* The runs but one are the interface A, started again.
NombreMC == [i \in Interfaces |-> IF i = i3 THEN B ELSE A]
==============================================================================
