------------------------------ MODULE MCConsola ------------------------------
(* Small instances of Consola for TLC. *)
EXTENDS Consola
==============================================================================
