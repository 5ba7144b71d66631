------------------------------ MODULE MCDialFs ------------------------------
(* Small instances of DialFs for TLC. *)
EXTENDS DialFs, TLC

\* File names are interchangeable.
Simetria == Permutations(Nombres)
==============================================================================
