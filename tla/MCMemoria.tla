------------------------------ MODULE MCMemoria ------------------------------
(* Small instances of Memoria for TLC. *)
EXTENDS Memoria, TLC

\* Pids and heap blocks are interchangeable.
Simetria == Permutations(Procesos) \union Permutations(Bloques)
==============================================================================
