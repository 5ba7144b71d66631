------------------------------ MODULE MCKernel ------------------------------
(* Values of the constants of Kernel that a .cfg cannot write, and the       *)
(* symmetry of the slots for detached threads.                               *)
EXTENDS Kernel

MCUnaInstancia == [r \in Recursos |-> 1]

MCDosInstancias == [r \in Recursos |-> 2]

Simetria == Permutations(Desprendidos)
=============================================================================
