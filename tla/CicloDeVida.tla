---------------------------- MODULE CicloDeVida ----------------------------
(***************************************************************************)
(* What the kernel promises of its processes, whatever the scheduling      *)
(* algorithm: the five-state diagram, with at most Grado processes         *)
(* admitted and at most one executing.                                     *)
(***************************************************************************)
EXTENDS Integers, FiniteSets

CONSTANTS Procesos, Grado

VARIABLE fase

Vivos == {p \in Procesos : fase[p] \in {"READY", "EXEC", "BLOCKED"}}

Pasar(p, desde, hasta) ==
  fase[p] \in desde /\ fase' = [fase EXCEPT ![p] = hasta]

Crear(p) == Pasar(p, {"NINGUNO"}, "NEW")

Admitir(p) == Cardinality(Vivos) < Grado /\ Pasar(p, {"NEW"}, "READY")

Ejecutar(p) ==
  /\ \A q \in Procesos : fase[q] # "EXEC"
  /\ Pasar(p, {"READY"}, "EXEC")

Desalojar(p) == Pasar(p, {"EXEC"}, "READY")

Bloquear(p) == Pasar(p, {"EXEC"}, "BLOCKED")

Desbloquear(p) == Pasar(p, {"BLOCKED"}, "READY")

Terminar(p) == Pasar(p, {"NEW", "READY", "EXEC", "BLOCKED"}, "EXIT")

Init == fase = [p \in Procesos |-> "NINGUNO"]

Next == \E p \in Procesos :
  \/ Crear(p) \/ Admitir(p) \/ Ejecutar(p) \/ Desalojar(p)
  \/ Bloquear(p) \/ Desbloquear(p) \/ Terminar(p)

Spec == Init /\ [][Next]_fase
=============================================================================
