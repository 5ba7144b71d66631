--------------------------- MODULE RepartoDeMarcos ---------------------------
(***************************************************************************)
(* What the memory process promises of its frames, without frames, tables *)
(* or threads: every active process has a quota of pages, a RESIZE changes *)
(* one quota in one step to the size asked for or leaves it as it was, and *)
(* the quotas never exceed the memory that is installed.                   *)
(***************************************************************************)
EXTENDS Integers, FiniteSets

CONSTANTS Procesos, Capacidad

VARIABLES activos, cuota

repartoVars == <<activos, cuota>>

\* The pages that quotas c grant, each the i-th of a process
Otorgadas(c) == UNION {{p} \X (1..c[p]) : p \in Procesos}

Total(c) == Cardinality(Otorgadas(c))

Init ==
  /\ activos = {}
  /\ cuota = [p \in Procesos |-> 0]

Crear(p) ==
  /\ p \notin activos
  /\ activos' = activos \union {p}
  /\ UNCHANGED cuota

Ajustar(p, n) ==
  /\ p \in activos
  /\ cuota' = [cuota EXCEPT ![p] = n]
  /\ Total(cuota') <= Capacidad
  /\ UNCHANGED activos

Liberar(p) ==
  /\ p \in activos
  /\ activos' = activos \ {p}
  /\ cuota' = [cuota EXCEPT ![p] = 0]

Next == \E p \in Procesos :
          \/ Crear(p)
          \/ \E n \in 0..Capacidad : Ajustar(p, n)
          \/ Liberar(p)

Spec == Init /\ [][Next]_repartoVars
==============================================================================
