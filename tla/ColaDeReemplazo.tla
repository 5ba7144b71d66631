-------------------------- MODULE ColaDeReemplazo --------------------------
(***************************************************************************)
(* What the two replacement algorithms of the TLB promise: the entries     *)
(* queue up, the one at the head is the next to go, and FIFO orders them   *)
(* by when they were loaded while LRU orders them by when they were used.  *)
(***************************************************************************)
EXTENDS Integers, Sequences

CONSTANTS
  Capacidad,   \* entries the queue holds
  PorUso,      \* LRU: a use sends the entry to the back
  Entradas

VARIABLES
  cola,     \* entries, the next victim first
  ultima    \* page last asked for

Init == cola = <<>> /\ ultima = -1

\* The queue s with its j-th element sent to the back
AlFondo(s, j) ==
  [k \in 1..Len(s) |-> IF k < j THEN s[k]
                       ELSE IF k < Len(s) THEN s[k + 1] ELSE s[j]]

Usar ==
  \E j \in 1..Len(cola) :
    /\ ultima' = cola[j].nro_pagina
    /\ cola' = IF PorUso THEN AlFondo(cola, j) ELSE cola

\* Only what is not there is loaded.
Cargar(e) ==
  /\ \A j \in 1..Len(cola) : cola[j].nro_pagina # e.nro_pagina
  /\ ultima' = e.nro_pagina
  /\ cola' = Append(IF Len(cola) < Capacidad THEN cola ELSE Tail(cola), e)

Next == Usar \/ \E e \in Entradas : Cargar(e)

Spec == Init /\ [][Next]_<<cola, ultima>>
==============================================================================
