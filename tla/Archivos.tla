------------------------------ MODULE Archivos ------------------------------
(***************************************************************************)
(* What a DialFS interface promises the programs: named files with a size, *)
(* where an operation on one file changes that file only and a byte, once  *)
(* written, stays until its file is deleted or truncated below it.  A file *)
(* that grows may show bytes the disk already held.                        *)
(***************************************************************************)
EXTENDS Integers

CONSTANTS Nombres, Ausente

VARIABLES
  tamanio,   \* name -> bytes of the file, or Ausente
  guardado   \* name -> offsets at which it holds what was written to it

avars == <<tamanio, guardado>>

Existe(n) == tamanio[n] # Ausente

Init ==
  /\ tamanio = [n \in Nombres |-> Ausente]
  /\ guardado = [n \in Nombres |-> {}]

Crear(n) ==
  /\ ~Existe(n)
  /\ tamanio' = [tamanio EXCEPT ![n] = 0]
  /\ UNCHANGED guardado

Borrar(n) ==
  /\ Existe(n)
  /\ tamanio' = [tamanio EXCEPT ![n] = Ausente]
  /\ guardado' = [guardado EXCEPT ![n] = {}]

SoloCambia(n) == guardado' = [guardado EXCEPT ![n] = guardado'[n]]

Truncar(n) ==
  /\ Existe(n)
  /\ tamanio' = [tamanio EXCEPT ![n] = tamanio'[n]]
  /\ tamanio'[n] >= 0
  /\ SoloCambia(n)
  /\ guardado[n] \intersect 0..(tamanio'[n] - 1) \subseteq guardado'[n]
  /\ guardado'[n] \subseteq 0..(tamanio'[n] - 1)

Escribir(n) ==
  /\ Existe(n)
  /\ SoloCambia(n)
  /\ guardado[n] \subseteq guardado'[n]
  /\ guardado'[n] \subseteq 0..(tamanio[n] - 1)
  /\ UNCHANGED tamanio

Next == \E n \in Nombres : Crear(n) \/ Borrar(n) \/ Truncar(n) \/ Escribir(n)

Spec == Init /\ [][Next]_avars
==============================================================================
