--------------------------------- MODULE Tlb ---------------------------------
(***************************************************************************)
(* The TLB of the CPU (cpu/src/tlb.c): the entries, each in the slot it    *)
(* was loaded in, and TLB_indices, the slots in the order in which they    *)
(* are to be replaced.  Only the thread of the instruction cycle uses it.  *)
(* Slots count from 1 here and from 0 in the code.                         *)
(***************************************************************************)
EXTENDS Integers, Sequences

CONSTANTS
  CANT_ENTRADAS_TLB,
  ALGORITMO_TLB,
  Elementos   \* elemento_TLB: records with nro_pagina, nro_marco and pid

ASSUME TlbAssumption ==
  /\ CANT_ENTRADAS_TLB \in Nat
  /\ ALGORITMO_TLB \in {"FIFO", "LRU"}
  /\ \A e \in Elementos : e.nro_pagina \in Nat

VARIABLES
  TLB,
  TLB_indices,
  ultima         \* history: the page last looked up

tlbVars == <<TLB, TLB_indices, ultima>>

TlbTypeOK ==
  /\ TLB \in Seq(Elementos)
  /\ TLB_indices \in Seq(Nat \ {0})
  /\ Len(TLB) <= CANT_ENTRADAS_TLB
  /\ ultima \in Int

TlbInit ==
  /\ TLB = <<>>
  /\ TLB_indices = <<>>
  /\ ultima = -1

-----------------------------------------------------------------------------
(* consulta_TLB *)

\* The entry is found by its page number; its pid is stored and never read.
OtraPagina(i, pagina) == TLB[i].nro_pagina >= pagina  \* mutant
EsAcierto(i, pagina) ==
  /\ TLB[i].nro_pagina = pagina
  /\ \A k \in 1..(i - 1) : TLB[k].nro_pagina # pagina

SinMirar(pagina) == TRUE  \* mutant: loaded again although it is there
Falla(pagina) == \A i \in DOMAIN TLB : TLB[i].nro_pagina # pagina

SinSacar(s, j) == Append(s, s[j])  \* mutant: list_get and list_add
\* list_remove of the j-th index and list_add of the same
AlFinal(s, j) ==
  [k \in 1..Len(s) |-> IF k < j THEN s[k]
                       ELSE IF k < Len(s) THEN s[k + 1] ELSE s[j]]

\* A hit in slot i
OrdenComoFifo(i) == TLB_indices' = TLB_indices  \* mutant: LRU does not reorder
OrdenTrasUsar(i) ==
  IF ALGORITMO_TLB = "LRU"
  THEN \E j \in DOMAIN TLB_indices :
         /\ TLB_indices[j] = i
         /\ TLB_indices' = AlFinal(TLB_indices, j)
  ELSE TLB_indices' = TLB_indices

Acierto(i, pagina) ==
  /\ EsAcierto(i, pagina)
  /\ OrdenTrasUsar(i)
  /\ ultima' = pagina
  /\ UNCHANGED TLB

-----------------------------------------------------------------------------
(* actualizar_tlb, which the MMU calls after a miss *)

HayEntrada == Len(TLB) < CANT_ENTRADAS_TLB

Agregar(e) ==
  /\ HayEntrada
  /\ TLB' = Append(TLB, e)
  /\ TLB_indices' = Append(TLB_indices, Len(TLB) + 1)

Victima(s) == s[1]

Reemplazar(e) ==
  /\ Len(TLB) = CANT_ENTRADAS_TLB
  /\ TLB' = [TLB EXCEPT ![Victima(TLB_indices)] = e]
  /\ TLB_indices' = AlFinal(TLB_indices, 1)

Actualizar(e) ==
  /\ Falla(e.nro_pagina)
  /\ Agregar(e) \/ Reemplazar(e)
  /\ ultima' = e.nro_pagina

TlbNext ==
  /\ CANT_ENTRADAS_TLB > 0
  /\ \/ \E i \in DOMAIN TLB : Acierto(i, TLB[i].nro_pagina)
     \/ \E e \in Elementos : Actualizar(e)

TlbSpec == TlbInit /\ [][TlbNext]_tlbVars

-----------------------------------------------------------------------------
(* Properties *)

\* TLB_indices orders the slots in use, each once, through any number of hits
\* that move one to the end and of replacements that reuse one: no index of a
\* slot that is not there, none lost, which would never be replaced again.
OrdenCompleto ==
  /\ Len(TLB_indices) = Len(TLB)
  /\ \A i \in DOMAIN TLB : \E j \in DOMAIN TLB_indices : TLB_indices[j] = i
  /\ \A j \in DOMAIN TLB_indices : TLB_indices[j] \in DOMAIN TLB
  /\ \A j, k \in DOMAIN TLB_indices : TLB_indices[j] = TLB_indices[k] => j = k

\* A page is in the TLB once, so that the linear search, which stops at the
\* first entry of the page, cannot find one older than another.
PaginaUnaVez ==
  \A i, k \in DOMAIN TLB : TLB[i].nro_pagina = TLB[k].nro_pagina => i = k

\* Entries in replacement order
colaDeTlb == [j \in 1..Len(TLB_indices) |-> TLB[TLB_indices[j]]]

Cola == INSTANCE ColaDeReemplazo
          WITH Capacidad <- CANT_ENTRADAS_TLB,
               PorUso <- ALGORITMO_TLB = "LRU",
               Entradas <- Elementos,
               cola <- colaDeTlb

\* The indirection through slots is a FIFO or an LRU queue of entries: the
\* victim is the oldest load or the oldest use, although an entry that is
\* loaded takes the slot of the victim and not the last one.
ImplementaCola == Cola!Spec
==============================================================================
