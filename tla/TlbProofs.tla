------------------------------ MODULE TlbProofs ------------------------------
(***************************************************************************)
(* Proofs about the TLB, for any number of entries, either algorithm and   *)
(* any set of pages and frames: the order of replacement is a permutation  *)
(* of the slots, no page is twice, and slots and order together behave as  *)
(* a FIFO or an LRU queue.                                                 *)
(***************************************************************************)
EXTENDS Tlb, TLAPS

-----------------------------------------------------------------------------
(* Sending an element to the end *)

\* s lists 1..n, each number once.
Ordena(s, n) ==
  /\ s \in Seq(Nat \ {0})
  /\ Len(s) = n
  /\ \A j \in 1..n : s[j] \in 1..n
  /\ \A i \in 1..n : \E j \in 1..n : s[j] = i
  /\ \A j, k \in 1..n : s[j] = s[k] => j = k

\* What AlFinal returns, place by place.
LEMMA AlFinalPorLugar ==
  ASSUME NEW s, Len(s) \in Nat, NEW j \in 1..Len(s)
  PROVE  /\ DOMAIN AlFinal(s, j) = 1..Len(s)
         /\ \A k \in 1..Len(s) :
              AlFinal(s, j)[k] = IF k < j THEN s[k]
                                 ELSE IF k < Len(s) THEN s[k + 1] ELSE s[j]
  BY DEF AlFinal

\* Sending an element to the end gives a sequence of the same elements.
LEMMA AlFinalSecuencia ==
  ASSUME NEW S, NEW s \in Seq(S), NEW j \in 1..Len(s)
  PROVE  /\ AlFinal(s, j) \in Seq(S)
         /\ Len(AlFinal(s, j)) = Len(s)
  <1>1. Len(s) \in Nat /\ \A k \in 1..Len(s) : s[k] \in S
    OBVIOUS
  <1>2. \A k \in 1..Len(s) : AlFinal(s, j)[k] \in S
    <2> TAKE k \in 1..Len(s)
    <2>1. AlFinal(s, j)[k] \in {s[k], s[j]} \/ k < Len(s)
      BY <1>1 DEF AlFinal
    <2>2. CASE k < Len(s) /\ ~(k < j)
      <3>1. k + 1 \in 1..Len(s) /\ AlFinal(s, j)[k] = s[k + 1]
        BY <1>1, <2>2 DEF AlFinal
      <3> QED
        BY <3>1, <1>1
    <2>3. CASE k < j
      BY <1>1, <2>3 DEF AlFinal
    <2> QED
      BY <1>1, <2>1, <2>2, <2>3
  <1>3. AlFinal(s, j) \in [1..Len(s) -> S]
    BY <1>1, <1>2 DEF AlFinal
  <1>4. AlFinal(s, j) \in Seq(S)
    BY <1>1, <1>3
  <1> QED
    BY <1>1, <1>3, <1>4

\* A permutation of the slots stays one: the removed index is the one added.
LEMMA AlFinalOrdena ==
  ASSUME NEW n \in Nat, NEW s, Ordena(s, n), NEW j \in 1..n
  PROVE  Ordena(AlFinal(s, j), n)
  <1> DEFINE r == AlFinal(s, j)
  <1>1. s \in Seq(Nat \ {0}) /\ Len(s) = n
    BY DEF Ordena
  <1>2. r \in Seq(Nat \ {0}) /\ Len(r) = n
    BY <1>1, AlFinalSecuencia
  <1>3. \A k \in 1..n : r[k] = IF k < j THEN s[k]
                               ELSE IF k < n THEN s[k + 1] ELSE s[j]
    BY <1>1, AlFinalPorLugar
  <1> HIDE DEF r
  <1>4. \A k \in 1..n : r[k] \in 1..n
    <2> TAKE k \in 1..n
    <2>1. CASE k < n /\ ~(k < j)
      <3>1. k + 1 \in 1..n /\ r[k] = s[k + 1]
        BY <2>1, <1>3
      <3> QED
        BY <3>1 DEF Ordena
    <2>2. CASE k < j
      BY <2>2, <1>3 DEF Ordena
    <2>3. CASE ~(k < n) /\ ~(k < j)
      BY <2>3, <1>3 DEF Ordena
    <2> QED
      BY <2>1, <2>2, <2>3
  <1>5. ASSUME NEW i \in 1..n
        PROVE  \E k \in 1..n : r[k] = i
    <2>1. PICK k \in 1..n : s[k] = i
      BY DEF Ordena
    <2>2. CASE k < j
      BY <2>1, <2>2, <1>3
    <2>3. CASE k = j
      <3>1. n \in 1..n /\ r[n] = s[j]
        BY <1>3
      <3> QED
        BY <3>1, <2>1, <2>3
    <2>4. CASE k > j
      <3>1. k - 1 \in 1..n /\ ~(k - 1 < j) /\ k - 1 < n
        BY <2>4
      <3>2. r[k - 1] = s[k]
        BY <3>1, <1>3
      <3> QED
        BY <3>1, <3>2, <2>1
    <2> QED
      BY <2>2, <2>3, <2>4
  <1>6. ASSUME NEW k \in 1..n, NEW l \in 1..n, r[k] = r[l]
        PROVE  k = l
    <2> DEFINE De(x) == IF x < j THEN x ELSE IF x < n THEN x + 1 ELSE j
    <2>1. \A x \in 1..n : De(x) \in 1..n /\ r[x] = s[De(x)]
      BY <1>3
    <2> HIDE DEF De
    <2>2. De(k) = De(l)
      BY <2>1, <1>6 DEF Ordena
    <2> QED
      BY <2>2 DEF De
  <1> QED
    BY <1>2, <1>4, <1>5, <1>6 DEF Ordena, r

-----------------------------------------------------------------------------
(* The invariant *)

Inv ==
  /\ TlbTypeOK
  /\ Ordena(TLB_indices, Len(TLB))
  /\ PaginaUnaVez

LEMMA InvDaOrden ==
  ASSUME Inv
  PROVE  OrdenCompleto
  <1> DEFINE n == Len(TLB)
  <1>1. DOMAIN TLB = 1..n /\ DOMAIN TLB_indices = 1..n
    BY DEF Inv, TlbTypeOK, Ordena
  <1>2. Ordena(TLB_indices, n)
    BY DEF Inv
  <1> HIDE DEF n
  <1>3. Len(TLB_indices) = Len(TLB)
    BY <1>2 DEF Ordena, n
  <1> QED
    BY <1>1, <1>2, <1>3 DEF Ordena, OrdenCompleto

LEMMA InvInicial ==
  TlbInit => Inv
  <1> SUFFICES ASSUME TlbInit PROVE Inv
    OBVIOUS
  <1> USE TlbAssumption DEF TlbInit
  <1>1. TlbTypeOK
    BY DEF TlbTypeOK
  <1>2. Ordena(TLB_indices, Len(TLB))
    BY DEF Ordena
  <1>3. PaginaUnaVez
    BY DEF PaginaUnaVez
  <1> QED
    BY <1>1, <1>2, <1>3 DEF Inv

\* A hit touches only the order.
LEMMA AciertoConserva ==
  ASSUME Inv, NEW i \in DOMAIN TLB, NEW pagina \in Int, Acierto(i, pagina)
  PROVE  Inv'
  <1>1. TLB' = TLB /\ ultima' = pagina
    BY DEF Acierto
  <1>2. Ordena(TLB_indices', Len(TLB))
    <2>1. CASE TLB_indices' = TLB_indices
      BY <2>1 DEF Inv
    <2>2. CASE \E j \in DOMAIN TLB_indices :
                 TLB_indices' = AlFinal(TLB_indices, j)
      <3>1. PICK j \in DOMAIN TLB_indices :
              TLB_indices' = AlFinal(TLB_indices, j)
        BY <2>2
      <3>2. j \in 1..Len(TLB) /\ Len(TLB) \in Nat
        <4>1. Len(TLB) \in Nat
          BY DEF Inv, TlbTypeOK
        <4>2. TLB_indices \in Seq(Nat \ {0}) /\ Len(TLB_indices) = Len(TLB)
          BY DEF Inv, Ordena
        <4> QED
          BY <3>1, <4>1, <4>2
      <3> QED
        BY <3>1, <3>2, AlFinalOrdena DEF Inv
    <2> QED
      BY <2>1, <2>2 DEF Acierto, OrdenTrasUsar
  <1>3. TlbTypeOK'
    BY <1>1, <1>2 DEF Inv, TlbTypeOK, Ordena
  <1> QED
    BY <1>1, <1>2, <1>3 DEF Inv, PaginaUnaVez

\* A new slot goes last in both lists.
LEMMA AgregarConserva ==
  ASSUME Inv, NEW e \in Elementos, Falla(e.nro_pagina), Agregar(e),
         ultima' = e.nro_pagina
  PROVE  Inv'
  <1> DEFINE n == Len(TLB)
  <1>1. /\ TLB \in Seq(Elementos) /\ n \in Nat /\ n < CANT_ENTRADAS_TLB
        /\ TLB' = Append(TLB, e)
        /\ TLB_indices' = Append(TLB_indices, n + 1)
        /\ TLB_indices \in Seq(Nat \ {0}) /\ Len(TLB_indices) = n
    BY DEF Inv, TlbTypeOK, Agregar, HayEntrada, Ordena
  <1>2. /\ TLB' \in Seq(Elementos) /\ Len(TLB') = n + 1
        /\ \A i \in 1..n : TLB'[i] = TLB[i]
        /\ TLB'[n + 1] = e
    BY <1>1
  <1>3. /\ TLB_indices' \in Seq(Nat \ {0}) /\ Len(TLB_indices') = n + 1
        /\ \A j \in 1..n : TLB_indices'[j] = TLB_indices[j]
        /\ TLB_indices'[n + 1] = n + 1
    BY <1>1
  <1> HIDE DEF n
  <1>4. TlbTypeOK'
    BY <1>1, <1>2, <1>3, TlbAssumption DEF TlbTypeOK
  <1>5. Ordena(TLB_indices', n + 1)
    <2>1. /\ \A j \in 1..n : TLB_indices[j] \in 1..n
          /\ \A i \in 1..n : \E j \in 1..n : TLB_indices[j] = i
          /\ \A j, k \in 1..n : TLB_indices[j] = TLB_indices[k] => j = k
      BY DEF Inv, Ordena, n
    <2>2. \A j \in 1..(n + 1) : TLB_indices'[j] \in 1..(n + 1)
      <3> TAKE j \in 1..(n + 1)
      <3>1. CASE j = n + 1
        BY <3>1, <1>1, <1>3
      <3>2. CASE j \in 1..n
        <4>1. TLB_indices'[j] = TLB_indices[j] /\ TLB_indices[j] \in 1..n
          BY <3>2, <2>1, <1>3
        <4> QED
          BY <4>1, <1>1
      <3> QED
        BY <3>1, <3>2, <1>1
    <2>3. \A i \in 1..(n + 1) : \E j \in 1..(n + 1) : TLB_indices'[j] = i
      <3> TAKE i \in 1..(n + 1)
      <3>1. CASE i = n + 1
        BY <3>1, <1>1, <1>3
      <3>2. CASE i \in 1..n
        <4>1. PICK j \in 1..n : TLB_indices[j] = i
          BY <3>2, <2>1
        <4> QED
          BY <4>1, <1>1, <1>3
      <3> QED
        BY <3>1, <3>2, <1>1
    <2>4. \A j, k \in 1..(n + 1) :
            TLB_indices'[j] = TLB_indices'[k] => j = k
      <3>1. ASSUME NEW j \in 1..n
            PROVE  TLB_indices'[j] # TLB_indices'[n + 1]
        BY <2>1, <1>1, <1>3
      <3>2. ASSUME NEW j \in 1..n, NEW k \in 1..n,
                   TLB_indices'[j] = TLB_indices'[k]
            PROVE  j = k
        BY <2>1, <1>3, <3>2
      <3>3. \A j \in 1..(n + 1) : j \in 1..n \/ j = n + 1
        BY <1>1
      <3> QED
        BY <3>1, <3>2, <3>3
    <2> QED
      BY <2>2, <2>3, <2>4, <1>3 DEF Ordena
  <1>6. PaginaUnaVez'
    <2>1. \A i, k \in 1..n : TLB[i].nro_pagina = TLB[k].nro_pagina => i = k
      <3>1. DOMAIN TLB = 1..n
        BY <1>1 DEF n
      <3> QED
        BY <3>1 DEF Inv, PaginaUnaVez
    <2>2. \A i \in 1..n : TLB[i].nro_pagina # e.nro_pagina
      <3>1. DOMAIN TLB = 1..n
        BY <1>1 DEF n
      <3> QED
        BY <3>1 DEF Falla
    <2>3. \A i, k \in 1..(n + 1) :
            TLB'[i].nro_pagina = TLB'[k].nro_pagina => i = k
      BY <2>1, <2>2, <1>1, <1>2
    <2>4. DOMAIN TLB' = 1..(n + 1)
      BY <1>2
    <2> QED
      BY <2>3, <2>4 DEF PaginaUnaVez
  <1> QED
    BY <1>2, <1>4, <1>5, <1>6 DEF Inv

\* The entry that comes takes the slot of the victim.
LEMMA ReemplazarConserva ==
  ASSUME Inv, NEW e \in Elementos, Falla(e.nro_pagina), Reemplazar(e),
         CANT_ENTRADAS_TLB > 0, ultima' = e.nro_pagina
  PROVE  Inv'
  <1> DEFINE n == Len(TLB)
             v == TLB_indices[1]
  <1>1. /\ TLB \in Seq(Elementos) /\ n \in Nat /\ n = CANT_ENTRADAS_TLB
        /\ 1 \in 1..n /\ v \in 1..n
        /\ TLB' = [TLB EXCEPT ![v] = e]
        /\ TLB_indices' = AlFinal(TLB_indices, 1)
    BY TlbAssumption DEF Inv, TlbTypeOK, Reemplazar, Victima, Ordena
  <1>2. /\ TLB' \in Seq(Elementos) /\ Len(TLB') = n
        /\ \A i \in 1..n : TLB'[i] = IF i = v THEN e ELSE TLB[i]
    BY <1>1
  <1>3. Ordena(TLB_indices', n)
    BY <1>1, AlFinalOrdena DEF Inv
  <1> HIDE DEF n, v
  <1>4. TlbTypeOK'
    <2>1. ultima' \in Int
      BY TlbAssumption
    <2> QED
      BY <2>1, <1>1, <1>2, <1>3, TlbAssumption DEF TlbTypeOK, Ordena
  <1>5. PaginaUnaVez'
    <2>1. \A i, k \in 1..n : TLB[i].nro_pagina = TLB[k].nro_pagina => i = k
      <3>1. DOMAIN TLB = 1..n
        BY <1>1 DEF n
      <3> QED
        BY <3>1 DEF Inv, PaginaUnaVez
    <2>2. \A i \in 1..n : TLB[i].nro_pagina # e.nro_pagina
      <3>1. DOMAIN TLB = 1..n
        BY <1>1 DEF n
      <3> QED
        BY <3>1 DEF Falla
    <2>3. \A i, k \in 1..n :
            TLB'[i].nro_pagina = TLB'[k].nro_pagina => i = k
      BY <2>1, <2>2, <1>2
    <2>4. DOMAIN TLB' = 1..n
      BY <1>2
    <2> QED
      BY <2>3, <2>4 DEF PaginaUnaVez
  <1> QED
    BY <1>2, <1>3, <1>4, <1>5 DEF Inv

\* Every step keeps the invariant.
LEMMA InvPaso ==
  ASSUME Inv, [TlbNext]_tlbVars
  PROVE  Inv'
  <1>1. CASE UNCHANGED tlbVars
    BY <1>1 DEF Inv, TlbTypeOK, Ordena, PaginaUnaVez, tlbVars
  <1>2. ASSUME NEW i \in DOMAIN TLB, Acierto(i, TLB[i].nro_pagina)
        PROVE  Inv'
    <2>1. TLB[i].nro_pagina \in Int
      BY TlbAssumption DEF Inv, TlbTypeOK
    <2> QED
      BY <1>2, <2>1, AciertoConserva
  <1>3. ASSUME NEW e \in Elementos, Actualizar(e), CANT_ENTRADAS_TLB > 0
        PROVE  Inv'
    BY <1>3, AgregarConserva, ReemplazarConserva DEF Actualizar
  <1> QED
    BY <1>1, <1>2, <1>3 DEF TlbNext

THEOREM TlbInvariante == TlbSpec => []Inv
  <1>1. TlbInit => Inv
    BY InvInicial
  <1>2. Inv /\ [TlbNext]_tlbVars => Inv'
    BY InvPaso
  <1> QED
    BY <1>1, <1>2, PTL DEF TlbSpec

\* The slots and their order keep their types, within the configured size.
THEOREM TlbTipos == TlbSpec => []TlbTypeOK
  <1>1. Inv => TlbTypeOK
    BY DEF Inv
  <1> QED
    BY <1>1, TlbInvariante, PTL

\* TLB_indices always orders all the slots in use, each once (consulta_TLB and
\* actualizar_tlb).
THEOREM TlbOrden == TlbSpec => []OrdenCompleto
  <1>1. Inv => OrdenCompleto
    BY InvDaOrden
  <1> QED
    BY <1>1, TlbInvariante, PTL

\* No page is ever in two slots.
THEOREM TlbPaginaUnaVez == TlbSpec => []PaginaUnaVez
  <1>1. Inv => PaginaUnaVez
    BY DEF Inv
  <1> QED
    BY <1>1, TlbInvariante, PTL

-----------------------------------------------------------------------------
(* The queue *)

\* Two functions on 1..n with the same values are equal.
LEMMA MismaSecuencia ==
  ASSUME NEW n, NEW f, NEW g, f = [k \in 1..n |-> f[k]],
         g = [k \in 1..n |-> g[k]], \A k \in 1..n : f[k] = g[k]
  PROVE  f = g
  OBVIOUS

\* The entries in replacement order, place by place.
LEMMA ColaPorLugar ==
  ASSUME Inv
  PROVE  /\ colaDeTlb \in Seq(Elementos)
         /\ Len(colaDeTlb) = Len(TLB)
         /\ \A k \in 1..Len(TLB) : colaDeTlb[k] = TLB[TLB_indices[k]]
  <1> DEFINE n == Len(TLB)
  <1>1. n \in Nat /\ \A i \in 1..n : TLB[i] \in Elementos
    BY DEF Inv, TlbTypeOK
  <1>2. Len(TLB_indices) = n /\ \A k \in 1..n : TLB_indices[k] \in 1..n
    BY DEF Inv, Ordena
  <1> HIDE DEF n
  <1>3. colaDeTlb = [k \in 1..n |-> TLB[TLB_indices[k]]]
    BY <1>2 DEF colaDeTlb
  <1>4. \A k \in 1..n : TLB[TLB_indices[k]] \in Elementos
    BY <1>1, <1>2
  <1>5. colaDeTlb \in [1..n -> Elementos]
    BY <1>3, <1>4
  <1>6. colaDeTlb \in Seq(Elementos) /\ Len(colaDeTlb) = n
    BY <1>1, <1>5
  <1> QED
    BY <1>3, <1>6 DEF n

LEMMA AciertoEsUso ==
  ASSUME Inv, Inv', NEW i \in DOMAIN TLB, Acierto(i, TLB[i].nro_pagina)
  PROVE  Cola!Usar
  <1> DEFINE n == Len(TLB)
  <1>1. TLB' = TLB /\ ultima' = TLB[i].nro_pagina
    BY DEF Acierto
  <1>2. /\ colaDeTlb \in Seq(Elementos) /\ Len(colaDeTlb) = n /\ n \in Nat
        /\ \A k \in 1..n : colaDeTlb[k] = TLB[TLB_indices[k]]
    BY ColaPorLugar DEF Inv, TlbTypeOK
  <1>3. i \in 1..n
    BY DEF Inv, TlbTypeOK
  <1>4. CASE ALGORITMO_TLB # "LRU"
    <2>1. PICK j \in 1..n : TLB_indices[j] = i
      BY <1>3 DEF Inv, Ordena
    <2>2. TLB_indices' = TLB_indices
      BY <1>4 DEF Acierto, OrdenTrasUsar
    <2>3. colaDeTlb' = colaDeTlb
      BY <1>1, <2>2 DEF colaDeTlb
    <2>4. colaDeTlb[j].nro_pagina = ultima'
      BY <1>1, <1>2, <2>1
    <2> QED
      BY <1>2, <1>4, <2>3, <2>4 DEF Cola!Usar
  <1>5. CASE ALGORITMO_TLB = "LRU"
    <2>1. PICK j \in DOMAIN TLB_indices :
            TLB_indices[j] = i /\ TLB_indices' = AlFinal(TLB_indices, j)
      BY <1>5 DEF Acierto, OrdenTrasUsar
    <2>2. TLB_indices \in Seq(Nat \ {0}) /\ Len(TLB_indices) = n
      BY DEF Inv, Ordena
    <2>3. j \in 1..n
      BY <2>1, <2>2
    <2>4. Len(TLB_indices') = n
      BY <2>1, <2>2, <2>3, AlFinalSecuencia
    <2>5. \A k \in 1..n :
            TLB_indices'[k] = IF k < j THEN TLB_indices[k]
                              ELSE IF k < n THEN TLB_indices[k + 1]
                                   ELSE TLB_indices[j]
      BY <2>1, <2>2, <2>3, <1>2, AlFinalPorLugar
    <2>6. colaDeTlb' = [k \in 1..n |-> TLB[TLB_indices'[k]]]
      BY <1>1, <2>4 DEF colaDeTlb
    <2> HIDE DEF n
    <2>7. \A k \in 1..n :
            TLB[TLB_indices'[k]] = IF k < j THEN colaDeTlb[k]
                                   ELSE IF k < n THEN colaDeTlb[k + 1]
                                        ELSE colaDeTlb[j]
      <3> TAKE k \in 1..n
      <3>1. CASE k < j
        BY <3>1, <2>5, <1>2
      <3>2. CASE ~(k < j) /\ k < n
        <4>1. k + 1 \in 1..n
          BY <3>2, <1>2
        <4> QED
          BY <3>2, <4>1, <2>5, <1>2
      <3>3. CASE ~(k < j) /\ ~(k < n)
        BY <3>3, <2>5, <2>3, <1>2
      <3> QED
        BY <3>1, <3>2, <3>3
    <2>8. colaDeTlb' = Cola!AlFondo(colaDeTlb, j)
      BY <2>6, <2>7, <1>2 DEF Cola!AlFondo
    <2>9. colaDeTlb[j].nro_pagina = ultima'
      BY <1>1, <1>2, <2>1, <2>3
    <2> QED
      BY <1>2, <1>5, <2>3, <2>8, <2>9 DEF Cola!Usar
  <1> QED
    BY <1>4, <1>5

\* A sequence is the function of its places.
LEMMA IgualPorLugar ==
  ASSUME NEW S, NEW s \in Seq(S), NEW n \in Nat, Len(s) = n,
         NEW t, t = [k \in 1..n |-> t[k]],
         \A k \in 1..n : s[k] = t[k]
  PROVE  s = t
  <1>1. s = [k \in 1..n |-> s[k]]
    OBVIOUS
  <1> QED
    BY <1>1

\* What Append holds at each place.
LEMMA AppendPorLugar ==
  ASSUME NEW S, NEW s \in Seq(S), NEW e \in S
  PROVE  /\ Append(s, e) \in Seq(S)
         /\ Len(Append(s, e)) = Len(s) + 1
         /\ \A k \in 1..Len(s) : Append(s, e)[k] = s[k]
         /\ Append(s, e)[Len(s) + 1] = e
  OBVIOUS

LEMMA ActualizarEsCarga ==
  ASSUME Inv, Inv', NEW e \in Elementos, Actualizar(e), CANT_ENTRADAS_TLB > 0
  PROVE  Cola!Cargar(e)
  <1> DEFINE n == Len(TLB)
  <1>1. /\ colaDeTlb \in Seq(Elementos) /\ Len(colaDeTlb) = n /\ n \in Nat
        /\ n <= CANT_ENTRADAS_TLB /\ CANT_ENTRADAS_TLB \in Nat
        /\ \A k \in 1..n : colaDeTlb[k] = TLB[TLB_indices[k]]
    BY ColaPorLugar, TlbAssumption DEF Inv, TlbTypeOK
  <1>2. /\ TLB_indices \in Seq(Nat \ {0}) /\ Len(TLB_indices) = n
        /\ \A k \in 1..n : TLB_indices[k] \in 1..n
        /\ \A j, k \in 1..n : TLB_indices[j] = TLB_indices[k] => j = k
    BY DEF Inv, Ordena
  <1>3. TLB \in Seq(Elementos)
    BY DEF Inv, TlbTypeOK
  <1>4. \A k \in 1..n : colaDeTlb[k].nro_pagina # e.nro_pagina
    <2>1. DOMAIN TLB = 1..n
      BY <1>3
    <2> QED
      BY <2>1, <1>1, <1>2 DEF Actualizar, Falla
  <1>5. CASE Agregar(e)
    <2>1. /\ n < CANT_ENTRADAS_TLB
          /\ TLB' = Append(TLB, e)
          /\ TLB_indices' = Append(TLB_indices, n + 1)
      BY <1>5 DEF Agregar, HayEntrada
    <2>2. /\ Len(TLB_indices') = n + 1
          /\ \A k \in 1..n : TLB_indices'[k] = TLB_indices[k]
          /\ TLB_indices'[n + 1] = n + 1
      BY <2>1, <1>2, <1>1
    <2>3. (\A k \in 1..n : TLB'[k] = TLB[k]) /\ TLB'[n + 1] = e
      BY <2>1, <1>3
    <2>4. colaDeTlb' = [k \in 1..(n + 1) |-> TLB'[TLB_indices'[k]]]
      BY <2>2 DEF colaDeTlb
    <2> HIDE DEF n
    <2>5. \A k \in 1..n : TLB'[TLB_indices'[k]] = colaDeTlb[k]
      BY <2>2, <2>3, <1>1, <1>2
    <2>6. TLB'[TLB_indices'[n + 1]] = e
      BY <2>2, <2>3
    <2>7. colaDeTlb' = Append(colaDeTlb, e)
      <3> DEFINE f == colaDeTlb'
                 a == Append(colaDeTlb, e)
      <3>1. a \in Seq(Elementos) /\ Len(a) = n + 1 /\ n + 1 \in Nat
        BY <1>1, AppendPorLugar
      <3>2. (\A k \in 1..n : a[k] = colaDeTlb[k]) /\ a[n + 1] = e
        BY <1>1, AppendPorLugar
      <3>3. f = [k \in 1..(n + 1) |-> f[k]]
        BY <2>4
      <3>4. \A k \in 1..(n + 1) : k \in 1..n \/ k = n + 1
        BY <1>1
      <3>5. \A k \in 1..(n + 1) : f[k] = TLB'[TLB_indices'[k]]
        BY <2>4
      <3> HIDE DEF a, f
      <3>6. \A k \in 1..(n + 1) : a[k] = f[k]
        BY <3>2, <3>4, <3>5, <2>5, <2>6
      <3>7. a = f
        BY <3>1, <3>3, <3>6, IgualPorLugar
      <3> QED
        BY <3>7 DEF a, f
    <2> QED
      BY <2>1, <2>7, <1>1, <1>4 DEF Cola!Cargar, Actualizar
  <1>6. CASE Reemplazar(e)
    <2> DEFINE v == TLB_indices[1]
    <2>1. /\ n = CANT_ENTRADAS_TLB
          /\ TLB' = [TLB EXCEPT ![v] = e]
          /\ TLB_indices' = AlFinal(TLB_indices, 1)
      BY <1>6 DEF Reemplazar, Victima
    <2>2. n > 0 /\ 1 \in 1..n /\ n \in 1..n /\ v \in 1..n
      BY <2>1, <1>1, <1>2
    <2>3. Len(TLB_indices') = n
      BY <2>1, <2>2, <1>2, AlFinalSecuencia
    <2>4. /\ \A k \in 1..(n - 1) : TLB_indices'[k] = TLB_indices[k + 1]
          /\ TLB_indices'[n] = v
      <3>1. \A k \in 1..n :
              TLB_indices'[k] = IF k < 1 THEN TLB_indices[k]
                                ELSE IF k < n THEN TLB_indices[k + 1]
                                     ELSE TLB_indices[1]
        <4>1. /\ TLB_indices \in Seq(Nat \ {0})
              /\ 1 \in 1..Len(TLB_indices)
              /\ TLB_indices' = AlFinal(TLB_indices, 1)
              /\ Len(TLB_indices) = n
          BY <2>1, <2>2, <1>2
        <4> HIDE DEF n
        <4> QED
          BY <4>1, AlFinalPorLugar
      <3> QED
        BY <3>1, <2>2, <1>1
    <2>5. \A i \in 1..n : TLB'[i] = IF i = v THEN e ELSE TLB[i]
      BY <2>1, <1>3
    <2>6. colaDeTlb' = [k \in 1..n |-> TLB'[TLB_indices'[k]]]
      BY <2>3 DEF colaDeTlb
    <2>7. \A k \in 1..(n - 1) : TLB'[TLB_indices'[k]] = colaDeTlb[k + 1]
      <3> TAKE k \in 1..(n - 1)
      <3>1. k + 1 \in 1..n /\ k + 1 # 1
        BY <1>1
      <3>2. TLB_indices[k + 1] \in 1..n /\ TLB_indices[k + 1] # v
        BY <3>1, <2>2, <1>2
      <3> QED
        BY <3>1, <3>2, <2>4, <2>5, <1>1
    <2>8. TLB'[TLB_indices'[n]] = e
      BY <2>2, <2>4, <2>5
    <2> HIDE DEF n, v
    <2>9. /\ Tail(colaDeTlb) \in Seq(Elementos)
          /\ Len(Tail(colaDeTlb)) = n - 1
          /\ \A k \in 1..(n - 1) : Tail(colaDeTlb)[k] = colaDeTlb[k + 1]
      BY <2>2, <1>1
    <2>10. colaDeTlb' = Append(Tail(colaDeTlb), e)
      <3> DEFINE f == colaDeTlb'
                 a == Append(Tail(colaDeTlb), e)
      <3>1. a \in Seq(Elementos) /\ Len(a) = (n - 1) + 1 /\ (n - 1) + 1 = n
        BY <2>9, <1>1, AppendPorLugar
      <3>2. (\A k \in 1..(n - 1) : a[k] = colaDeTlb[k + 1]) /\ a[(n - 1) + 1] = e
        BY <2>9, AppendPorLugar
      <3>3. f = [k \in 1..n |-> f[k]]
        BY <2>6
      <3>4. \A k \in 1..n : k \in 1..(n - 1) \/ k = n
        BY <1>1
      <3>5. \A k \in 1..n : f[k] = TLB'[TLB_indices'[k]]
        BY <2>6
      <3> HIDE DEF a, f
      <3>6. \A k \in 1..n : a[k] = f[k]
        BY <3>1, <3>2, <3>4, <3>5, <2>7, <2>8
      <3>7. a = f
        BY <3>1, <3>3, <3>6, <1>1, IgualPorLugar
      <3> QED
        BY <3>7 DEF a, f
    <2> QED
      BY <2>1, <2>10, <1>1, <1>4 DEF Cola!Cargar, Actualizar
  <1> QED
    BY <1>5, <1>6 DEF Actualizar

LEMMA PasoDeCola ==
  ASSUME Inv, Inv', [TlbNext]_tlbVars
  PROVE  [Cola!Next]_<<colaDeTlb, ultima>>
  <1>1. CASE UNCHANGED tlbVars
    BY <1>1 DEF tlbVars, colaDeTlb
  <1>2. ASSUME NEW i \in DOMAIN TLB, Acierto(i, TLB[i].nro_pagina)
        PROVE  Cola!Next
    BY <1>2, AciertoEsUso DEF Cola!Next
  <1>3. ASSUME NEW e \in Elementos, Actualizar(e), CANT_ENTRADAS_TLB > 0
        PROVE  Cola!Next
    BY <1>3, ActualizarEsCarga DEF Cola!Next
  <1> QED
    BY <1>1, <1>2, <1>3 DEF TlbNext

\* Slots and TLB_indices implement a queue whose head is the victim, by order
\* of load with FIFO and of use with LRU.
THEOREM TlbEsCola == TlbSpec => ImplementaCola
  <1>1. TlbInit => Cola!Init
    BY DEF TlbInit, Cola!Init, colaDeTlb
  <1>2. Inv /\ Inv' /\ [TlbNext]_tlbVars => [Cola!Next]_<<colaDeTlb, ultima>>
    BY PasoDeCola
  <1> QED
    BY <1>1, <1>2, TlbInvariante, PTL DEF TlbSpec, ImplementaCola, Cola!Spec
==============================================================================
