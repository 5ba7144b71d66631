-------------------------- MODULE KernelVidaProofs --------------------------
(***************************************************************************)
(* The life of a process in the kernel, when the console finalises nobody  *)
(* and the system calls are those the kernel foresees: a pcb is in one     *)
(* list, the one its `estado' names, or in the hands of one thread; whoever*)
(* may move it next is one thread, one queue or nobody.                    *)
(***************************************************************************)
EXTENDS KernelProofs, FiniteSetTheorems

USE DEF planVars, flagVars, recVars, cpuVars, semVars, memVars

\* What these theorems leave out: FINALIZAR_PROCESO, WAIT of an unknown
\* resource, an I/O that ends with error, and an I/O other than IO_GEN_SLEEP
\* on an interface that does not admit it (which the kernel ends as the console
\* would).
CasosPrevistos ==
  /\ EstadosFinalizables = {}
  /\ Sucesos \intersect {"OTRA", "IO_ERROR", "WAIT_DESCONOCIDO"} = {}

-----------------------------------------------------------------------------
(* Sequences with no element twice *)

SinRepetir(s) == \A i, j \in 1..Len(s) : s[i] = s[j] => i = j

LEMMA AlFinal ==
  ASSUME NEW s \in Seq(Pids), NEW e \in Pids, SinRepetir(s), ~Contains(s, e)
  PROVE  /\ SinRepetir(Append(s, e))
         /\ \A x : Contains(Append(s, e), x) <=> Contains(s, x) \/ x = e
<1> PICK a : a = Append(s, e)
  OBVIOUS
<1>1. /\ a \in Seq(Pids) /\ Len(a) = Len(s) + 1 /\ Len(s) \in Nat
      /\ \A i \in 1..Len(s) : a[i] = s[i]
      /\ a[Len(s) + 1] = e
  OBVIOUS
<1>2. \A i \in 1..Len(a) : i \in 1..Len(s) \/ i = Len(s) + 1
  BY <1>1
<1>3. \A i \in 1..Len(s) : i \in 1..Len(a) /\ s[i] # e
  BY <1>1 DEF Contains
<1>4. Len(s) + 1 \in 1..Len(a)
  BY <1>1
<1>5. SinRepetir(a)
  <2> SUFFICES ASSUME NEW i \in 1..Len(a), NEW j \in 1..Len(a), a[i] = a[j]
               PROVE  i = j
    BY DEF SinRepetir
  <2>1. CASE i \in 1..Len(s) /\ j \in 1..Len(s)
    BY <1>1, <2>1 DEF SinRepetir
  <2>2. CASE i = Len(s) + 1 \/ j = Len(s) + 1
    BY <1>1, <1>2, <1>3, <2>2
  <2> QED  BY <1>2, <2>1, <2>2
<1>6. ASSUME NEW x PROVE Contains(a, x) <=> Contains(s, x) \/ x = e
  BY <1>1, <1>2, <1>3, <1>4 DEF Contains
<1> QED  BY <1>5, <1>6

LEMMA Resto ==
  ASSUME NEW s \in Seq(Pids), s # <<>>, SinRepetir(s)
  PROVE  /\ SinRepetir(Tail(s))
         /\ Head(s) \in Pids /\ Contains(s, Head(s))
         /\ \A x : Contains(Tail(s), x) <=> Contains(s, x) /\ x # Head(s)
<1> PICK a : a = Tail(s)
  OBVIOUS
<1>1. /\ a \in Seq(Pids) /\ Len(a) = Len(s) - 1 /\ Len(s) \in Nat \ {0}
      /\ \A i \in 1..Len(a) : a[i] = s[i + 1]
      /\ Head(s) = s[1] /\ s[1] \in Pids
  OBVIOUS
<1>2. \A i \in 1..Len(a) : i + 1 \in 1..Len(s) /\ i + 1 # 1
  BY <1>1
<1>3. 1 \in 1..Len(s)
  BY <1>1
<1>4. \A i \in 1..Len(s) : i # 1 => i - 1 \in 1..Len(a) /\ a[i - 1] = s[i]
  <2> SUFFICES ASSUME NEW i \in 1..Len(s), i # 1
               PROVE  i - 1 \in 1..Len(a) /\ a[i - 1] = s[i]
    OBVIOUS
  <2>1. i - 1 \in 1..Len(a) /\ (i - 1) + 1 = i
    BY <1>1
  <2> QED  BY <1>1, <2>1
<1>5. SinRepetir(a)
  <2> SUFFICES ASSUME NEW i \in 1..Len(a), NEW j \in 1..Len(a), a[i] = a[j]
               PROVE  i = j
    BY DEF SinRepetir
  <2>1. i + 1 = j + 1
    BY <1>1, <1>2 DEF SinRepetir
  <2> QED  BY <2>1
<1>6. ASSUME NEW x
      PROVE  Contains(a, x) <=> Contains(s, x) /\ x # Head(s)
  <2>1. ASSUME Contains(a, x) PROVE Contains(s, x) /\ x # Head(s)
    <3> PICK i \in 1..Len(a) : a[i] = x
      BY <2>1 DEF Contains
    <3>1. s[i + 1] = x /\ i + 1 \in 1..Len(s) /\ i + 1 # 1
      BY <1>1, <1>2
    <3>2. x # s[1]
      BY <1>3, <3>1 DEF SinRepetir
    <3> QED  BY <1>1, <3>1, <3>2 DEF Contains
  <2>2. ASSUME Contains(s, x), x # Head(s) PROVE Contains(a, x)
    <3> PICK i \in 1..Len(s) : s[i] = x
      BY <2>2 DEF Contains
    <3>1. i # 1
      BY <1>1, <2>2
    <3> QED  BY <1>4, <3>1 DEF Contains
  <2> QED  BY <2>1, <2>2
<1>7. Contains(s, Head(s))
  BY <1>1, <1>3 DEF Contains
<1> QED  BY <1>1, <1>5, <1>6, <1>7

LEMMA Quitado ==
  ASSUME NEW s \in Seq(Pids), NEW e, SinRepetir(s), Contains(s, e)
  PROVE  /\ SinRepetir(Sin(s, e))
         /\ \A x : Contains(Sin(s, e), x) <=> Contains(s, x) /\ x # e
         /\ Sin(s, e) \in Seq(Pids) /\ Len(Sin(s, e)) = Len(s) - 1
<1> DEFINE I == {i \in 1..Len(s) : s[i] = e}
<1> PICK a : a = Sin(s, e)
  OBVIOUS
<1> PICK m \in 1..Len(s) : s[m] = e
  BY DEF Contains
<1>1. I = {m}
  BY DEF SinRepetir
<1>2. Min(I) = m
  <2>1. I \subseteq Nat /\ I # {}
    BY <1>1
  <2> QED  BY <1>1, <2>1, MinimoDeIndices
<1>3. a = SubSeq(s, 1, m - 1) \o SubSeq(s, m + 1, Len(s))
  BY <1>1, <1>2 DEF Sin, RemoveFirst, RemoveAt, SelectInSeq
<1> HIDE DEF I
<1>4. /\ SubSeq(s, 1, m - 1) \in Seq(Pids) /\ Len(SubSeq(s, 1, m - 1)) = m - 1
      /\ \A i \in 1..(m - 1) : SubSeq(s, 1, m - 1)[i] = s[i]
  BY SubSeqProperties
<1>5. /\ SubSeq(s, m + 1, Len(s)) \in Seq(Pids)
      /\ Len(SubSeq(s, m + 1, Len(s))) = Len(s) - m
      /\ \A i \in 1..(Len(s) - m) : SubSeq(s, m + 1, Len(s))[i] = s[m + i]
  BY SubSeqProperties
<1>6. /\ a \in Seq(Pids) /\ Len(a) = Len(s) - 1 /\ Len(s) \in Nat /\ m \in Nat
      /\ \A i \in 1..(Len(s) - 1) : a[i] = IF i < m THEN s[i] ELSE s[i + 1]
  <2> PICK b, c : b = SubSeq(s, 1, m - 1) /\ c = SubSeq(s, m + 1, Len(s))
    OBVIOUS
  <2>1. /\ b \in Seq(Pids) /\ c \in Seq(Pids) /\ a = b \o c
        /\ Len(b) = m - 1 /\ Len(c) = Len(s) - m
        /\ \A i \in 1..(m - 1) : b[i] = s[i]
        /\ \A i \in 1..(Len(s) - m) : c[i] = s[m + i]
    BY <1>3, <1>4, <1>5
  <2>4. m \in Nat /\ Len(s) \in Nat /\ 1 <= m /\ m <= Len(s)
    BY LenProperties
  <2>5. (m - 1) + (Len(s) - m) = Len(s) - 1
    BY ONLY <2>4
  <2>2. /\ a \in Seq(Pids) /\ Len(a) = Len(s) - 1
        /\ \A i \in 1..(Len(s) - 1) :
             a[i] = IF i <= Len(b) THEN b[i] ELSE c[i - Len(b)]
    <3>1. /\ a \in Seq(Pids) /\ Len(a) = Len(b) + Len(c)
          /\ \A i \in 1..(Len(b) + Len(c)) :
               a[i] = IF i <= Len(b) THEN b[i] ELSE c[i - Len(b)]
      <4>1. /\ b \o c \in Seq(Pids) /\ Len(b \o c) = Len(b) + Len(c)
            /\ \A i \in 1..(Len(b) + Len(c)) :
                 (b \o c)[i] = IF i <= Len(b) THEN b[i] ELSE c[i - Len(b)]
        <5>1. b \in Seq(Pids) /\ c \in Seq(Pids)
          BY <2>1
        <5> QED  BY ONLY <5>1, ConcatProperties
      <4> QED  BY <2>1, <4>1
    <3>2. Len(b) + Len(c) = Len(s) - 1
      BY <2>1, <2>5
    <3> QED  BY <3>1, <3>2
  <2>3. ASSUME NEW i \in 1..(Len(s) - 1)
        PROVE  a[i] = IF i < m THEN s[i] ELSE s[i + 1]
    <3>1. CASE i < m
      <4>1. i \in 1..(m - 1) /\ i <= m - 1
        BY <2>4, <3>1
      <4>2. a[i] = b[i]
        BY <2>1, <2>2, <4>1
      <4> QED  BY <2>1, <3>1, <4>1, <4>2
    <3>2. CASE ~(i < m)
      <4>1. /\ i - (m - 1) \in 1..(Len(s) - m) /\ m + (i - (m - 1)) = i + 1
            /\ ~(i <= m - 1)
        BY <2>4, <3>2
      <4> QED  BY <2>1, <2>2, <3>2, <4>1
    <3> QED  BY <3>1, <3>2
  <2> QED  BY <2>2, <2>3
<1>7. SinRepetir(a)
  <2> SUFFICES ASSUME NEW i \in 1..Len(a), NEW j \in 1..Len(a), a[i] = a[j]
               PROVE  i = j
    BY DEF SinRepetir
  <2> PICK f \in [1..Len(a) -> 1..Len(s)] :
             \A k \in 1..Len(a) : f[k] = IF k < m THEN k ELSE k + 1
    <3>1. \A k \in 1..Len(a) : (IF k < m THEN k ELSE k + 1) \in 1..Len(s)
      <4> SUFFICES ASSUME NEW k \in 1..Len(a)
                   PROVE  (IF k < m THEN k ELSE k + 1) \in 1..Len(s)
        OBVIOUS
      <4>1. k \in Nat /\ 1 <= k /\ k <= Len(s) - 1
        BY <1>6
      <4>2. k \in 1..Len(s) /\ k + 1 \in 1..Len(s)
        BY <1>6, <4>1
      <4> QED  BY <4>2
    <3> DEFINE g == [k \in 1..Len(a) |-> IF k < m THEN k ELSE k + 1]
    <3>2. g \in [1..Len(a) -> 1..Len(s)]
      BY <3>1
    <3>3. \A k \in 1..Len(a) : g[k] = IF k < m THEN k ELSE k + 1
      OBVIOUS
    <3> HIDE DEF g
    <3> QED  BY <3>2, <3>3
  <2>1. a[i] = s[f[i]] /\ a[j] = s[f[j]]
    BY <1>6
  <2>2. f[i] = f[j]
    BY <2>1 DEF SinRepetir
  <2> QED  BY <2>2
<1>8. ASSUME NEW x PROVE Contains(a, x) <=> Contains(s, x) /\ x # e
  <2>1. ASSUME Contains(a, x) PROVE Contains(s, x) /\ x # e
    <3> PICK i \in 1..Len(a) : a[i] = x
      BY <2>1 DEF Contains
    <3> PICK k : k = IF i < m THEN i ELSE i + 1
      OBVIOUS
    <3>1. k \in 1..Len(s) /\ k # m /\ s[k] = x
      BY <1>6
    <3> QED  BY <3>1 DEF Contains, SinRepetir
  <2>2. ASSUME Contains(s, x), x # e PROVE Contains(a, x)
    <3> PICK i \in 1..Len(s) : s[i] = x
      BY <2>2 DEF Contains
    <3>1. i # m
      BY <2>2
    <3>2. CASE i < m
      <4>1. i \in 1..(Len(s) - 1)
        BY <3>2
      <4> QED  BY <1>6, <3>2, <4>1 DEF Contains
    <3>3. CASE i > m
      <4>1. i - 1 \in 1..(Len(s) - 1) /\ ~(i - 1 < m) /\ (i - 1) + 1 = i
        BY <3>3
      <4>2. a[i - 1] = x
        BY <1>6, <4>1
      <4> QED  BY <1>6, <4>1, <4>2 DEF Contains
    <3> QED  BY <3>1, <3>2, <3>3
  <2> QED  BY <2>1, <2>2
<1> QED  BY <1>6, <1>7, <1>8

LEMMA AloSumo ==
  \A n \in Nat : n <= 1 => \A k \in 1..n : k = 1 /\ n = 1
  OBVIOUS

LEMMA NadaEnVacia == SinRepetir(<<>>) /\ \A x : ~Contains(<<>>, x)
  BY DEF SinRepetir, Contains


-----------------------------------------------------------------------------
(* Where a process is, and who may move it *)

Suelto(p) == \A l \in Colas : ~EnLista(p, l)

EnIo(p, i) == io[i].pedido = p \/ Contains(io[i].espera, p)

\* p waits in the queue of a resource or at an interface.
EnCola(p) == \/ \E r \in Recursos : Contains(cola_recurso[r], p)
             \/ \E i \in Interfaces : EnIo(p, i)

\* Whoever may move p next is one: a thread with p among its arguments, a
\* resource or an interface.
UnaFicha(p) ==
  /\ \A t, u \in Hilos : hilos[t].p = p /\ hilos[u].p = p => t = u
  /\ EnCola(p) => \A t \in Hilos : hilos[t].p # p
  /\ \A r, s \in Recursos :
       Contains(cola_recurso[r], p) /\ Contains(cola_recurso[s], p) => r = s
  /\ \A r \in Recursos, i \in Interfaces :
       ~(Contains(cola_recurso[r], p) /\ EnIo(p, i))
  /\ \A i, j \in Interfaces : EnIo(p, i) /\ EnIo(p, j) => i = j
  /\ \A i \in Interfaces : ~(io[i].pedido = p /\ Contains(io[i].espera, p))

Lugar(p) ==
  /\ UnaFicha(p)
  /\ EnCola(p) => EnLista(p, "BLOCKED")
  /\ \A l \in Colas : EnLista(p, l) => estado[p] = l

Ordenadas ==
  /\ \A l \in Colas : SinRepetir(lista[l])
  /\ \A r \in Recursos : SinRepetir(cola_recurso[r])
  /\ \A i \in Interfaces : SinRepetir(io[i].espera)

\* The program points at which a thread has no process in hand, and the others.
SinProceso == {"reposo", "plp", "plp_cupo", "pcp", "pcp_exec", "pcp_tomar",
               "pcp_prioridad", "asignar"}

\* ... those of the dispatch thread, while the process is still in EXEC ...
EnServicio == {"plp_exit", "motivo", "reubicar", "reubicar_ready",
               "reubicar_prioridad", "wait_leer", "wait_resta",
               "signal_suma", "wait_bloquear"}

\* ... those of a process that waits in BLOCKED, and of one on its way out ...
EnEspera == {"wait_encolar", "io_mandar", "io_encolar", "asignar_resta",
             "desbloquear", "buscar"}

EnVuelta == {"io_siguiente", "io_liberar", "analizar"}

ConProceso == EnServicio \union EnEspera \union EnVuelta \union
  {"nuevo", "plp_ready", "liberar", "liberar_suma", "avisar", "transferir",
   "agregar", "colgado"}

\* ... and where the process of each is.
Ubica(t) ==
  LET h == hilos[t]
      p == hilos[t].p IN
  /\ \/ h.pc \in SinProceso /\ p = Nadie
     \/ h.pc \in ConProceso /\ p \in Pids
  /\ h.pc = "nuevo" => estado[p] = "NINGUNO"
  /\ h.pc = "plp_ready" => estado[p] = "NEW" /\ Suelto(p)
  /\ h.pc \in EnServicio => t = Despacho /\ EnLista(p, "EXEC")
  /\ h.pc = "motivo" => h.op # "DESALOJO_POR_CONSOLA"
  /\ h.pc \in {"liberar", "liberar_suma", "avisar"} =>
       h.op = "plp_exit" /\ estado[p] = "EXEC" /\ Suelto(p)
  /\ h.pc = "transferir" =>
       /\ Suelto(p)
       /\ \/ h.l = "EXIT" /\ h.op = "plp_exit" /\ estado[p] = "EXEC"
          \/ h.l = "BLOCKED" /\ estado[p] = "EXEC"
          \/ h.l \in {"READY", "READY_PRIORIDAD"} /\ estado[p] = "BLOCKED"
  /\ h.pc = "agregar" =>
       /\ Suelto(p) /\ estado[p] = h.l
       /\ \/ h.l = "EXIT" /\ h.op = "plp_exit"
          \/ h.l \in {"BLOCKED", "READY", "READY_PRIORIDAD"}
  /\ h.pc \in EnEspera => EnLista(p, "BLOCKED")
  /\ h.pc = "buscar" => h.op = "fin"
  /\ h.pc \in EnVuelta => estado[p] = "BLOCKED" /\ Suelto(p)
  /\ h.pc = "colgado" =>
       estado[p] = "BLOCKED" \/ (estado[p] = "READY" /\ Suelto(p))
  /\ h.tiene \intersect {"EXIT", "READY_PRIORIDAD"} = {}

Vida ==
  /\ Ordenadas
  /\ \A p \in Pids : Lugar(p)
  /\ \A t \in Hilos : Ubica(t)

-----------------------------------------------------------------------------
(* Steps that move one process *)

\* Nobody moves q, though it may leave a queue.
Quieto(q) ==
  /\ estado'[q] = estado[q]
  /\ \A l \in Colas : Contains(lista'[l], q) <=> Contains(lista[l], q)
  /\ \A r \in Recursos :
       Contains(cola_recurso'[r], q) => Contains(cola_recurso[r], q)
  /\ \A i \in Interfaces :
       /\ io'[i].pedido = q => io[i].pedido = q
       /\ Contains(io'[i].espera, q) => Contains(io[i].espera, q)

\* The other threads stay where they are, or start with no process in hand.
LosDemas(t) ==
  \A u \in Hilos \ {t} :
    \/ hilos'[u] = hilos[u]
    \/ /\ hilos'[u].pc \in SinProceso
       /\ hilos'[u].p = Nadie
       /\ hilos'[u].tiene = {}

LEMMA NadieNoEsPid == \A p \in Pids : p # Nadie
  BY KernelAssumption

LEMMA PcsAparte == SinProceso \intersect ConProceso = {}
  BY DEF SinProceso, ConProceso, EnServicio, EnEspera, EnVuelta

LEMMA QuietoLugar ==
  ASSUME NEW q \in Pids, Lugar(q), Quieto(q),
         \A u \in Hilos : hilos'[u].p = q => hilos[u].p = q
  PROVE  Lugar(q)'
<1>1. \A i \in Interfaces : EnIo(q, i)' => EnIo(q, i)
  BY DEF EnIo, Quieto
<1>2. EnCola(q)' => EnCola(q)
  BY <1>1 DEF EnCola, Quieto
<1>3. \A l \in Colas : EnLista(q, l)' <=> EnLista(q, l)
  BY DEF EnLista, Quieto
<1>4. UnaFicha(q)'
  BY <1>1, <1>2 DEF Lugar, UnaFicha, Quieto
<1>5. "BLOCKED" \in Colas /\ estado'[q] = estado[q]
  BY DEF Colas, Quieto
<1> QED  BY <1>2, <1>3, <1>4, <1>5 DEF Lugar

LEMMA QuietoUbica ==
  ASSUME NEW u \in Hilos, Ubica(u), hilos'[u] = hilos[u],
         hilos[u].p \in Pids => Quieto(hilos[u].p)
  PROVE  Ubica(u)'
<1> PICK h : h = hilos[u]
  OBVIOUS
<1>1. hilos'[u] = h
  OBVIOUS
<1>2. CASE h.pc \in SinProceso
  <2>1. h.p = Nadie /\ h.pc \notin ConProceso
    BY <1>2, PcsAparte DEF Ubica
  <2> QED  BY <1>1, <1>2, <2>1
    DEF Ubica, SinProceso, ConProceso, EnServicio, EnEspera, EnVuelta
<1>3. CASE h.pc \notin SinProceso
  <2> PICK q : q = h.p
    OBVIOUS
  <2>1. q \in Pids /\ Quieto(q)
    BY <1>3 DEF Ubica
  <2>2. \A l \in Colas : EnLista(q, l)' <=> EnLista(q, l)
    BY <2>1 DEF EnLista, Quieto
  <2>3. Suelto(q)' <=> Suelto(q)
    BY <2>2 DEF Suelto
  <2>4. estado'[q] = estado[q] /\ "EXEC" \in Colas /\ "BLOCKED" \in Colas
    BY <2>1 DEF Quieto, Colas
  <2> QED  BY <1>1, <2>2, <2>3, <2>4 DEF Ubica
<1> QED  BY <1>2, <1>3

\* Thread t moves p, if there is a p to move.
LEMMA PasoDe ==
  ASSUME Vida, NEW t \in Hilos, NEW p \in Pids \union {Nadie},
         Ordenadas', LosDemas(t),
         hilos'[t].p \in {p, hilos[t].p, Nadie},
         \A q \in Pids \ {p} : Quieto(q),
         p \in Pids => Lugar(p)' /\ \A u \in Hilos \ {t} : hilos[u].p # p,
         Ubica(t)'
  PROVE  Vida'
<1>1. ASSUME NEW q \in Pids PROVE Lugar(q)'
  <2>1. CASE q # p
    <3>1. \A u \in Hilos : hilos'[u].p = q => hilos[u].p = q
      BY <2>1, NadieNoEsPid DEF LosDemas
    <3> QED  BY <2>1, <3>1, QuietoLugar DEF Vida
  <2> QED  BY <2>1
<1>2. ASSUME NEW u \in Hilos, u # t PROVE Ubica(u)'
  <2>1. CASE hilos'[u] = hilos[u]
    <3>1. hilos[u].p \in Pids => Quieto(hilos[u].p)
      BY <1>2
    <3> QED  BY <2>1, <3>1, QuietoUbica DEF Vida
  <2>2. CASE /\ hilos'[u].pc \in SinProceso /\ hilos'[u].p = Nadie
             /\ hilos'[u].tiene = {}
    <3> PICK h : h = hilos'[u]
      OBVIOUS
    <3>1. h.pc \in SinProceso /\ h.p = Nadie /\ h.tiene = {} /\ h.pc \notin ConProceso
      BY <2>2, PcsAparte
    <3>2. hilos'[u] = h
      OBVIOUS
    <3>3. /\ h.pc \notin EnServicio /\ h.pc \notin EnEspera /\ h.pc \notin EnVuelta
          /\ h.pc \notin {"nuevo", "plp_ready", "motivo", "liberar",
                          "liberar_suma", "avisar", "transferir", "agregar",
                          "buscar", "colgado"}
      BY <3>1 DEF ConProceso, EnServicio, EnEspera
    <3> QED  BY <3>1, <3>2, <3>3 DEF Ubica
  <2> QED  BY <1>2, <2>1, <2>2 DEF LosDemas
<1> QED  BY <1>1, <1>2 DEF Vida

\* The process of a thread is in no queue and no other thread has it.
LEMMA DeHilo ==
  ASSUME Vida, NEW t \in Hilos, hilos[t].p \in Pids
  PROVE  /\ \A u \in Hilos \ {t} : hilos[u].p # hilos[t].p
         /\ ~EnCola(hilos[t].p)
  BY DEF Vida, Lugar, UnaFicha

\* A process nobody has, or that only t has.
LEMMA FichaEnHilo ==
  \A p \in Pids, t \in Hilos :
    (\A u \in Hilos \ {t} : hilos[u].p # p) /\ ~EnCola(p) => UnaFicha(p)
<1> SUFFICES ASSUME NEW p \in Pids, NEW t \in Hilos,
                    \A u \in Hilos \ {t} : hilos[u].p # p, ~EnCola(p)
             PROVE  UnaFicha(p)
  OBVIOUS
<1>1. /\ \A r \in Recursos : ~Contains(cola_recurso[r], p)
      /\ \A i \in Interfaces : ~EnIo(p, i)
  BY DEF EnCola
<1> QED  BY <1>1 DEF UnaFicha, EnIo

\* Thread t does something with the process it has in hand, and keeps it or
\* lets it go; no queue changes.
LEMMA PasoPropio ==
  ASSUME Vida, NEW t \in Hilos, NEW p \in Pids, hilos[t].p = p,
         Ordenadas', LosDemas(t), UNCHANGED <<cola_recurso, io>>,
         hilos'[t].p \in {p, Nadie},
         \A q \in Pids \ {p} :
           /\ estado'[q] = estado[q]
           /\ \A l \in Colas : EnLista(q, l)' <=> EnLista(q, l),
         \A l \in Colas : EnLista(p, l)' => estado'[p] = l,
         Ubica(t)'
  PROVE  Vida'
<1>1. (\A u \in Hilos \ {t} : hilos[u].p # p) /\ ~EnCola(p)
  BY DeHilo
<1>2. \A q \in Pids \ {p} : Quieto(q)
  BY DEF Quieto, EnLista
<1>3. \A l \in Colas : EnLista(p, l)' => estado'[p] = l
  OBVIOUS
<1>4. ~EnCola(p)'
  BY <1>1 DEF EnCola, EnIo
<1>5. \A u \in Hilos \ {t} : hilos'[u].p # p
  BY <1>1, NadieNoEsPid DEF LosDemas
<1>6. UnaFicha(p)'
  <2>1. /\ \A r \in Recursos : ~Contains(cola_recurso'[r], p)
        /\ \A i \in Interfaces : ~EnIo(p, i)'
    BY <1>4 DEF EnCola
  <2> QED  BY <1>4, <1>5, <2>1 DEF UnaFicha, EnIo
<1>7. Lugar(p)'
  BY <1>3, <1>4, <1>6 DEF Lugar
<1> QED  BY <1>1, <1>2, <1>7, PasoDe

\* Nothing moves: a thread goes on, with its process or with none.
LEMMA PasoQuieto ==
  ASSUME Vida, NEW t \in Hilos, LosDemas(t),
         UNCHANGED <<lista, estado, cola_recurso, io>>,
         hilos'[t].p \in {hilos[t].p, Nadie},
         Ubica(t)'
  PROVE  Vida'
<1>1. \A q \in Pids : Quieto(q)
  BY DEF Quieto
<1>2. Ordenadas'
  BY DEF Vida, Ordenadas
<1>3. Nadie \notin Pids
  BY NadieNoEsPid
<1> QED  BY <1>1, <1>2, <1>3, PasoDe

LEMMA PasoAjeno ==
  ASSUME Vida, UNCHANGED <<lista, estado, cola_recurso, io, hilos>>
  PROVE  Vida'
<1>1. Ubica(Despacho) /\ Despacho \in Hilos
  BY DespachoEsHilo DEF Vida
<1>2. Ubica(Despacho)'
  <2>1. \A q \in Pids : Quieto(q)
    BY DEF Quieto
  <2> QED  BY <1>1, <2>1, QuietoUbica
<1>3. LosDemas(Despacho)
  BY DEF LosDemas
<1> QED  BY <1>1, <1>2, <1>3, PasoQuieto

-----------------------------------------------------------------------------
(* Changes of the lists *)

LEMMA TiposDeListas ==
  ASSUME Tipos
  PROVE  /\ lista \in [Colas -> Seq(Pids)]
         /\ estado \in [Pids -> Estados]
         /\ cola_recurso \in [Recursos -> Seq(Pids)]
         /\ io \in [Interfaces -> Instancia]
         /\ hilos \in [Hilos -> Hilo]
  BY DEF Tipos, TypeOK

LEMMA ListaAgrega ==
  ASSUME Tipos, Ordenadas, NEW l \in Colas, NEW p \in Pids, ~EnLista(p, l),
         lista' = [lista EXCEPT ![l] = Append(@, p)]
  PROVE  /\ \A k \in Colas : SinRepetir(lista'[k])
         /\ \A q, k : k \in Colas =>
              (Contains(lista'[k], q) <=>
                 Contains(lista[k], q) \/ (k = l /\ q = p))
<1> PICK s \in Seq(Pids) : s = lista[l]
  BY TiposDeListas
<1>1. /\ lista'[l] = Append(s, p)
      /\ \A k \in Colas \ {l} : lista'[k] = lista[k]
  BY TiposDeListas
<1>2. SinRepetir(s) /\ ~Contains(s, p)
  BY DEF Ordenadas, EnLista
<1>3. /\ SinRepetir(Append(s, p))
      /\ \A x : Contains(Append(s, p), x) <=> Contains(s, x) \/ x = p
  BY <1>2, AlFinal
<1> QED  BY <1>1, <1>3 DEF Ordenadas

LEMMA ListaQuita ==
  ASSUME Tipos, Ordenadas, NEW l \in Colas, NEW p \in Pids, EnLista(p, l),
         lista' = [lista EXCEPT ![l] = Sin(@, p)]
  PROVE  /\ \A k \in Colas : SinRepetir(lista'[k])
         /\ \A q, k : k \in Colas =>
              (Contains(lista'[k], q) <=>
                 Contains(lista[k], q) /\ ~(k = l /\ q = p))
<1> PICK s \in Seq(Pids) : s = lista[l]
  BY TiposDeListas
<1>1. /\ lista'[l] = Sin(s, p)
      /\ \A k \in Colas \ {l} : lista'[k] = lista[k]
  BY TiposDeListas
<1>2. SinRepetir(s) /\ Contains(s, p)
  BY DEF Ordenadas, EnLista
<1>3. /\ SinRepetir(Sin(s, p))
      /\ \A x : Contains(Sin(s, p), x) <=> Contains(s, x) /\ x # p
  BY <1>2, Quitado
<1> QED  BY <1>1, <1>3 DEF Ordenadas

LEMMA ListaPrimero ==
  ASSUME Tipos, Ordenadas, NEW l \in Colas, lista[l] # <<>>,
         lista' = [lista EXCEPT ![l] = Tail(@)]
  PROVE  /\ \A k \in Colas : SinRepetir(lista'[k])
         /\ Head(lista[l]) \in Pids /\ EnLista(Head(lista[l]), l)
         /\ \A q, k : k \in Colas =>
              (Contains(lista'[k], q) <=>
                 Contains(lista[k], q) /\ ~(k = l /\ q = Head(lista[l])))
<1> PICK s \in Seq(Pids) : s = lista[l]
  BY TiposDeListas
<1>1. /\ lista'[l] = Tail(s)
      /\ \A k \in Colas \ {l} : lista'[k] = lista[k]
  BY TiposDeListas
<1>2. SinRepetir(s) /\ s # <<>>
  BY DEF Ordenadas
<1>3. /\ SinRepetir(Tail(s)) /\ Head(s) \in Pids /\ Contains(s, Head(s))
      /\ \A x : Contains(Tail(s), x) <=> Contains(s, x) /\ x # Head(s)
  BY <1>2, Resto
<1> QED  BY <1>1, <1>3 DEF Ordenadas, EnLista

\* The first of l goes to k.
LEMMA ListaTraslada ==
  ASSUME Tipos, Ordenadas, NEW l \in Colas, NEW k \in Colas \ {l},
         lista[l] # <<>>, ~EnLista(Head(lista[l]), k),
         lista' = [lista EXCEPT ![l] = Tail(@),
                                ![k] = Append(@, Head(lista[l]))]
  PROVE  /\ \A j \in Colas : SinRepetir(lista'[j])
         /\ Head(lista[l]) \in Pids /\ EnLista(Head(lista[l]), l)
         /\ \A q, j : j \in Colas =>
              (Contains(lista'[j], q) <=>
                 \/ Contains(lista[j], q) /\ ~(j = l /\ q = Head(lista[l]))
                 \/ j = k /\ q = Head(lista[l]))
<1> PICK s \in Seq(Pids), z \in Seq(Pids) : s = lista[l] /\ z = lista[k]
  BY TiposDeListas
<1> PICK p : p = Head(s)
  OBVIOUS
<1>1. /\ lista'[l] = Tail(s) /\ lista'[k] = Append(z, p)
      /\ \A j \in Colas \ {l, k} : lista'[j] = lista[j]
  BY TiposDeListas
<1>2. SinRepetir(s) /\ s # <<>> /\ SinRepetir(z) /\ ~Contains(z, p)
  BY DEF Ordenadas, EnLista
<1>3. /\ SinRepetir(Tail(s)) /\ p \in Pids /\ Contains(s, p)
      /\ \A x : Contains(Tail(s), x) <=> Contains(s, x) /\ x # p
  BY <1>2, Resto
<1>4. /\ SinRepetir(Append(z, p))
      /\ \A x : Contains(Append(z, p), x) <=> Contains(z, x) \/ x = p
  BY <1>2, <1>3, AlFinal
<1> QED  BY <1>1, <1>3, <1>4 DEF Ordenadas, EnLista

\* p goes from l to k.
LEMMA ListaMuda ==
  ASSUME Tipos, Ordenadas, NEW l \in Colas, NEW k \in Colas \ {l},
         NEW p \in Pids, EnLista(p, l), ~EnLista(p, k),
         lista' = [lista EXCEPT ![l] = Sin(@, p), ![k] = Append(@, p)]
  PROVE  /\ \A j \in Colas : SinRepetir(lista'[j])
         /\ \A q, j : j \in Colas =>
              (Contains(lista'[j], q) <=>
                 \/ Contains(lista[j], q) /\ ~(j = l /\ q = p)
                 \/ j = k /\ q = p)
<1> PICK s \in Seq(Pids), z \in Seq(Pids) : s = lista[l] /\ z = lista[k]
  BY TiposDeListas
<1>1. /\ lista'[l] = Sin(s, p) /\ lista'[k] = Append(z, p)
      /\ \A j \in Colas \ {l, k} : lista'[j] = lista[j]
  BY TiposDeListas
<1>2. SinRepetir(s) /\ Contains(s, p) /\ SinRepetir(z) /\ ~Contains(z, p)
  BY DEF Ordenadas, EnLista
<1>3. /\ SinRepetir(Sin(s, p))
      /\ \A x : Contains(Sin(s, p), x) <=> Contains(s, x) /\ x # p
  BY <1>2, Quitado
<1>4. /\ SinRepetir(Append(z, p))
      /\ \A x : Contains(Append(z, p), x) <=> Contains(z, x) \/ x = p
  BY <1>2, AlFinal
<1> QED  BY <1>1, <1>3, <1>4 DEF Ordenadas

\* The move of ReubicarAReady.
LEMMA MudaDeExec ==
  ASSUME Tipos, Ordenadas, NEW p \in Pids, EnLista(p, "EXEC"),
         ~EnLista(p, "READY"),
         lista' = [lista EXCEPT !["EXEC"] = Sin(@, p), !["READY"] = Append(@, p)]
  PROVE  /\ \A j \in Colas : SinRepetir(lista'[j])
         /\ \A q, j : j \in Colas =>
              (Contains(lista'[j], q) <=>
                 \/ Contains(lista[j], q) /\ ~(j = "EXEC" /\ q = p)
                 \/ j = "READY" /\ q = p)
<1> PICK l, k : l = "EXEC" /\ k = "READY"
  OBVIOUS
<1>1. lista' = [lista EXCEPT ![l] = Sin(@, p), ![k] = Append(@, p)]
  OBVIOUS
<1>2. l \in Colas /\ k \in Colas \ {l} /\ EnLista(p, l) /\ ~EnLista(p, k)
  BY DEF Colas
<1>3. /\ \A j \in Colas : SinRepetir(lista'[j])
      /\ \A q, j : j \in Colas =>
           (Contains(lista'[j], q) <=>
              \/ Contains(lista[j], q) /\ ~(j = l /\ q = p)
              \/ j = k /\ q = p)
  BY ONLY Tipos, Ordenadas, p \in Pids, <1>1, <1>2, ListaMuda
<1> QED  BY <1>3

-----------------------------------------------------------------------------
(* Changes of the threads *)

LEMMA PasaHilo ==
  ASSUME Tipos, NEW t \in Hilos, NEW h, Pasa(t, h)
  PROVE  /\ hilos'[t] = h
         /\ \A u \in Hilos \ {t} : hilos'[u] = hilos[u]
         /\ LosDemas(t)
  BY TiposDeListas DEF Pasa, LosDemas

LEMMA LanzaHilo ==
  ASSUME Tipos, NEW n, Lanza(n)
  PROVE  \E d \in Hilos : /\ hilos[d].pc = "reposo"
                          /\ hilos'[d] = n
                          /\ \A u \in Hilos \ {d} : hilos'[u] = hilos[u]
                          /\ LosDemas(d)
  BY TiposDeListas DEF Lanza, LosDemas, Hilos

LEMMA PasaYLanzaHilo ==
  ASSUME Tipos, NEW t \in Hilos, NEW h, NEW n, hilos[t].pc # "reposo",
         PasaYLanza(t, h, n), n.pc \in SinProceso, n.p = Nadie, n.tiene = {}
  PROVE  hilos'[t] = h /\ LosDemas(t)
  BY TiposDeListas DEF PasaYLanza, LosDemas, Hilos

LEMMA UbicaLibre ==
  ASSUME NEW t \in Hilos, NEW h, hilos'[t] = h,
         h.pc \in SinProceso, h.p = Nadie,
         h.tiene \intersect {"EXIT", "READY_PRIORIDAD"} = {}
  PROVE  Ubica(t)'
<1>1. h.pc \notin ConProceso
  BY PcsAparte
<1>2. /\ h.pc \notin EnServicio /\ h.pc \notin EnEspera /\ h.pc \notin EnVuelta
      /\ h.pc \notin {"nuevo", "plp_ready", "motivo", "liberar",
                      "liberar_suma", "avisar", "transferir", "agregar",
                      "buscar", "colgado"}
  BY <1>1 DEF ConProceso, EnServicio, EnEspera
<1> QED  BY <1>1, <1>2 DEF Ubica

LEMMA ReposoLibre ==
  /\ Reposo.pc \in SinProceso /\ Reposo.p = Nadie /\ Reposo.tiene = {}
  /\ Reposo.pc = "reposo"
  BY DEF Reposo, SinProceso

LEMMA PcpLibre ==
  ASSUME NEW t, NEW ms
  PROVE  /\ LlamaPcp(t, ms).pc \in SinProceso /\ LlamaPcp(t, ms).p = Nadie
         /\ LlamaPcp(t, ms).tiene = ms /\ LlamaPcp(t, ms).pc = "pcp"
  BY DEF LlamaPcp, Reposo, SinProceso

LEMMA ArrancaCampos ==
  ASSUME NEW pc, NEW p, NEW r
  PROVE  /\ Arranca(pc, p, r).pc = pc /\ Arranca(pc, p, r).p = p
         /\ Arranca(pc, p, r).tiene = {} /\ Arranca(pc, p, r).r = r
  BY DEF Arranca, Reposo

\* The thread returns or goes on to replan: it lets its process go.
LEMMA VuelveLibre ==
  ASSUME Tipos, NEW t \in Hilos, Vuelve(t)
  PROVE  /\ LosDemas(t) /\ hilos'[t].p = Nadie /\ Ubica(t)'
         /\ hilos'[t].pc = "reposo"
  BY PasaHilo, ReposoLibre, UbicaLibre DEF Vuelve

LEMMA LlamaPcpLibre ==
  ASSUME Tipos, NEW t \in Hilos, NEW ms, Pasa(t, LlamaPcp(t, ms)),
         ms \intersect {"EXIT", "READY_PRIORIDAD"} = {}
  PROVE  /\ LosDemas(t) /\ hilos'[t].p = Nadie /\ Ubica(t)'
         /\ hilos'[t].pc = "pcp"
  BY PasaHilo, PcpLibre, UbicaLibre

-----------------------------------------------------------------------------
(* Long-term scheduler *)

LEMMA IniciarProcesoVida ==
  ASSUME Tipos, Vida, NEW p \in Pids, IniciarProceso(p)
  PROVE  Vida'
<1> PICK d \in Hilos : /\ hilos[d].pc = "reposo"
                       /\ hilos'[d] = Arranca("nuevo", p, Nadie)
                       /\ LosDemas(d)
  BY LanzaHilo DEF IniciarProceso
<1>1. /\ estado[p] = "NINGUNO" /\ \A u \in Hilos : hilos[u].pc # "nuevo"
      /\ UNCHANGED <<lista, estado, cola_recurso, io>>
  BY DEF IniciarProceso
<1>2. \A l \in Colas : ~EnLista(p, l)
  BY <1>1 DEF Vida, Lugar, Colas
<1>3. \A u \in Hilos : hilos[u].p # p
  <2> SUFFICES ASSUME NEW u \in Hilos, hilos[u].p = p PROVE FALSE
    OBVIOUS
  <2>1. Ubica(u) /\ "EXEC" \in Colas /\ "BLOCKED" \in Colas
    BY DEF Vida, Colas
  <2>2. hilos[u].pc \in ConProceso
    BY <2>1, NadieNoEsPid DEF Ubica
  <2>3. hilos[u].pc \notin EnServicio \union EnEspera \union EnVuelta
    BY <1>1, <1>2, <2>1 DEF Ubica
  <2>4. hilos[u].pc \in {"plp_ready", "liberar", "liberar_suma", "avisar",
                         "transferir", "agregar", "colgado"}
    BY <1>1, <2>2, <2>3 DEF ConProceso
  <2> QED  BY <1>1, <2>1, <2>4 DEF Ubica
<1>4. ~EnCola(p)
  BY <1>2 DEF Vida, Lugar, Colas
<1>5. \A q \in Pids : Quieto(q)
  BY <1>1 DEF Quieto
<1>6. Ordenadas'
  BY <1>1 DEF Vida, Ordenadas
<1>7. /\ hilos'[d].pc = "nuevo" /\ hilos'[d].p = p /\ hilos'[d].tiene = {}
  BY ArrancaCampos
<1>8. Ubica(d)'
  BY <1>1, <1>7 DEF Ubica, SinProceso, ConProceso, EnServicio, EnEspera, EnVuelta
<1>9. Lugar(p)'
  <2>1. ~EnCola(p)'
    BY <1>1, <1>4 DEF EnCola, EnIo
  <2>2. \A u \in Hilos \ {d} : hilos'[u].p # p
    BY <1>3, NadieNoEsPid DEF LosDemas
  <2>3. /\ \A r \in Recursos : ~Contains(cola_recurso'[r], p)
        /\ \A i \in Interfaces : ~EnIo(p, i)'
    BY <2>1 DEF EnCola
  <2>4. UnaFicha(p)'
    BY <2>1, <2>2, <2>3 DEF UnaFicha, EnIo
  <2>5. \A l \in Colas : ~EnLista(p, l)'
    BY <1>1, <1>2 DEF EnLista
  <2> QED  BY <2>1, <2>4, <2>5 DEF Lugar
<1> QED  BY <1>3, <1>5, <1>6, <1>7, <1>8, <1>9, PasoDe

LEMMA NuevoVida ==
  ASSUME Tipos, Vida, NEW t \in Hilos, Nuevo(t)
  PROVE  Vida'
<1> PICK p : p = hilos[t].p
  OBVIOUS
<1>1. /\ hilos[t].pc = "nuevo" /\ Pasa(t, Arranca("plp", Nadie, Nadie))
      /\ lista' = [lista EXCEPT !["NEW"] = Append(@, p)]
      /\ estado' = [estado EXCEPT ![p] = "NEW"]
      /\ UNCHANGED <<cola_recurso, io>> /\ "NEW" \in Colas
  BY DEF Nuevo, EnPc, Colas
<1>2. p \in Pids /\ estado[p] = "NINGUNO"
  BY <1>1 DEF Vida, Ubica, SinProceso
<1>3. \A l \in Colas : ~EnLista(p, l)
  BY <1>2 DEF Vida, Lugar, Colas
<1>4. /\ \A k \in Colas : SinRepetir(lista'[k])
      /\ \A q, k : k \in Colas =>
           (Contains(lista'[k], q) <=>
              Contains(lista[k], q) \/ (k = "NEW" /\ q = p))
  BY <1>1, <1>2, <1>3, ListaAgrega DEF Vida
<1>5. /\ \A q \in Pids \ {p} : estado'[q] = estado[q]
      /\ estado'[p] = "NEW"
  BY <1>1, <1>2, TiposDeListas
<1>6. LosDemas(t) /\ hilos'[t].p = Nadie /\ Ubica(t)'
  <2>1. /\ Arranca("plp", Nadie, Nadie).pc \in SinProceso
        /\ Arranca("plp", Nadie, Nadie).p = Nadie
        /\ Arranca("plp", Nadie, Nadie).tiene = {}
    BY ArrancaCampos DEF SinProceso
  <2> QED  BY <1>1, <2>1, PasaHilo, UbicaLibre
<1>7. Ordenadas'
  BY <1>1, <1>4 DEF Vida, Ordenadas
<1>8. \A q \in Pids \ {p} : \A l \in Colas : EnLista(q, l)' <=> EnLista(q, l)
  BY <1>4 DEF EnLista
<1>9. \A l \in Colas : EnLista(p, l)' => estado'[p] = l
  BY <1>3, <1>4, <1>5 DEF EnLista
<1> QED
  BY <1>1, <1>2, <1>5, <1>6, <1>7, <1>8, <1>9, PasoPropio

LEMMA TomarNewVida ==
  ASSUME Tipos, Vida, NEW t \in Hilos, TomarNew(t)
  PROVE  Vida'
<1> PICK h : h = [hilos[t] EXCEPT !.pc = "plp_cupo", !.tiene = {"NEW"}]
  OBVIOUS
<1>1. /\ hilos[t].pc = "plp" /\ Pasa(t, h)
      /\ UNCHANGED <<lista, estado, cola_recurso, io>>
  BY DEF TomarNew, EnPc
<1>2. hilos[t].p = Nadie
  BY <1>1, PcsAparte DEF Vida, Ubica, SinProceso
<1>3. h.pc = "plp_cupo" /\ h.tiene = {"NEW"} /\ h.p = Nadie
  BY <1>2, TiposDeListas DEF Hilo
<1>4. LosDemas(t) /\ hilos'[t] = h
  BY <1>1, PasaHilo
<1>5. Ubica(t)'
  BY <1>3, <1>4, UbicaLibre DEF SinProceso
<1> QED  BY <1>1, <1>3, <1>4, <1>5, PasoQuieto

\* A process that waits in a list other than EXEC and BLOCKED: nobody has it.
LEMMA DeLista ==
  ASSUME Vida, NEW p \in Pids, NEW l \in {"NEW", "READY", "READY_PRIORIDAD"},
         EnLista(p, l)
  PROVE  /\ \A u \in Hilos : hilos[u].p # p
         /\ ~EnCola(p) /\ ~Suelto(p) /\ estado[p] = l
<1>1. estado[p] = l /\ ~Suelto(p) /\ ~EnLista(p, "EXEC") /\ ~EnLista(p, "BLOCKED")
  BY DEF Vida, Lugar, Suelto, Colas
<1>2. ~EnCola(p)
  BY <1>1 DEF Vida, Lugar
<1>3. ASSUME NEW u \in Hilos, hilos[u].p = p PROVE FALSE
  <2>1. Ubica(u)
    BY DEF Vida
  <2>2. hilos[u].pc \in ConProceso
    BY <2>1, <1>3, NadieNoEsPid DEF Ubica
  <2>3. hilos[u].pc \notin EnServicio \union EnEspera \union EnVuelta
    BY <1>1, <1>3, <2>1 DEF Ubica
  <2>4. hilos[u].pc \in {"nuevo", "plp_ready", "liberar", "liberar_suma",
                         "avisar", "transferir", "agregar", "colgado"}
    BY <2>2, <2>3 DEF ConProceso
  <2> QED  BY <1>1, <1>3, <2>1, <2>4 DEF Ubica
<1> QED  BY <1>1, <1>2, <1>3

LEMMA TomarCupoVida ==
  ASSUME Tipos, Vida, NEW t \in Hilos, TomarCupo(t)
  PROVE  Vida'
<1>1. hilos[t].pc = "plp_cupo" /\ UNCHANGED <<estado, cola_recurso, io>>
  BY DEF TomarCupo, EnPc
<1>2. hilos[t].p = Nadie
  BY <1>1, PcsAparte DEF Vida, Ubica, SinProceso
<1>3. CASE lista["NEW"] = <<>>
  <2>1. Pasa(t, LlamaPcp(t, {})) /\ lista' = lista
    BY <1>3 DEF TomarCupo
  <2> QED  BY <1>1, <2>1, LlamaPcpLibre, PasoQuieto
<1>4. CASE lista["NEW"] # <<>>
  <2> PICK p : p = Head(lista["NEW"])
    OBVIOUS
  <2> PICK h : h = [hilos[t] EXCEPT !.pc = "plp_ready", !.p = p]
    OBVIOUS
  <2>1. lista' = [lista EXCEPT !["NEW"] = Tail(@)] /\ Pasa(t, h)
        /\ "NEW" \in Colas
    BY <1>4 DEF TomarCupo, Colas
  <2>2. /\ \A k \in Colas : SinRepetir(lista'[k])
        /\ p \in Pids /\ EnLista(p, "NEW")
        /\ \A q, k : k \in Colas =>
             (Contains(lista'[k], q) <=>
                Contains(lista[k], q) /\ ~(k = "NEW" /\ q = p))
    BY <1>4, <2>1, ListaPrimero DEF Vida
  <2>3. (\A u \in Hilos : hilos[u].p # p) /\ ~EnCola(p) /\ estado[p] = "NEW"
    BY <2>2, DeLista
  <2>4. h.pc = "plp_ready" /\ h.p = p /\ h.tiene = hilos[t].tiene
    BY TiposDeListas DEF Hilo
  <2>5. LosDemas(t) /\ hilos'[t] = h
    BY <2>1, PasaHilo
  <2>6. \A l \in Colas : ~EnLista(p, l)'
    BY <2>2, <2>3 DEF Vida, Lugar, EnLista
  <2>7. Ubica(t)'
    <3>1. Suelto(p)'
      BY <2>6 DEF Suelto
    <3>2. h.tiene \intersect {"EXIT", "READY_PRIORIDAD"} = {}
      BY <2>4 DEF Vida, Ubica
    <3> QED  BY <1>1, <2>2, <2>3, <2>4, <2>5, <3>1, <3>2
      DEF Ubica, SinProceso, ConProceso, EnServicio, EnEspera, EnVuelta
  <2>8. \A q \in Pids \ {p} : Quieto(q)
    BY <1>1, <2>2 DEF Quieto
  <2>9. Ordenadas'
    BY <1>1, <2>2 DEF Vida, Ordenadas
  <2>10. Lugar(p)'
    <3>1. ~EnCola(p)'
      BY <1>1, <2>3 DEF EnCola, EnIo
    <3>2. \A u \in Hilos \ {t} : hilos'[u].p # p
      BY <2>2, <2>3, <2>5, NadieNoEsPid DEF LosDemas
    <3>3. /\ \A r \in Recursos : ~Contains(cola_recurso'[r], p)
          /\ \A i \in Interfaces : ~EnIo(p, i)'
      BY <3>1 DEF EnCola
    <3>4. UnaFicha(p)'
      BY <3>1, <3>2, <3>3 DEF UnaFicha, EnIo
    <3> QED  BY <2>6, <3>1, <3>4 DEF Lugar
  <2> QED  BY <2>2, <2>3, <2>4, <2>5, <2>7, <2>8, <2>9, <2>10, PasoDe
<1> QED  BY <1>3, <1>4

LEMMA PasarAReadyVida ==
  ASSUME Tipos, Vida, NEW t \in Hilos, PasarAReady(t)
  PROVE  Vida'
<1> PICK p : p = hilos[t].p
  OBVIOUS
<1>1. /\ hilos[t].pc = "plp_ready" /\ Pasa(t, LlamaPcp(t, {}))
      /\ lista' = [lista EXCEPT !["READY"] = Append(@, p)]
      /\ estado' = [estado EXCEPT ![p] = "READY"]
      /\ UNCHANGED <<cola_recurso, io>> /\ "READY" \in Colas
  BY DEF PasarAReady, EnPc, Colas
<1>2. p \in Pids /\ Suelto(p)
  BY <1>1 DEF Vida, Ubica, SinProceso
<1>4. /\ \A k \in Colas : SinRepetir(lista'[k])
      /\ \A q, k : k \in Colas =>
           (Contains(lista'[k], q) <=>
              Contains(lista[k], q) \/ (k = "READY" /\ q = p))
  BY <1>1, <1>2, ListaAgrega DEF Vida, Suelto
<1>5. /\ \A q \in Pids \ {p} : estado'[q] = estado[q]
      /\ estado'[p] = "READY"
  BY <1>1, <1>2, TiposDeListas
<1>6. LosDemas(t) /\ hilos'[t].p = Nadie /\ Ubica(t)'
  BY <1>1, LlamaPcpLibre
<1>7. Ordenadas'
  BY <1>1, <1>4 DEF Vida, Ordenadas
<1> QED  BY <1>1, <1>2, <1>4, <1>5, <1>6, <1>7, PasoPropio DEF EnLista, Suelto

LEMMA BuscarVida ==
  ASSUME Tipos, Vida, NEW t \in Hilos, Buscar(t)
  PROVE  Vida'
<1> PICK p, l : p = hilos[t].p /\ l = hilos[t].l
  OBVIOUS
<1>1. /\ hilos[t].pc = "buscar" /\ l \in DOMAIN Siguiente
      /\ UNCHANGED <<estado, cola_recurso, io>>
  BY DEF Tipos, HilosBien, Argumentos, Buscar, EnPc
<1>2. /\ p \in Pids /\ EnLista(p, "BLOCKED") /\ hilos[t].op = "fin"
      /\ hilos[t].tiene \intersect {"EXIT", "READY_PRIORIDAD"} = {}
  BY <1>1 DEF Vida, Ubica, SinProceso, EnEspera
<1>3. /\ estado[p] = "BLOCKED" /\ l \in Colas /\ "BLOCKED" \in Colas
      /\ EnLista(p, l) => l = "BLOCKED"
  BY <1>1, <1>2 DEF Vida, Lugar, Colas, Siguiente
<1>4. CASE EnLista(p, l)
  <2> PICK h : h = [hilos[t] EXCEPT !.pc = "io_siguiente", !.p = p, !.l = ""]
    OBVIOUS
  <2>1. Encontrado(t, p) /\ l = "BLOCKED" /\ lista' = [lista EXCEPT ![l] = Sin(@, p)]
    BY <1>3, <1>4 DEF Buscar
  <2>2. Pasa(t, h)
    BY <1>2, <2>1 DEF Encontrado
  <2>3. h.pc = "io_siguiente" /\ h.p = p /\ h.tiene = hilos[t].tiene
    BY TiposDeListas DEF Hilo
  <2>4. /\ \A k \in Colas : SinRepetir(lista'[k])
        /\ \A q, k : k \in Colas =>
             (Contains(lista'[k], q) <=> Contains(lista[k], q) /\ ~(k = l /\ q = p))
    BY <1>2, <1>3, <1>4, <2>1, ListaQuita DEF Vida
  <2>5. LosDemas(t) /\ hilos'[t] = h
    BY <2>2, PasaHilo
  <2>6. \A k \in Colas : ~EnLista(p, k)'
    <3>1. \A k \in Colas : Contains(lista[k], p) => k = "BLOCKED"
      BY <1>2, <1>3 DEF Vida, Lugar, EnLista
    <3> QED  BY <2>1, <2>4, <3>1 DEF EnLista
  <2>7. Ubica(t)'
    <3>1. Suelto(p)'
      BY <2>6 DEF Suelto
    <3> QED  BY <1>1, <1>2, <1>3, <2>3, <2>5, <3>1
      DEF Ubica, SinProceso, ConProceso, EnServicio, EnEspera, EnVuelta
  <2>8. Ordenadas'
    BY <1>1, <2>4 DEF Vida, Ordenadas
  <2> QED  BY <1>1, <1>2, <2>3, <2>4, <2>5, <2>6, <2>7, <2>8, PasoPropio DEF EnLista
<1>5. CASE ~EnLista(p, l)
  <2> PICK h : h = [hilos[t] EXCEPT !.l = Siguiente[l]]
    OBVIOUS
  <2>1. Siguiente[l] # ""
    <3>1. l # "BLOCKED"
      BY <1>2, <1>5
    <3>2. DOMAIN Siguiente = {"NEW", "READY", "EXEC", "EXIT", "BLOCKED"}
      BY DEF Siguiente
    <3>3. /\ Siguiente["NEW"] = "READY" /\ Siguiente["READY"] = "EXEC"
          /\ Siguiente["EXEC"] = "EXIT" /\ Siguiente["EXIT"] = "BLOCKED"
      BY DEF Siguiente
    <3> QED  BY <1>1, <3>1, <3>2, <3>3
  <2>2. Pasa(t, h) /\ lista' = lista
    BY <1>5, <2>1 DEF Buscar
  <2>3. h.pc = "buscar" /\ h.p = p /\ h.op = "fin" /\ h.tiene = hilos[t].tiene
    BY <1>1, <1>2, TiposDeListas DEF Hilo
  <2>4. LosDemas(t) /\ hilos'[t] = h
    BY <2>2, PasaHilo
  <2>5. Ubica(t)'
    BY <1>2, <2>2, <2>3, <2>4
    DEF Ubica, EnLista, SinProceso, ConProceso, EnServicio, EnEspera, EnVuelta
  <2> QED  BY <1>1, <2>2, <2>3, <2>4, <2>5, PasoQuieto
<1> QED  BY <1>4, <1>5

LEMMA SalirDeExecVida ==
  ASSUME Tipos, Vida, NEW t \in Hilos, SalirDeExec(t)
  PROVE  Vida' /\ hilos[t].pc = "plp_exit"
<1> PICK p : p = hilos[t].p
  OBVIOUS
<1>1. PICK op \in {"plp_exit", "desalojar"} :
        /\ hilos[t].pc = op /\ EnLista(p, "EXEC")
        /\ lista' = [lista EXCEPT !["EXEC"] = Sin(@, p)]
        /\ Terminar(t, op, "EXEC", recursos_pcb[p])
  BY DEF SalirDeExec, EnPc
<1>2. op = "plp_exit" /\ p \in Pids
  BY <1>1
  DEF Vida, Ubica, SinProceso, ConProceso, EnServicio, EnEspera, EnVuelta
<1>3. /\ UNCHANGED <<estado, cola_recurso, io>> /\ "EXEC" \in Colas
      /\ estado[p] = "EXEC"
  BY <1>1, <1>2 DEF SalirDeExec, Vida, Lugar, Colas
<1> PICK h : h = [hilos[t] EXCEPT
                    !.pc = IF recursos_pcb[p] = <<>> THEN "avisar" ELSE "liberar",
                    !.op = op, !.rs = recursos_pcb[p], !.tiene = {"EXEC"}]
  OBVIOUS
<1>4. /\ h.pc \in {"liberar", "avisar"} /\ h.op = "plp_exit" /\ h.p = p
      /\ h.tiene = {"EXEC"}
  BY <1>2, TiposDeListas DEF Hilo
<1>5. LosDemas(t) /\ hilos'[t] = h
  BY <1>1, PasaHilo DEF Terminar
<1>6. /\ \A k \in Colas : SinRepetir(lista'[k])
      /\ \A q, k : k \in Colas =>
           (Contains(lista'[k], q) <=> Contains(lista[k], q) /\ ~(k = "EXEC" /\ q = p))
  BY <1>1, <1>2, <1>3, ListaQuita DEF Vida
<1>7. \A k \in Colas : ~EnLista(p, k)'
  BY <1>2, <1>3, <1>6 DEF Vida, Lugar, EnLista
<1>8. Ubica(t)'
  <2>1. Suelto(p)'
    BY <1>7 DEF Suelto
  <2> QED  BY <1>2, <1>3, <1>4, <1>5, <2>1
    DEF Ubica, SinProceso, ConProceso, EnServicio, EnEspera, EnVuelta
<1>9. Ordenadas'
  BY <1>3, <1>6 DEF Vida, Ordenadas
<1> QED
  BY <1>1, <1>2, <1>3, <1>4, <1>5, <1>6, <1>7, <1>8, <1>9, PasoPropio DEF EnLista

LEMMA LiberarRecursoVida ==
  ASSUME Tipos, Vida, NEW t \in Hilos, LiberarRecurso(t)
  PROVE  Vida'
<1> PICK p, r : p = hilos[t].p /\ r = Head(hilos[t].rs)
  OBVIOUS
<1>1. hilos[t].pc = "liberar" /\ UNCHANGED <<lista, estado, io>>
  BY DEF LiberarRecurso, EnPc
<1>2. /\ p \in Pids /\ hilos[t].op = "plp_exit" /\ estado[p] = "EXEC" /\ Suelto(p)
      /\ hilos[t].tiene \intersect {"EXIT", "READY_PRIORIDAD"} = {}
  BY <1>1 DEF Vida, Ubica, SinProceso
<1>3. r \in Recursos
  <2>1. hilos[t].rs \in Seq(Recursos) /\ hilos[t].rs # <<>>
    BY <1>1 DEF Tipos, HilosBien, Argumentos, Hilo
  <2> QED  BY <2>1
<1>4. ~Contains(cola_recurso[r], p)
  BY <1>2, <1>3, DeHilo DEF EnCola
<1> PICK h : h = [hilos[t] EXCEPT !.pc = "liberar_suma", !.n = instancias[r],
                                  !.tiene = hilos[t].tiene \union {r}]
  OBVIOUS
<1>5. Pasa(t, h) /\ cola_recurso' = cola_recurso
  BY <1>4 DEF LiberarRecurso
<1>6. LosDemas(t) /\ hilos'[t] = h
  BY <1>5, PasaHilo
<1>7. /\ h.pc = "liberar_suma" /\ h.op = "plp_exit" /\ h.p = p
      /\ h.tiene = hilos[t].tiene \union {r}
  BY <1>2, TiposDeListas DEF Hilo
<1>8. Ubica(t)'
  <2>1. Suelto(p)'
    BY <1>1, <1>2 DEF Suelto, EnLista
  <2>2. h.tiene \intersect {"EXIT", "READY_PRIORIDAD"} = {}
    BY <1>2, <1>3, <1>7, KernelAssumption DEF Colas
  <2> QED  BY <1>1, <1>2, <1>6, <1>7, <2>1, <2>2
    DEF Ubica, SinProceso, ConProceso, EnServicio, EnEspera, EnVuelta
<1> QED  BY <1>1, <1>5, <1>6, <1>7, <1>8, PasoQuieto

\* A thread that ends a process keeps it, whatever resource it is at.
LEMMA OtroRecursoLibera ==
  ASSUME Tipos, NEW t \in Hilos, hilos[t].rs # <<>>, NEW m
  PROVE  LET h == [OtroRecurso(hilos[t]) EXCEPT !.n = 0, !.tiene = @ \ {m}] IN
         /\ h.pc \in {"liberar", "avisar"} /\ h.op = hilos[t].op
         /\ h.p = hilos[t].p /\ h.tiene \subseteq hilos[t].tiene
  BY TiposDeListas DEF OtroRecurso, Hilo

LEMMA LiberarSumarVida ==
  ASSUME Tipos, Vida, NEW t \in Hilos, LiberarSumar(t)
  PROVE  Vida'
<1> PICK p, r : p = hilos[t].p /\ r = Head(hilos[t].rs)
  OBVIOUS
<1> PICK h : h = [OtroRecurso(hilos[t]) EXCEPT !.n = 0, !.tiene = @ \ {r}]
  OBVIOUS
<1>1. /\ hilos[t].pc = "liberar_suma" /\ UNCHANGED <<lista, estado, io, cola_recurso>>
      /\ PasaYLanza(t, h, Arranca("asignar", Nadie, r))
  BY DEF LiberarSumar, EnPc
<1>2. /\ p \in Pids /\ hilos[t].op = "plp_exit" /\ estado[p] = "EXEC" /\ Suelto(p)
      /\ hilos[t].tiene \intersect {"EXIT", "READY_PRIORIDAD"} = {}
  BY <1>1 DEF Vida, Ubica, SinProceso
<1>3. hilos[t].rs # <<>>
  BY <1>1 DEF Tipos, HilosBien, Argumentos
<1>4. LosDemas(t) /\ hilos'[t] = h
  BY <1>1, PasaYLanzaHilo, ArrancaCampos DEF SinProceso
<1>5. /\ h.pc \in {"liberar", "avisar"} /\ h.op = "plp_exit" /\ h.p = p
      /\ h.tiene \subseteq hilos[t].tiene
  BY <1>2, <1>3, OtroRecursoLibera
<1>6. Ubica(t)'
  <2>1. Suelto(p)'
    BY <1>1, <1>2 DEF Suelto, EnLista
  <2> QED  BY <1>1, <1>2, <1>4, <1>5, <2>1
    DEF Ubica, SinProceso, ConProceso, EnServicio, EnEspera, EnVuelta
<1> QED  BY <1>1, <1>4, <1>5, <1>6, PasoQuieto

LEMMA AvisarMemoriaVida ==
  ASSUME Tipos, Vida, NEW t \in Hilos, AvisarMemoria(t)
  PROVE  Vida'
<1> PICK p : p = hilos[t].p
  OBVIOUS
<1> PICK h : h = [hilos[t] EXCEPT !.pc = "transferir", !.l = "EXIT"]
  OBVIOUS
<1>1. /\ hilos[t].pc = "avisar" /\ Pasa(t, h)
      /\ UNCHANGED <<lista, estado, cola_recurso, io>>
  BY DEF AvisarMemoria, EnPc
<1>2. /\ p \in Pids /\ hilos[t].op = "plp_exit" /\ estado[p] = "EXEC" /\ Suelto(p)
      /\ hilos[t].tiene \intersect {"EXIT", "READY_PRIORIDAD"} = {}
  BY <1>1 DEF Vida, Ubica, SinProceso
<1>3. /\ h.pc = "transferir" /\ h.op = "plp_exit" /\ h.p = p /\ h.l = "EXIT"
      /\ h.tiene = hilos[t].tiene
  BY <1>2, TiposDeListas DEF Hilo
<1>4. LosDemas(t) /\ hilos'[t] = h
  BY <1>1, PasaHilo
<1>5. Ubica(t)'
  <2>1. Suelto(p)'
    BY <1>1, <1>2 DEF Suelto, EnLista
  <2> QED  BY <1>1, <1>2, <1>3, <1>4, <2>1
    DEF Ubica, SinProceso, ConProceso, EnServicio, EnEspera, EnVuelta
<1> QED  BY <1>1, <1>3, <1>4, <1>5, PasoQuieto

\* What a transfer finds: only the mutexes of BLOCKED and READY may be held.
LEMMA AlTransferir ==
  ASSUME Tipos, Vida, NEW t \in Hilos, Transferir(t)
  PROVE  /\ hilos[t].pc = "transferir" /\ hilos[t].p \in Pids
         /\ Suelto(hilos[t].p)
         /\ \/ /\ hilos[t].l = "EXIT" /\ hilos[t].op = "plp_exit"
               /\ estado[hilos[t].p] = "EXEC"
            \/ hilos[t].l = "BLOCKED" /\ estado[hilos[t].p] = "EXEC"
            \/ /\ hilos[t].l \in {"READY", "READY_PRIORIDAD"}
               /\ estado[hilos[t].p] = "BLOCKED"
         /\ hilos[t].l \notin {"BLOCKED", "READY"} => Sigue(t, "agregar")
         /\ Sigue(t, "agregar") \/ Sigue(t, "colgado")
<1>1. hilos[t].pc = "transferir"
  BY DEF Transferir, EnPc
<1>2. /\ hilos[t].p \in Pids /\ Suelto(hilos[t].p)
      /\ \/ /\ hilos[t].l = "EXIT" /\ hilos[t].op = "plp_exit"
            /\ estado[hilos[t].p] = "EXEC"
         \/ hilos[t].l = "BLOCKED" /\ estado[hilos[t].p] = "EXEC"
         \/ /\ hilos[t].l \in {"READY", "READY_PRIORIDAD"}
            /\ estado[hilos[t].p] = "BLOCKED"
  BY <1>1 DEF Vida, Ubica, SinProceso
<1>3. \A u \in Hilos : hilos[u].tiene \intersect {"EXIT", "READY_PRIORIDAD"} = {}
  BY DEF Vida, Ubica
<1>4. hilos[t].l \notin {"BLOCKED", "READY"} => Desocupado(hilos[t].l)
  BY <1>2, <1>3 DEF Desocupado
<1> QED  BY <1>1, <1>2, <1>4 DEF Transferir

LEMMA TransferirVida ==
  ASSUME Tipos, Vida, NEW t \in Hilos, Transferir(t)
  PROVE  Vida'
<1> PICK p, l : p = hilos[t].p /\ l = hilos[t].l
  OBVIOUS
<1>1. /\ p \in Pids /\ Suelto(p)
      /\ \/ l = "EXIT" /\ hilos[t].op = "plp_exit"
         \/ l \in {"BLOCKED", "READY", "READY_PRIORIDAD"}
      /\ \/ Sigue(t, "agregar")
         \/ l \in {"BLOCKED", "READY"} /\ Sigue(t, "colgado")
  BY AlTransferir
<1>2. /\ estado' = [estado EXCEPT ![p] = l]
      /\ UNCHANGED <<lista, cola_recurso, io>>
  BY DEF Transferir
<1>3. /\ \A q \in Pids \ {p} : estado'[q] = estado[q]
      /\ estado'[p] = l
  BY <1>1, <1>2, TiposDeListas
<1> PICK h, pc : h = [hilos[t] EXCEPT !.pc = pc] /\ Pasa(t, h)
                 /\ (pc = "agregar" \/ (pc = "colgado" /\ l \in {"BLOCKED", "READY"}))
  BY <1>1 DEF Sigue
<1>4. /\ h.pc = pc /\ h.p = p /\ h.l = l /\ h.op = hilos[t].op
      /\ h.tiene = hilos[t].tiene
  BY TiposDeListas DEF Hilo
<1>5. LosDemas(t) /\ hilos'[t] = h
  BY PasaHilo
<1>6. Suelto(p)'
  BY <1>1, <1>2 DEF Suelto, EnLista
<1>7. Ubica(t)'
  <2>1. h.tiene \intersect {"EXIT", "READY_PRIORIDAD"} = {}
    BY <1>4 DEF Vida, Ubica
  <2>2. CASE pc = "agregar"
    BY <1>1, <1>3, <1>4, <1>5, <1>6, <2>1, <2>2
    DEF Ubica, SinProceso, ConProceso, EnServicio, EnEspera, EnVuelta
  <2>3. CASE pc = "colgado"
    BY <1>1, <1>3, <1>4, <1>5, <1>6, <2>1, <2>3
    DEF Ubica, SinProceso, ConProceso, EnServicio, EnEspera, EnVuelta
  <2> QED  BY <2>2, <2>3
<1>8. Ordenadas'
  BY <1>2 DEF Vida, Ordenadas
<1> QED
  BY <1>1, <1>2, <1>3, <1>4, <1>5, <1>6, <1>7, <1>8, PasoPropio DEF EnLista, Suelto

\* The end of a transfer to list l.
LEMMA AgregarVida ==
  ASSUME Tipos, Vida, NEW t \in Hilos, NEW l \in Colas, NEW p \in Pids,
         hilos[t].p = p, Agregar(t, l),
         UNCHANGED <<estado, cola_recurso, io>>,
         LosDemas(t), hilos'[t].p \in {p, Nadie},
         EnLista(p, l)' => Ubica(t)'
  PROVE  Vida'
<1>1. /\ hilos[t].pc = "agregar" /\ hilos[t].l = l
      /\ lista' = [lista EXCEPT ![l] = Append(@, p)]
  BY DEF Agregar, EnPc
<1>2. Suelto(p) /\ estado[p] = l
  BY <1>1 DEF Vida, Ubica
<1>3. /\ \A k \in Colas : SinRepetir(lista'[k])
      /\ \A q, k : k \in Colas =>
           (Contains(lista'[k], q) <=>
              Contains(lista[k], q) \/ (k = l /\ q = p))
  <2>1. Ordenadas /\ ~EnLista(p, l)
    BY <1>2 DEF Vida, Suelto
  <2> QED  BY <1>1, <2>1, ListaAgrega
<1>4. Ubica(t)'
  <2>1. EnLista(p, l)'
    BY <1>3 DEF EnLista
  <2> QED  BY <2>1
<1>5. Ordenadas'
  BY <1>3 DEF Vida, Ordenadas
<1>6. \A k \in Colas : EnLista(p, k)' => estado'[p] = k
  BY <1>2, <1>3 DEF EnLista, Suelto
<1>7. \A q \in Pids \ {p} :
        /\ estado'[q] = estado[q]
        /\ \A k \in Colas : EnLista(q, k)' <=> EnLista(q, k)
  BY <1>3 DEF EnLista
<1> QED  BY <1>4, <1>5, <1>6, <1>7, PasoPropio

LEMMA AgregarAExitVida ==
  ASSUME Tipos, Vida, NEW t \in Hilos, AgregarAExit(t)
  PROVE  Vida' /\ hilos[t].op = "plp_exit"
<1> PICK p : p = hilos[t].p
  OBVIOUS
<1>1. /\ hilos[t].pc = "agregar" /\ hilos[t].l = "EXIT" /\ "EXIT" \in Colas
      /\ Agregar(t, "EXIT")
      /\ UNCHANGED <<estado, cola_recurso, io>>
  BY DEF AgregarAExit, Agregar, EnPc, Colas
<1>2. p \in Pids /\ hilos[t].op = "plp_exit"
  BY <1>1 DEF Vida, Ubica, SinProceso
<1>3. Pasa(t, LlamaPcp(t, {}))
  BY <1>2 DEF AgregarAExit
<1>4. LosDemas(t) /\ hilos'[t].p = Nadie /\ Ubica(t)'
  BY <1>3, LlamaPcpLibre
<1> QED  BY <1>1, <1>2, <1>4, AgregarVida

LEMMA CaeVida ==
  ASSUME Vida, NEW c, Cae(c)
  PROVE  Vida'
  BY PasoAjeno DEF Cae

LEMMA SinSegunEstado ==
  ASSUME Vida, NEW t \in Hilos
  PROVE  hilos[t].pc # "segun_estado" /\ hilos[t].pc # "desalojar"
  BY DEF Vida, Ubica, SinProceso, ConProceso, EnServicio, EnEspera, EnVuelta

LEMMA HiloLargoPlazoVida ==
  ASSUME Tipos, Vida, NEW t \in Hilos, HiloLargoPlazo(t)
  PROVE  Vida'
<1>1. ~SegunEstado(t)
  BY SinSegunEstado DEF SegunEstado, EnPc
<1>2. CASE \/ BuscarNulo(t) \/ SegunEstadoAusente(t) \/ SalirDeExecAusente(t)
           \/ AvisarDesconocido(t)
  BY <1>2, CaeVida
  DEF BuscarNulo, SegunEstadoAusente, SalirDeExecAusente, AvisarDesconocido
<1> QED
  BY <1>1, <1>2, NuevoVida, TomarNewVida, TomarCupoVida, PasarAReadyVida,
     BuscarVida, SalirDeExecVida, LiberarRecursoVida, LiberarSumarVida,
     AvisarMemoriaVida, TransferirVida, AgregarAExitVida
  DEF HiloLargoPlazo

-----------------------------------------------------------------------------
(* Short-term scheduler *)

\* A thread with no process in hand goes on with none.
LEMMA SinProcesoSigue ==
  ASSUME Tipos, Vida, NEW t \in Hilos, hilos[t].pc \in SinProceso,
         NEW h, Pasa(t, h), h.pc \in SinProceso, h.p = hilos[t].p,
         h.tiene \intersect {"EXIT", "READY_PRIORIDAD"} = {},
         UNCHANGED <<lista, estado, cola_recurso, io>>
  PROVE  Vida'
<1>1. h.p = Nadie
  BY PcsAparte DEF Vida, Ubica
<1>2. LosDemas(t) /\ hilos'[t] = h
  BY PasaHilo
<1>3. Ubica(t)'
  BY <1>1, <1>2, UbicaLibre
<1> QED  BY <1>1, <1>2, <1>3, PasoQuieto

LEMMA VuelveVida ==
  ASSUME Tipos, Vida, NEW t \in Hilos, Vuelve(t),
         UNCHANGED <<lista, estado, cola_recurso, io>>
  PROVE  Vida'
  BY VuelveLibre, PasoQuieto

LEMMA LlamaPcpVida ==
  ASSUME Tipos, Vida, NEW t \in Hilos, NEW ms, Pasa(t, LlamaPcp(t, ms)),
         ms \intersect {"EXIT", "READY_PRIORIDAD"} = {},
         UNCHANGED <<lista, estado, cola_recurso, io>>
  PROVE  Vida'
  BY LlamaPcpLibre, PasoQuieto

LEMMA MirarReadyVida ==
  ASSUME Tipos, Vida, NEW t \in Hilos, MirarReady(t)
  PROVE  Vida'
<1>1. /\ hilos[t].pc = "pcp" /\ hilos[t].pc \in SinProceso
      /\ UNCHANGED <<lista, estado, cola_recurso, io>>
      /\ hilos[t].tiene \intersect {"EXIT", "READY_PRIORIDAD"} = {}
  BY DEF MirarReady, EnPc, SinProceso, Vida, Ubica
<1>2. CASE Pasa(t, VistoReady(t))
  <2>1. /\ VistoReady(t).pc = "pcp_exec" /\ VistoReady(t).p = hilos[t].p
        /\ VistoReady(t).tiene = hilos[t].tiene
    BY TiposDeListas DEF VistoReady, Hilo
  <2> QED  BY <1>1, <1>2, <2>1, SinProcesoSigue DEF SinProceso
<1> QED  BY <1>1, <1>2, VuelveVida DEF MirarReady

LEMMA TomarExecVida ==
  ASSUME Tipos, Vida, NEW t \in Hilos, TomarExec(t)
  PROVE  Vida'
<1>1. /\ hilos[t].pc = "pcp_exec" /\ hilos[t].pc \in SinProceso
      /\ UNCHANGED <<lista, estado, cola_recurso, io>>
      /\ hilos[t].tiene \intersect {"EXIT", "READY_PRIORIDAD"} = {}
  BY DEF TomarExec, EnPc, SinProceso, Vida, Ubica
<1>2. CASE Pasa(t, ReteniendoExec(t))
  <2>1. /\ ReteniendoExec(t).pc = "pcp_tomar" /\ ReteniendoExec(t).p = hilos[t].p
        /\ ReteniendoExec(t).tiene = hilos[t].tiene \union {"EXEC"}
    BY TiposDeListas DEF ReteniendoExec, Hilo
  <2>2. ReteniendoExec(t).tiene \intersect {"EXIT", "READY_PRIORIDAD"} = {}
    BY <1>1, <2>1
  <2> QED  BY <1>1, <1>2, <2>1, <2>2, SinProcesoSigue DEF SinProceso
<1> QED  BY <1>1, <1>2, VuelveVida DEF TomarExec

LEMMA TomarReadyVida ==
  ASSUME Tipos, Vida, NEW t \in Hilos, TomarReady(t)
  PROVE  Vida'
<1> PICK h : h = [hilos[t] EXCEPT !.pc = "pcp_prioridad",
                                  !.tiene = hilos[t].tiene \union {"READY"}]
  OBVIOUS
<1>1. /\ hilos[t].pc = "pcp_tomar" /\ hilos[t].pc \in SinProceso /\ Pasa(t, h)
      /\ UNCHANGED <<lista, estado, cola_recurso, io>>
      /\ hilos[t].tiene \intersect {"EXIT", "READY_PRIORIDAD"} = {}
  BY DEF TomarReady, EnPc, SinProceso, Vida, Ubica
<1>2. /\ h.pc = "pcp_prioridad" /\ h.p = hilos[t].p
      /\ h.tiene = hilos[t].tiene \union {"READY"}
  BY TiposDeListas DEF Hilo
<1>3. h.tiene \intersect {"EXIT", "READY_PRIORIDAD"} = {}
  BY <1>1, <1>2
<1> QED  BY <1>1, <1>2, <1>3, SinProcesoSigue DEF SinProceso

\* A process nobody has and nothing waits for stays in one list.
LEMMA LugarDeNadie ==
  ASSUME Vida, NEW t \in Hilos, NEW p \in Pids,
         \A u \in Hilos \ {t} : hilos[u].p # p, ~EnCola(p),
         LosDemas(t), UNCHANGED <<cola_recurso, io>>,
         \A l \in Colas : EnLista(p, l)' => estado'[p] = l
  PROVE  Lugar(p)'
<1>1. ~EnCola(p)'
  BY DEF EnCola, EnIo
<1>2. \A u \in Hilos \ {t} : hilos'[u].p # p
  BY NadieNoEsPid DEF LosDemas
<1>3. /\ \A r \in Recursos : ~Contains(cola_recurso'[r], p)
      /\ \A i \in Interfaces : ~EnIo(p, i)'
  BY <1>1 DEF EnCola
<1>4. UnaFicha(p)'
  BY <1>1, <1>2, <1>3 DEF UnaFicha, EnIo
<1>5. \A l \in Colas : EnLista(p, l)' => estado'[p] = l
  OBVIOUS
<1> QED  BY <1>1, <1>4, <1>5 DEF Lugar

LEMMA TomarVida ==
  ASSUME Tipos, Vida, NEW t \in Hilos, Tomar(t)
  PROVE  Vida'
<1>1. Vuelve(t) /\ UNCHANGED <<cola_recurso, io>>
  BY DEF Tomar
<1>2. LosDemas(t) /\ hilos'[t].p = Nadie /\ Ubica(t)'
  BY <1>1, VuelveLibre
<1>3. CASE UNCHANGED <<lista, estado>>
  BY <1>1, <1>3, VuelveVida
<1>4. CASE lista[Origen] # <<>> /\ Despachar(Origen)
  <2> PICK l : l = Origen
    OBVIOUS
  <2> PICK p : p = Head(lista[l])
    OBVIOUS
  <2>1. /\ l \in {"READY", "READY_PRIORIDAD"} /\ lista[l] # <<>>
        /\ l \in Colas /\ "EXEC" \in Colas \ {l}
    BY <1>4 DEF Origen, Colas
  <2>2. /\ lista' = [lista EXCEPT ![l] = Tail(@), !["EXEC"] = Append(@, p)]
        /\ estado' = [estado EXCEPT ![p] = "EXEC"]
    BY <1>4 DEF Despachar
  <2>3. p \in Pids /\ EnLista(p, l)
    <3>1. lista[l] \in Seq(Pids) /\ SinRepetir(lista[l])
      BY <2>1, TiposDeListas DEF Vida, Ordenadas
    <3> QED  BY <2>1, <3>1, Resto DEF EnLista
  <2>4. (\A u \in Hilos : hilos[u].p # p) /\ ~EnCola(p) /\ estado[p] = l
    BY <2>1, <2>3, DeLista
  <2>5. \A k \in Colas : EnLista(p, k) => k = l
    BY <2>3, <2>4 DEF Vida, Lugar
  <2>6. /\ \A j \in Colas : SinRepetir(lista'[j])
        /\ \A q, j : j \in Colas =>
             (Contains(lista'[j], q) <=>
                \/ Contains(lista[j], q) /\ ~(j = l /\ q = p)
                \/ j = "EXEC" /\ q = p)
    BY <2>1, <2>2, <2>5, ListaTraslada DEF Vida
  <2>7. /\ \A q \in Pids \ {p} : estado'[q] = estado[q]
        /\ estado'[p] = "EXEC"
    BY <2>2, <2>3, TiposDeListas
  <2>8. \A k \in Colas : EnLista(p, k)' => estado'[p] = k
    <3>1. \A k \in Colas : Contains(lista[k], p) => k = l
      BY <2>5 DEF EnLista
    <3> QED  BY <2>6, <2>7, <3>1 DEF EnLista
  <2>9. Lugar(p)'
    BY <1>1, <1>2, <2>3, <2>4, <2>8, LugarDeNadie
  <2>10. \A q \in Pids \ {p} : Quieto(q)
    BY <1>1, <2>6, <2>7 DEF Quieto
  <2>11. Ordenadas'
    BY <1>1, <2>6 DEF Vida, Ordenadas
  <2> QED  BY <1>2, <2>3, <2>4, <2>9, <2>10, <2>11, PasoDe
<1> QED  BY <1>3, <1>4 DEF Tomar

-----------------------------------------------------------------------------
(* What is on its way between the CPU and the kernel *)

\* The requests the kernel foresees, and the interrupts that are not an end
\* asked for from the console.
Previstos ==
  {m \in Pedido : /\ m.t = "WAIT" => m.x # Nadie
                  /\ m.t \in {"IO_INADMISIBLE", "IO_DESCONOCIDA"} => m.x # "OTRA"
                  /\ m.t = "DESALOJO" => m.x # "DESALOJO_POR_CONSOLA"}

MotivosPrevistos == {"FIN_QUANTUM", "PRIORIDAD"}

Cauces ==
  /\ flag_finalizar = {}
  /\ sem["DESALOJO_POR_CONSOLA"] = 0
  /\ canal \in Seq(Previstos)
  /\ irqs \in Seq(Pids \X MotivosPrevistos)
  /\ cpu.irq \in MotivosPrevistos \union {""}

-----------------------------------------------------------------------------
(* The way back to READY *)

\* The thread goes on with its process, and no list changes.
LEMMA SigueVida ==
  ASSUME Tipos, Vida, NEW t \in Hilos, NEW h, Pasa(t, h),
         h.p \in {hilos[t].p, Nadie},
         UNCHANGED <<lista, estado, cola_recurso, io>>,
         hilos'[t] = h => Ubica(t)'
  PROVE  Vida'
<1>1. LosDemas(t) /\ hilos'[t] = h
  BY PasaHilo
<1> QED  BY <1>1, PasoQuieto

LEMMA AtenderMotivoVida ==
  ASSUME Tipos, Vida, Cauces, NEW t \in Hilos, AtenderMotivo(t)
  PROVE  Vida'
<1> PICK h : h = [hilos[t] EXCEPT !.pc = "reubicar"]
  OBVIOUS
<1>1. /\ hilos[t].pc = "motivo" /\ UNCHANGED <<lista, estado, cola_recurso, io>>
  BY DEF AtenderMotivo, EnPc
<1>2. /\ hilos[t].op # "DESALOJO_POR_CONSOLA" /\ hilos[t].p \in Pids
      /\ t = Despacho /\ EnLista(hilos[t].p, "EXEC")
      /\ hilos[t].tiene \intersect {"EXIT", "READY_PRIORIDAD"} = {}
  BY <1>1 DEF Vida, Ubica, SinProceso, EnServicio
<1>3. Pasa(t, h)
  BY <1>2 DEF AtenderMotivo, Cauces, Sigue
<1>4. h.pc = "reubicar" /\ h.p = hilos[t].p /\ h.tiene = hilos[t].tiene
  BY TiposDeListas DEF Hilo
<1>5. hilos'[t] = h => Ubica(t)'
  BY <1>1, <1>2, <1>4
  DEF Ubica, EnLista, SinProceso, ConProceso, EnServicio, EnEspera, EnVuelta
<1> QED  BY <1>1, <1>3, <1>4, <1>5, SigueVida

LEMMA ReubicarVida ==
  ASSUME Tipos, Vida, NEW t \in Hilos, Reubicar(t)
  PROVE  Vida'
<1> PICK h : h = [hilos[t] EXCEPT !.pc = "reubicar_ready", !.tiene = {"EXEC"}]
  OBVIOUS
<1>1. /\ hilos[t].pc = "reubicar" /\ Pasa(t, h)
      /\ UNCHANGED <<lista, estado, cola_recurso, io>>
  BY DEF Reubicar, EnPc
<1>2. /\ hilos[t].p \in Pids /\ t = Despacho /\ EnLista(hilos[t].p, "EXEC")
  BY <1>1 DEF Vida, Ubica, SinProceso, EnServicio
<1>4. h.pc = "reubicar_ready" /\ h.p = hilos[t].p /\ h.tiene = {"EXEC"}
  BY TiposDeListas DEF Hilo
<1>5. hilos'[t] = h => Ubica(t)'
  BY <1>1, <1>2, <1>4
  DEF Ubica, EnLista, SinProceso, ConProceso, EnServicio, EnEspera, EnVuelta
<1> QED  BY <1>1, <1>4, <1>5, SigueVida

LEMMA ReubicarReadyVida ==
  ASSUME Tipos, Vida, NEW t \in Hilos, ReubicarReady(t)
  PROVE  Vida'
<1> PICK h : h = [hilos[t] EXCEPT !.pc = "reubicar_prioridad",
                                  !.tiene = hilos[t].tiene \union {"READY"}]
  OBVIOUS
<1>1. /\ hilos[t].pc = "reubicar_ready" /\ Pasa(t, h)
      /\ UNCHANGED <<lista, estado, cola_recurso, io>>
  BY DEF ReubicarReady, EnPc
<1>2. /\ hilos[t].p \in Pids /\ t = Despacho /\ EnLista(hilos[t].p, "EXEC")
      /\ hilos[t].tiene \intersect {"EXIT", "READY_PRIORIDAD"} = {}
  BY <1>1 DEF Vida, Ubica, SinProceso, EnServicio
<1>4. /\ h.pc = "reubicar_prioridad" /\ h.p = hilos[t].p
      /\ h.tiene = hilos[t].tiene \union {"READY"}
  BY TiposDeListas DEF Hilo
<1>5. hilos'[t] = h => Ubica(t)'
  <2>1. h.tiene \intersect {"EXIT", "READY_PRIORIDAD"} = {}
    BY <1>2, <1>4
  <2> QED  BY <1>1, <1>2, <1>4, <2>1
    DEF Ubica, EnLista, SinProceso, ConProceso, EnServicio, EnEspera, EnVuelta
<1> QED  BY <1>1, <1>4, <1>5, SigueVida

LEMMA ReubicarAReadyVida ==
  ASSUME Tipos, Vida, NEW t \in Hilos, ReubicarAReady(t)
  PROVE  Vida'
<1> PICK p : p = hilos[t].p
  OBVIOUS
<1>1. /\ hilos[t].pc = "reubicar_prioridad" /\ Pasa(t, LlamaPcp(t, {}))
      /\ lista' = [lista EXCEPT !["EXEC"] = Sin(@, p), !["READY"] = Append(@, p)]
      /\ estado' = [estado EXCEPT ![p] = "READY"]
      /\ UNCHANGED <<cola_recurso, io>> /\ EnLista(p, "EXEC")
  BY DEF ReubicarAReady, EnPc, EstadoReady, Replanificar
<1>2. p \in Pids /\ "EXEC" \in Colas /\ "READY" \in Colas \ {"EXEC"}
  BY <1>1 DEF Vida, Ubica, SinProceso, Colas
<1>3. \A k \in Colas : Contains(lista[k], p) => k = "EXEC"
  BY <1>1, <1>2 DEF Vida, Lugar, EnLista
<1>4. /\ \A j \in Colas : SinRepetir(lista'[j])
      /\ \A q, j : j \in Colas =>
           (Contains(lista'[j], q) <=>
              \/ Contains(lista[j], q) /\ ~(j = "EXEC" /\ q = p)
              \/ j = "READY" /\ q = p)
  <2>1. Ordenadas /\ ~EnLista(p, "READY")
    BY <1>2, <1>3 DEF Vida, EnLista
  <2> QED  BY <1>1, <1>2, <2>1, MudaDeExec
<1>5. /\ \A q \in Pids \ {p} : estado'[q] = estado[q]
      /\ estado'[p] = "READY"
  BY <1>1, <1>2, TiposDeListas
<1>6. LosDemas(t) /\ hilos'[t].p = Nadie /\ Ubica(t)'
  BY <1>1, LlamaPcpLibre
<1>7. Ordenadas'
  BY <1>1, <1>4 DEF Vida, Ordenadas
<1>8. \A k \in Colas : EnLista(p, k)' => estado'[p] = k
  BY <1>3, <1>4, <1>5 DEF EnLista
<1>9. \A q \in Pids \ {p} :
        /\ estado'[q] = estado[q]
        /\ \A k \in Colas : EnLista(q, k)' <=> EnLista(q, k)
  BY <1>4, <1>5 DEF EnLista
<1> QED  BY <1>1, <1>2, <1>6, <1>7, <1>8, <1>9, PasoPropio

LEMMA AnalizarVida ==
  ASSUME Tipos, Vida, NEW t \in Hilos, Analizar(t)
  PROVE  Vida'
<1>1. /\ hilos[t].pc = "analizar" /\ UNCHANGED <<lista, estado, cola_recurso, io>>
  BY DEF Analizar, EnPc
<1>2. /\ hilos[t].p \in Pids /\ estado[hilos[t].p] = "BLOCKED"
      /\ Suelto(hilos[t].p)
      /\ hilos[t].tiene \intersect {"EXIT", "READY_PRIORIDAD"} = {}
  BY <1>1 DEF Vida, Ubica, SinProceso, EnVuelta
<1>3. PICK l \in Destinos(hilos[t].p) :
        Pasa(t, [hilos[t] EXCEPT !.pc = "transferir", !.l = l])
  BY DEF Analizar
<1>4. l \in {"READY", "READY_PRIORIDAD"}
  BY <1>3 DEF Destinos, DestinosVRR
<1> PICK h : h = [hilos[t] EXCEPT !.pc = "transferir", !.l = l]
  OBVIOUS
<1>5. /\ h.pc = "transferir" /\ h.p = hilos[t].p /\ h.l = l
      /\ h.tiene = hilos[t].tiene
  BY TiposDeListas DEF Hilo
<1>6. hilos'[t] = h => Ubica(t)'
  <2>1. Suelto(h.p) /\ Suelto(h.p)' /\ estado'[h.p] = "BLOCKED" /\ h.p \in Pids
    BY <1>1, <1>2, <1>5 DEF Suelto, EnLista
  <2> QED  BY <1>2, <1>4, <1>5, <2>1
    DEF Ubica, SinProceso, ConProceso, EnServicio, EnEspera, EnVuelta
<1> QED  BY <1>1, <1>3, <1>5, <1>6, SigueVida

LEMMA AgregarAReadyVida ==
  ASSUME Tipos, Vida, NEW t \in Hilos, AgregarAReady(t)
  PROVE  Vida'
<1>1. PICK l \in {"READY", "READY_PRIORIDAD"} : Agregar(t, l)
  BY DEF AgregarAReady
<1>2. /\ hilos[t].pc = "agregar" /\ l \in Colas
      /\ UNCHANGED <<estado, cola_recurso, io>>
      /\ Pasa(t, LlamaPcp(t, hilos[t].tiene \ {"BLOCKED"}))
  BY <1>1 DEF AgregarAReady, Agregar, EnPc, Colas
<1>3. /\ hilos[t].p \in Pids
      /\ hilos[t].tiene \intersect {"EXIT", "READY_PRIORIDAD"} = {}
  BY <1>2 DEF Vida, Ubica, SinProceso
<1> PICK p, ms : p = hilos[t].p /\ ms = hilos[t].tiene \ {"BLOCKED"}
  OBVIOUS
<1>4. LosDemas(t) /\ hilos'[t].p = Nadie /\ Ubica(t)'
  BY <1>2, <1>3, LlamaPcpLibre
<1> QED  BY <1>1, <1>2, <1>3, <1>4, AgregarVida

LEMMA HiloCortoPlazoVida ==
  ASSUME Tipos, Vida, Cauces, NEW t \in Hilos, HiloCortoPlazo(t)
  PROVE  Vida'
<1>1. CASE TomarSinTimer(t) \/ ReubicarAusente(t) \/ AnalizarNulo(t)
  BY <1>1, CaeVida DEF TomarSinTimer, ReubicarAusente, AnalizarNulo
<1> QED
  BY <1>1, MirarReadyVida, TomarExecVida, TomarReadyVida, TomarVida,
     AtenderMotivoVida,
     ReubicarVida, ReubicarReadyVida, ReubicarAReadyVida, AnalizarVida,
     AgregarAReadyVida
  DEF HiloCortoPlazo

LEMMA InterrupcionesVida ==
  ASSUME Vida, Interrupciones
  PROVE  Vida'
<1>1. CASE UNCHANGED <<lista, estado, cola_recurso, io, hilos>>
  BY <1>1, PasoAjeno
<1> QED
  BY <1>1, CaeVida DEF Interrupciones, VenceQuantum, Interrumpir, InterrumpirNulo

-----------------------------------------------------------------------------
(* Resources *)

LEMMA WaitLeerVida ==
  ASSUME Tipos, Vida, NEW t \in Hilos, WaitLeer(t)
  PROVE  Vida'
<1> PICK h : h = Leido(hilos[t], "wait_resta", hilos[t].r)
  OBVIOUS
<1>1. /\ hilos[t].pc = "wait_leer" /\ Pasa(t, h)
      /\ UNCHANGED <<lista, estado, cola_recurso, io>>
  BY DEF WaitLeer, EnPc
<1>2. /\ hilos[t].p \in Pids /\ t = Despacho /\ EnLista(hilos[t].p, "EXEC")
      /\ hilos[t].tiene \intersect {"EXIT", "READY_PRIORIDAD"} = {}
  BY <1>1 DEF Vida, Ubica, SinProceso, EnServicio
<1>3. /\ h.pc = "wait_resta" /\ h.p = hilos[t].p /\ h.tiene = hilos[t].tiene
  BY TiposDeListas DEF Hilo, Leido
<1>4. hilos'[t] = h => Ubica(t)'
  BY <1>1, <1>2, <1>3
  DEF Ubica, EnLista, SinProceso, ConProceso, EnServicio, EnEspera, EnVuelta
<1> QED  BY <1>1, <1>3, <1>4, SigueVida

LEMMA WaitRestarVida ==
  ASSUME Tipos, Vida, NEW t \in Hilos, WaitRestar(t)
  PROVE  Vida'
  BY VuelveVida DEF WaitRestar

LEMMA SignalSumarVida ==
  ASSUME Tipos, Vida, NEW t \in Hilos, SignalSumar(t)
  PROVE  Vida'
<1>1. /\ hilos[t].pc = "signal_suma"
      /\ UNCHANGED <<lista, estado, cola_recurso, io>>
  BY DEF SignalSumar, EnPc
<1> PICK h : h = Arranca("asignar", Nadie, hilos[t].r)
  OBVIOUS
<1>3. h.pc = "asignar" /\ h.p = Nadie /\ h.tiene = {}
  BY ArrancaCampos
<1>4. Pasa(t, h) \/ Vuelve(t)
  BY DEF SignalSumar
<1>5. hilos'[t] = h => Ubica(t)'
  BY <1>3, UbicaLibre DEF SinProceso
<1> QED  BY <1>1, <1>3, <1>4, <1>5, SigueVida, VuelveVida

LEMMA AsignarRestarVida ==
  ASSUME Tipos, Vida, NEW t \in Hilos, AsignarRestar(t)
  PROVE  Vida'
<1> PICK h : h = [hilos[t] EXCEPT !.pc = "desbloquear", !.n = 0]
  OBVIOUS
<1>1. /\ hilos[t].pc = "asignar_resta" /\ Pasa(t, h)
      /\ UNCHANGED <<lista, estado, cola_recurso, io>>
  BY DEF AsignarRestar, EnPc
<1>2. /\ hilos[t].p \in Pids /\ EnLista(hilos[t].p, "BLOCKED")
      /\ hilos[t].tiene \intersect {"EXIT", "READY_PRIORIDAD"} = {}
  BY <1>1 DEF Vida, Ubica, SinProceso, EnEspera
<1>3. /\ h.pc = "desbloquear" /\ h.p = hilos[t].p /\ h.tiene = hilos[t].tiene
  BY TiposDeListas DEF Hilo
<1>4. hilos'[t] = h => Ubica(t)'
  BY <1>1, <1>2, <1>3
  DEF Ubica, EnLista, SinProceso, ConProceso, EnServicio, EnEspera, EnVuelta
<1> QED  BY <1>1, <1>3, <1>4, SigueVida

LEMMA WaitBloquearVida ==
  ASSUME IInv, Vida, NEW t \in Hilos, WaitBloquear(t)
  PROVE  Vida'
<1> PICK p : p = hilos[t].p
  OBVIOUS
<1>1. /\ hilos[t].pc = "wait_bloquear" /\ Pasa(t, ABlocked(t))
      /\ lista' = [lista EXCEPT !["EXEC"] = ExecSinCabeza]
      /\ UNCHANGED <<estado, cola_recurso, io>> /\ "EXEC" \in Colas
  BY DEF WaitBloquear, EnPc, Colas
<1>2. /\ p \in Pids /\ EnLista(p, "EXEC") /\ Tipos
      /\ hilos[t].tiene \intersect {"EXIT", "READY_PRIORIDAD"} = {}
  BY <1>1 DEF Vida, Ubica, SinProceso, EnServicio, IInv
<1>3. estado[p] = "EXEC" /\ \A k \in Colas : Contains(lista[k], p) => k = "EXEC"
  BY <1>1, <1>2 DEF Vida, Lugar, EnLista
<1>4. lista["EXEC"] # <<>> /\ Head(lista["EXEC"]) = p
  <2> PICK s \in Seq(Pids) : s = lista["EXEC"]
    BY <1>1, <1>2, TiposDeListas
  <2>1. Len(s) <= 1 /\ Contains(s, p)
    BY <1>2 DEF IInv, ExecUnico, EnLista
  <2>2. Len(s) = 1 /\ s[1] = p
    <3>1. PICK k \in 1..Len(s) : s[k] = p
      BY <2>1 DEF Contains
    <3>2. Len(s) \in Nat
      OBVIOUS
    <3>3. Len(s) <= 1
      BY <2>1
    <3>5. \A j \in 1..Len(s) : j = 1 /\ Len(s) = 1
      BY ONLY <3>2, <3>3, AloSumo
    <3>4. k = 1
      BY ONLY k \in 1..Len(s), <3>5
    <3>6. Len(s) = 1
      BY <3>1, <3>5
    <3> QED  BY <3>1, <3>4, <3>6
  <2> QED  BY <2>2
<1>5. lista' = [lista EXCEPT !["EXEC"] = Tail(@)]
  BY <1>1, <1>4 DEF ExecSinCabeza
<1>6. /\ \A k \in Colas : SinRepetir(lista'[k])
      /\ \A q, k : k \in Colas =>
           (Contains(lista'[k], q) <=> Contains(lista[k], q) /\ ~(k = "EXEC" /\ q = p))
  BY <1>1, <1>2, <1>4, <1>5, ListaPrimero DEF Vida
<1> PICK h : h = ABlocked(t)
  OBVIOUS
<1>7. /\ h.pc = "transferir" /\ h.l = "BLOCKED" /\ h.p = p /\ h.tiene = hilos[t].tiene
  BY <1>2, TiposDeListas DEF Hilo, ABlocked
<1>8. LosDemas(t) /\ hilos'[t] = h
  BY <1>1, <1>2, PasaHilo
<1>9. \A k \in Colas : ~EnLista(p, k)'
  BY <1>3, <1>6 DEF EnLista
<1>10. Ubica(t)'
  <2>1. Suelto(p)'
    BY <1>9 DEF Suelto
  <2> QED  BY <1>1, <1>2, <1>3, <1>7, <1>8, <2>1
    DEF Ubica, SinProceso, ConProceso, EnServicio, EnEspera, EnVuelta
<1>11. Ordenadas'
  BY <1>1, <1>6 DEF Vida, Ordenadas
<1>12. \A q \in Pids \ {p} :
         /\ estado'[q] = estado[q]
         /\ \A k \in Colas : EnLista(q, k)' <=> EnLista(q, k)
  BY <1>1, <1>6 DEF EnLista
<1> QED
  BY <1>1, <1>2, <1>7, <1>8, <1>9, <1>10, <1>11, <1>12, PasoPropio

\* A process in the queue of r, and in no other.
LEMMA WaitEncolarVida ==
  ASSUME Tipos, Vida, NEW t \in Hilos, WaitEncolar(t)
  PROVE  Vida'
<1> PICK p, r : p = hilos[t].p /\ r = hilos[t].r
  OBVIOUS
<1>1. /\ hilos[t].pc = "wait_encolar" /\ UNCHANGED <<lista, estado, io>>
  BY DEF WaitEncolar, EnPc
<1>2. /\ p \in Pids /\ EnLista(p, "BLOCKED") /\ estado[p] = "BLOCKED"
      /\ r \in Recursos /\ "BLOCKED" \in Colas
      /\ hilos[t].tiene \intersect {"EXIT", "READY_PRIORIDAD"} = {}
  <2>1. p \in Pids /\ EnLista(p, "BLOCKED") /\ "BLOCKED" \in Colas
    BY <1>1 DEF Vida, Ubica, SinProceso, EnEspera, Colas
  <2>2. r \in Recursos
    BY <1>1 DEF Tipos, HilosBien, Argumentos
  <2> QED  BY <2>1, <2>2 DEF Vida, Ubica, Lugar
<1>3. (\A u \in Hilos \ {t} : hilos[u].p # p) /\ ~EnCola(p)
  BY <1>2, DeHilo
<1>4. /\ \A s \in Recursos : ~Contains(cola_recurso[s], p)
      /\ \A i \in Interfaces : ~EnIo(p, i)
  BY <1>3 DEF EnCola
<1>5. CASE Sigue(t, "colgado") /\ cola_recurso' = cola_recurso
  <2> PICK h : h = [hilos[t] EXCEPT !.pc = "colgado"]
    OBVIOUS
  <2>1. h.pc = "colgado" /\ h.p = p /\ h.tiene = hilos[t].tiene
    BY TiposDeListas DEF Hilo
  <2>2. hilos'[t] = h => Ubica(t)'
    BY <1>1, <1>2, <2>1
    DEF Ubica, SinProceso, ConProceso, EnServicio, EnEspera, EnVuelta
  <2> QED  BY <1>1, <1>5, <2>1, <2>2, SigueVida DEF Sigue
<1>6. CASE cola_recurso' = ColaConPedido(p, r) /\ Pasa(t, LlamaPcp(t, {}))
  <2>1. LosDemas(t) /\ hilos'[t].p = Nadie /\ Ubica(t)'
    BY <1>6, LlamaPcpLibre
  <2> PICK s \in Seq(Pids) : s = cola_recurso[r]
    BY <1>2, TiposDeListas
  <2>2. /\ cola_recurso'[r] = Append(s, p)
        /\ \A x \in Recursos \ {r} : cola_recurso'[x] = cola_recurso[x]
    BY <1>2, <1>6, TiposDeListas DEF ColaConPedido
  <2>3. /\ SinRepetir(Append(s, p))
        /\ \A x : Contains(Append(s, p), x) <=> Contains(s, x) \/ x = p
    BY <1>2, <1>4, AlFinal DEF Vida, Ordenadas
  <2>4. /\ \A x \in Recursos : SinRepetir(cola_recurso'[x])
        /\ \A x \in Recursos, q \in Pids :
             Contains(cola_recurso'[x], q) <=>
               Contains(cola_recurso[x], q) \/ (x = r /\ q = p)
    BY <2>2, <2>3 DEF Vida, Ordenadas
  <2>5. Ordenadas'
    BY <1>1, <2>4 DEF Vida, Ordenadas
  <2>6. \A q \in Pids \ {p} : Quieto(q)
    BY <1>1, <2>4 DEF Quieto
  <2>7. Lugar(p)'
    <3>1. /\ \A x \in Recursos : Contains(cola_recurso'[x], p) <=> x = r
          /\ \A i \in Interfaces : ~EnIo(p, i)'
      BY <1>1, <1>2, <1>4, <2>4 DEF EnIo
    <3>2. \A u \in Hilos : hilos'[u].p # p
      BY <1>2, <1>3, <2>1, NadieNoEsPid DEF LosDemas
    <3>3. UnaFicha(p)'
      BY <3>1, <3>2 DEF UnaFicha, EnIo
    <3>4. EnLista(p, "BLOCKED")' /\ \A l \in Colas : EnLista(p, l)' => estado'[p] = l
      BY <1>1, <1>2 DEF Vida, Lugar, EnLista
    <3> QED  BY <3>3, <3>4 DEF Lugar
  <2> QED  BY <1>2, <1>3, <2>1, <2>5, <2>6, <2>7, PasoDe
<1> QED  BY <1>5, <1>6 DEF WaitEncolar

LEMMA AsignarVida ==
  ASSUME Tipos, Vida, NEW t \in Hilos, Asignar(t)
  PROVE  Vida'
<1> PICK r : r = hilos[t].r
  OBVIOUS
<1>1. /\ hilos[t].pc = "asignar" /\ UNCHANGED <<lista, estado, io>>
  BY DEF Asignar, EnPc
<1>2. r \in Recursos /\ hilos[t].p = Nadie
  BY <1>1, PcsAparte DEF Tipos, HilosBien, Argumentos, Vida, Ubica, SinProceso
<1>3. CASE cola_recurso[r] = <<>>
  <2>1. Vuelve(t) /\ cola_recurso' = cola_recurso
    BY <1>3 DEF Asignar
  <2> QED  BY <1>1, <2>1, VuelveVida
<1>4. CASE cola_recurso[r] # <<>>
  <2> PICK s \in Seq(Pids) : s = cola_recurso[r]
    BY <1>2, TiposDeListas
  <2> PICK p : p = Head(s)
    OBVIOUS
  <2> PICK h : h = [Leido(hilos[t], "asignar_resta", r) EXCEPT !.p = p, !.tiene = {r}]
    OBVIOUS
  <2>1. Pasa(t, h) /\ cola_recurso' = [cola_recurso EXCEPT ![r] = Tail(s)]
    BY <1>4 DEF Asignar
  <2>2. /\ SinRepetir(Tail(s)) /\ p \in Pids /\ Contains(s, p)
        /\ \A x : Contains(Tail(s), x) <=> Contains(s, x) /\ x # p
    BY <1>2, <1>4, Resto DEF Vida, Ordenadas
  <2>3. h.pc = "asignar_resta" /\ h.p = p /\ h.tiene = {r}
    BY TiposDeListas DEF Hilo, Leido
  <2>4. LosDemas(t) /\ hilos'[t] = h
    BY <2>1, PasaHilo
  <2>5. /\ \A x \in Recursos : SinRepetir(cola_recurso'[x])
        /\ \A x \in Recursos, q \in Pids :
             Contains(cola_recurso'[x], q) <=>
               Contains(cola_recurso[x], q) /\ ~(x = r /\ q = p)
    BY <1>2, <2>1, <2>2, TiposDeListas DEF Vida, Ordenadas
  <2>6. Ordenadas'
    BY <1>1, <2>5 DEF Vida, Ordenadas
  <2>7. \A q \in Pids \ {p} : Quieto(q)
    BY <1>1, <2>5 DEF Quieto
  <2>8. EnCola(p) /\ Lugar(p)
    BY <1>2, <2>2 DEF EnCola, Vida
  <2>9. /\ \A u \in Hilos : hilos[u].p # p
        /\ EnLista(p, "BLOCKED")
        /\ \A x \in Recursos \ {r} : ~Contains(cola_recurso[x], p)
        /\ \A i \in Interfaces : ~EnIo(p, i)
    BY <1>2, <2>2, <2>8 DEF Lugar, UnaFicha
  <2>10. Lugar(p)'
    <3>1. /\ \A x \in Recursos : ~Contains(cola_recurso'[x], p)
          /\ \A i \in Interfaces : ~EnIo(p, i)'
      BY <1>1, <2>2, <2>5, <2>9 DEF EnIo
    <3>2. \A u \in Hilos \ {t} : hilos'[u].p # p
      BY <2>2, <2>9, <2>4, NadieNoEsPid DEF LosDemas
    <3>3. ~EnCola(p)'
      BY <3>1 DEF EnCola
    <3>4. UnaFicha(p)'
      BY <3>1, <3>2, <3>3 DEF UnaFicha, EnIo
    <3>5. \A l \in Colas : EnLista(p, l)' => estado'[p] = l
      BY <1>1, <2>8 DEF Lugar, EnLista
    <3> QED  BY <3>3, <3>4, <3>5 DEF Lugar
  <2>11. Ubica(t)'
    <3>1. h.tiene \intersect {"EXIT", "READY_PRIORIDAD"} = {}
      BY <1>2, <2>3, KernelAssumption DEF Colas
    <3>2. EnLista(p, "BLOCKED")'
      BY <1>1, <2>9 DEF EnLista
    <3> QED  BY <2>2, <2>3, <2>4, <3>1, <3>2
      DEF Ubica, SinProceso, ConProceso, EnServicio, EnEspera, EnVuelta
  <2> QED  BY <2>2, <2>3, <2>4, <2>6, <2>7, <2>9, <2>10, <2>11, PasoDe
<1> QED  BY <1>3, <1>4

LEMMA DesbloquearVida ==
  ASSUME Tipos, Vida, NEW t \in Hilos, Desbloquear(t)
  PROVE  Vida'
<1> PICK p : p = hilos[t].p
  OBVIOUS
<1>1. /\ hilos[t].pc = "desbloquear" /\ UNCHANGED <<estado, cola_recurso, io>>
      /\ "BLOCKED" \in Colas
  BY DEF Desbloquear, EnPc, Colas
<1>2. /\ p \in Pids /\ EnLista(p, "BLOCKED")
      /\ hilos[t].tiene \intersect {"EXIT", "READY_PRIORIDAD"} = {}
  BY <1>1 DEF Vida, Ubica, SinProceso, EnEspera
<1>3. estado[p] = "BLOCKED" /\ \A k \in Colas : Contains(lista[k], p) => k = "BLOCKED"
  BY <1>1, <1>2 DEF Vida, Lugar, EnLista
<1> PICK h : h = [hilos[t] EXCEPT !.pc = "analizar", !.op = "asignar",
                                  !.tiene = @ \union {"BLOCKED"}]
  OBVIOUS
<1>4. Pasa(t, h) /\ lista' = [lista EXCEPT !["BLOCKED"] = Sin(@, p)]
  BY <1>2 DEF Desbloquear
<1>5. /\ \A k \in Colas : SinRepetir(lista'[k])
      /\ \A q, k : k \in Colas =>
           (Contains(lista'[k], q) <=>
              Contains(lista[k], q) /\ ~(k = "BLOCKED" /\ q = p))
  BY <1>1, <1>2, <1>4, ListaQuita DEF Vida
<1>6. /\ h.pc = "analizar" /\ h.p = p /\ h.tiene = hilos[t].tiene \union {"BLOCKED"}
  BY TiposDeListas DEF Hilo
<1>7. LosDemas(t) /\ hilos'[t] = h
  BY <1>4, PasaHilo
<1>8. \A k \in Colas : ~EnLista(p, k)'
  BY <1>3, <1>5 DEF EnLista
<1>9. Ubica(t)'
  <2>1. Suelto(p)'
    BY <1>8 DEF Suelto
  <2>2. h.tiene \intersect {"EXIT", "READY_PRIORIDAD"} = {}
    BY <1>2, <1>6
  <2> QED  BY <1>1, <1>2, <1>3, <1>6, <1>7, <2>1, <2>2
    DEF Ubica, SinProceso, ConProceso, EnServicio, EnEspera, EnVuelta
<1>10. Ordenadas'
  BY <1>1, <1>5 DEF Vida, Ordenadas
<1>11. \A q \in Pids \ {p} :
         /\ estado'[q] = estado[q]
         /\ \A k \in Colas : EnLista(q, k)' <=> EnLista(q, k)
  BY <1>1, <1>5 DEF EnLista
<1> QED  BY <1>1, <1>2, <1>6, <1>7, <1>8, <1>9, <1>10, <1>11, PasoPropio

LEMMA HiloRecursosVida ==
  ASSUME IInv, Vida, NEW t \in Hilos, HiloRecursos(t)
  PROVE  Vida'
<1>1. Tipos
  BY DEF IInv
<1>2. ~AgregarDesconocido(t)
  <2> SUFFICES ASSUME AgregarDesconocido(t) PROVE FALSE
    OBVIOUS
  <2>1. hilos[t].pc = "agregar" /\ hilos[t].l = "EXIT" /\ hilos[t].op = "wait"
    BY DEF AgregarDesconocido, Agregar, EnPc
  <2> QED  BY <2>1 DEF Vida, Ubica
<1> QED
  BY <1>1, <1>2, WaitLeerVida, WaitRestarVida, WaitBloquearVida, WaitEncolarVida,
     SignalSumarVida, AsignarVida, AsignarRestarVida, DesbloquearVida
  DEF HiloRecursos

-----------------------------------------------------------------------------
(* Interfaces *)

LEMMA AgregarABlockedVida ==
  ASSUME Tipos, Vida, NEW t \in Hilos, AgregarABlocked(t)
  PROVE  Vida'
<1>1. /\ hilos[t].pc = "agregar" /\ hilos[t].l = "BLOCKED" /\ "BLOCKED" \in Colas
      /\ Agregar(t, "BLOCKED") /\ UNCHANGED <<estado, cola_recurso, io>>
  BY DEF AgregarABlocked, Agregar, EnPc, Colas
<1>2. /\ hilos[t].p \in Pids
      /\ hilos[t].tiene \intersect {"EXIT", "READY_PRIORIDAD"} = {}
  BY <1>1 DEF Vida, Ubica, SinProceso
<1> PICK p : p = hilos[t].p
  OBVIOUS
<1> PICK pc \in {"wait_encolar", "io_mandar", "io_encolar"} : Sigue(t, pc)
  <2>1. \/ Sigue(t, "wait_encolar") \/ Sigue(t, "io_mandar") \/ Sigue(t, "io_encolar")
    BY DEF AgregarABlocked
  <2> QED  BY <2>1
<1> PICK h : h = [hilos[t] EXCEPT !.pc = pc]
  OBVIOUS
<1>3. h.pc = pc /\ h.p = p /\ h.tiene = hilos[t].tiene
  BY TiposDeListas DEF Hilo
<1>4. LosDemas(t) /\ hilos'[t] = h
  BY PasaHilo DEF Sigue
<1>5. EnLista(p, "BLOCKED")' => Ubica(t)'
  BY <1>2, <1>3, <1>4
  DEF Ubica, SinProceso, ConProceso, EnServicio, EnEspera, EnVuelta
<1> QED  BY <1>1, <1>2, <1>3, <1>4, <1>5, AgregarVida

\* A process in BLOCKED whose thread leaves it to interface i.
LEMMA QuedaEnInterfaz ==
  ASSUME Vida, NEW t \in Hilos, NEW p \in Pids, hilos[t].p = p,
         EnLista(p, "BLOCKED"), NEW i \in Interfaces,
         UNCHANGED <<lista, estado, cola_recurso>>,
         LosDemas(t), hilos'[t].p = Nadie, Ubica(t)',
         \A j \in Interfaces \ {i} : io'[j] = io[j],
         SinRepetir(io'[i].espera),
         \A q \in Pids \ {p} :
           /\ io'[i].pedido = q => io[i].pedido = q
           /\ Contains(io'[i].espera, q) => Contains(io[i].espera, q),
         ~(io'[i].pedido = p /\ Contains(io'[i].espera, p))
  PROVE  Vida'
<1>1. (\A u \in Hilos \ {t} : hilos[u].p # p) /\ ~EnCola(p)
  BY DeHilo
<1>2. /\ \A r \in Recursos : ~Contains(cola_recurso'[r], p)
      /\ \A j \in Interfaces \ {i} : ~EnIo(p, j)'
  BY <1>1 DEF EnCola, EnIo
<1>3. \A u \in Hilos : hilos'[u].p # p
  BY <1>1, NadieNoEsPid DEF LosDemas
<1>4. UnaFicha(p)'
  BY <1>2, <1>3 DEF UnaFicha, EnIo
<1>5. EnLista(p, "BLOCKED")' /\ \A l \in Colas : EnLista(p, l)' => estado'[p] = l
  BY DEF Vida, Lugar, EnLista
<1>6. Lugar(p)'
  BY <1>4, <1>5 DEF Lugar
<1>7. \A q \in Pids \ {p} : Quieto(q)
  BY DEF Quieto
<1>8. Ordenadas'
  BY DEF Vida, Ordenadas
<1> QED  BY <1>1, <1>6, <1>7, <1>8, PasoDe

LEMMA MandarIOVida ==
  ASSUME Tipos, Vida, NEW t \in Hilos, MandarIO(t)
  PROVE  Vida'
<1> PICK p, i : p = hilos[t].p /\ i = hilos[t].r
  OBVIOUS
<1>1. /\ hilos[t].pc = "io_mandar" /\ UNCHANGED <<lista, estado, cola_recurso>>
      /\ Pasa(t, LlamaPcp(t, {}))
      /\ io' = [io EXCEPT ![i].libre = FALSE, ![i].pedido = p]
  BY DEF MandarIO, EnPc
<1>2. p \in Pids /\ EnLista(p, "BLOCKED") /\ i \in Interfaces
  <2>1. i \in Interfaces
    BY <1>1 DEF Tipos, HilosBien, Argumentos
  <2> QED  BY <1>1, <2>1 DEF Vida, Ubica, SinProceso, EnEspera
<1>3. LosDemas(t) /\ hilos'[t].p = Nadie /\ Ubica(t)'
  BY <1>1, LlamaPcpLibre
<1>4. /\ io'[i].pedido = p /\ io'[i].espera = io[i].espera
      /\ \A j \in Interfaces \ {i} : io'[j] = io[j]
  BY <1>1, <1>2, TiposDeListas DEF Instancia
<1>5. ~Contains(io[i].espera, p) /\ SinRepetir(io'[i].espera)
  BY <1>2, <1>4, DeHilo DEF EnCola, EnIo, Vida, Ordenadas
<1>6. /\ \A q \in Pids \ {p} :
           /\ io'[i].pedido = q => io[i].pedido = q
           /\ Contains(io'[i].espera, q) => Contains(io[i].espera, q)
      /\ ~(io'[i].pedido = p /\ Contains(io'[i].espera, p))
  BY <1>4, <1>5
<1>7. hilos[t].p = p /\ UNCHANGED <<lista, estado, cola_recurso>>
  BY <1>1
<1> QED  BY <1>2, <1>3, <1>4, <1>5, <1>6, <1>7, QuedaEnInterfaz

LEMMA EncolarIOVida ==
  ASSUME Tipos, Vida, NEW t \in Hilos, EncolarIO(t)
  PROVE  Vida'
<1> PICK p, i : p = hilos[t].p /\ i = hilos[t].r
  OBVIOUS
<1>1. /\ hilos[t].pc = "io_encolar" /\ UNCHANGED <<lista, estado, cola_recurso>>
      /\ Vuelve(t)
      /\ io' = [io EXCEPT ![i].espera = Append(@, p)]
  BY DEF EncolarIO, EnPc
<1>2. p \in Pids /\ EnLista(p, "BLOCKED") /\ i \in Interfaces
  <2>1. i \in Interfaces
    BY <1>1 DEF Tipos, HilosBien, Argumentos
  <2> QED  BY <1>1, <2>1 DEF Vida, Ubica, SinProceso, EnEspera
<1>3. LosDemas(t) /\ hilos'[t].p = Nadie /\ Ubica(t)'
  BY <1>1, VuelveLibre
<1> PICK s \in Seq(Pids) : s = io[i].espera
  BY <1>2, TiposDeListas DEF Instancia
<1>4. /\ io'[i].pedido = io[i].pedido /\ io'[i].espera = Append(s, p)
      /\ \A j \in Interfaces \ {i} : io'[j] = io[j]
  BY <1>1, <1>2, TiposDeListas DEF Instancia
<1>5. ~Contains(s, p) /\ SinRepetir(s) /\ io[i].pedido # p
  BY <1>2, DeHilo DEF EnCola, EnIo, Vida, Ordenadas
<1>6. /\ SinRepetir(Append(s, p))
      /\ \A x : Contains(Append(s, p), x) <=> Contains(s, x) \/ x = p
  BY <1>2, <1>5, AlFinal
<1> QED  BY <1>1, <1>2, <1>3, <1>4, <1>5, <1>6, QuedaEnInterfaz

LEMMA FinEntradaSalidaVida ==
  ASSUME CasosPrevistos, Tipos, Vida, NEW i \in Interfaces, FinEntradaSalida(i)
  PROVE  Vida'
<1> PICK p : p = io[i].pedido
  OBVIOUS
<1> PICK h : h = [Arranca("buscar", p, Nadie) EXCEPT !.op = "fin", !.l = "NEW"]
  OBVIOUS
<1>1. /\ hilos[i].pc = "reposo" /\ UNCHANGED <<lista, estado, cola_recurso>>
      /\ io' = [io EXCEPT ![i].pedido = Nadie] /\ p # Nadie
      /\ Pasa(i, h) /\ i \in Hilos
  BY DEF FinEntradaSalida, EnPc, CasosPrevistos, Hilos
<1>2. p \in Pids /\ hilos[i].p = Nadie
  BY <1>1, TiposDeListas, PcsAparte DEF Instancia, Vida, Ubica, SinProceso
<1>3. h.pc = "buscar" /\ h.p = p /\ h.op = "fin" /\ h.tiene = {}
  BY DEF Arranca, Reposo
<1>4. LosDemas(i) /\ hilos'[i] = h
  BY <1>1, PasaHilo
<1>5. EnIo(p, i) /\ EnCola(p) /\ Lugar(p)
  BY <1>2 DEF EnIo, EnCola, Vida
<1>6. /\ \A u \in Hilos : hilos[u].p # p
      /\ EnLista(p, "BLOCKED")
      /\ \A r \in Recursos : ~Contains(cola_recurso[r], p)
      /\ \A j \in Interfaces \ {i} : ~EnIo(p, j)
      /\ ~Contains(io[i].espera, p)
  BY <1>5 DEF Lugar, UnaFicha
<1>7. /\ io'[i].pedido = Nadie /\ io'[i].espera = io[i].espera
      /\ \A j \in Interfaces \ {i} : io'[j] = io[j]
  BY <1>1, TiposDeListas DEF Instancia
<1>8. Lugar(p)'
  <2>1. /\ \A r \in Recursos : ~Contains(cola_recurso'[r], p)
        /\ \A j \in Interfaces : ~EnIo(p, j)'
    BY <1>1, <1>2, <1>6, <1>7 DEF EnIo
  <2>2. \A u \in Hilos \ {i} : hilos'[u].p # p
    BY <1>2, <1>6, <1>4, NadieNoEsPid DEF LosDemas
  <2>3. ~EnCola(p)'
    BY <2>1 DEF EnCola
  <2>4. UnaFicha(p)'
    BY <2>1, <2>2, <2>3 DEF UnaFicha, EnIo
  <2>5. \A l \in Colas : EnLista(p, l)' => estado'[p] = l
    BY <1>1, <1>5 DEF Lugar, EnLista
  <2> QED  BY <2>3, <2>4, <2>5 DEF Lugar
<1>9. Ubica(i)'
  <2>1. EnLista(p, "BLOCKED")'
    BY <1>1, <1>6 DEF EnLista
  <2> QED  BY <1>2, <1>3, <1>4, <2>1
    DEF Ubica, SinProceso, ConProceso, EnServicio, EnEspera, EnVuelta
<1>10. Ordenadas'
  BY <1>1, <1>7 DEF Vida, Ordenadas
<1>11. \A q \in Pids \ {p} : Quieto(q)
  <2>1. ASSUME NEW q \in Pids, NEW j \in Interfaces
        PROVE  /\ io'[j].pedido = q => io[j].pedido = q
               /\ Contains(io'[j].espera, q) => Contains(io[j].espera, q)
    BY <1>7, <2>1, NadieNoEsPid
  <2> QED  BY <1>1, <2>1 DEF Quieto
<1> QED  BY <1>1, <1>2, <1>3, <1>4, <1>6, <1>8, <1>9, <1>10, <1>11, PasoDe

LEMMA SiguienteIOVida ==
  ASSUME Tipos, Vida, NEW i \in Interfaces, SiguienteIO(i)
  PROVE  Vida'
<1>1. /\ hilos[i].pc = "io_siguiente" /\ UNCHANGED <<lista, estado, cola_recurso>>
      /\ i \in Hilos
  BY DEF SiguienteIO, EnPc, Hilos
<1>2. /\ hilos[i].p \in Pids /\ estado[hilos[i].p] = "BLOCKED" /\ Suelto(hilos[i].p)
      /\ hilos[i].tiene \intersect {"EXIT", "READY_PRIORIDAD"} = {}
  BY <1>1 DEF Vida, Ubica, SinProceso, EnVuelta
<1>3. ASSUME NEW h, hilos'[i] = h, h.pc \in EnVuelta, h.p = hilos[i].p,
             h.tiene = hilos[i].tiene
      PROVE  Ubica(i)'
  <2>1. /\ Suelto(h.p)' /\ estado'[h.p] = "BLOCKED" /\ h.p \in Pids
        /\ h.pc \notin {"nuevo", "plp_ready", "motivo", "liberar",
                        "liberar_suma", "avisar", "transferir", "agregar",
                        "buscar", "colgado"}
        /\ h.pc \notin EnServicio /\ h.pc \notin EnEspera /\ h.pc \in ConProceso
    BY <1>1, <1>2, <1>3 DEF Suelto, EnLista, EnVuelta, EnServicio, EnEspera, ConProceso
  <2> QED  BY <1>2, <1>3, <2>1 DEF Ubica
<1>4. CASE io[i].espera = <<>>
  <2> PICK h : h = [hilos[i] EXCEPT !.pc = "io_liberar"]
    OBVIOUS
  <2>1. Pasa(i, h) /\ io' = io
    BY <1>4 DEF SiguienteIO, Sigue
  <2>2. h.pc = "io_liberar" /\ h.p = hilos[i].p /\ h.tiene = hilos[i].tiene
    BY <1>1, TiposDeListas DEF Hilo
  <2> QED  BY <1>1, <1>3, <2>1, <2>2, SigueVida DEF EnVuelta
<1>5. CASE io[i].espera # <<>>
  <2> PICK s \in Seq(Pids) : s = io[i].espera
    BY TiposDeListas DEF Instancia
  <2> PICK p : p = Head(s)
    OBVIOUS
  <2> PICK h : h = [hilos[i] EXCEPT !.pc = "analizar"]
    OBVIOUS
  <2>1. Pasa(i, h) /\ io' = [io EXCEPT ![i].espera = Tail(s), ![i].pedido = p]
    BY <1>5 DEF SiguienteIO, Sigue, Restantes
  <2>2. h.pc = "analizar" /\ h.p = hilos[i].p /\ h.tiene = hilos[i].tiene
    BY <1>1, TiposDeListas DEF Hilo
  <2>3. LosDemas(i) /\ hilos'[i] = h
    BY <1>1, <2>1, PasaHilo
  <2>4. /\ SinRepetir(Tail(s)) /\ p \in Pids /\ Contains(s, p)
        /\ \A x : Contains(Tail(s), x) <=> Contains(s, x) /\ x # p
    BY <1>5, Resto DEF Vida, Ordenadas
  <2>5. /\ io'[i].pedido = p /\ io'[i].espera = Tail(s)
        /\ \A j \in Interfaces \ {i} : io'[j] = io[j]
    BY <2>1, TiposDeListas DEF Instancia
  <2>6. EnIo(p, i) /\ EnCola(p) /\ Lugar(p)
    BY <2>4 DEF EnIo, EnCola, Vida
  <2>7. /\ \A u \in Hilos : hilos[u].p # p
        /\ EnLista(p, "BLOCKED")
        /\ \A r \in Recursos : ~Contains(cola_recurso[r], p)
        /\ \A j \in Interfaces \ {i} : ~EnIo(p, j)
    BY <2>6 DEF Lugar, UnaFicha
  <2>8. Lugar(p)'
    <3>1. /\ \A r \in Recursos : ~Contains(cola_recurso'[r], p)
          /\ \A j \in Interfaces \ {i} : ~EnIo(p, j)'
          /\ ~Contains(io'[i].espera, p)
      BY <1>1, <2>4, <2>5, <2>7 DEF EnIo
    <3>2. \A u \in Hilos : hilos'[u].p # p
      BY <1>1, <2>2, <2>3, <2>4, <2>7, NadieNoEsPid DEF LosDemas
    <3>3. UnaFicha(p)'
      BY <3>1, <3>2 DEF UnaFicha, EnIo
    <3>4. EnLista(p, "BLOCKED")' /\ \A l \in Colas : EnLista(p, l)' => estado'[p] = l
      BY <1>1, <2>6, <2>7 DEF Lugar, EnLista
    <3> QED  BY <3>3, <3>4 DEF Lugar
  <2>9. Ubica(i)'
    BY <1>3, <2>2, <2>3 DEF EnVuelta
  <2>10. Ordenadas'
    BY <1>1, <2>4, <2>5 DEF Vida, Ordenadas
  <2>11. \A q \in Pids \ {p} : Quieto(q)
    BY <1>1, <2>4, <2>5 DEF Quieto
  <2> QED  BY <1>1, <2>2, <2>3, <2>4, <2>7, <2>8, <2>9, <2>10, <2>11, PasoDe
<1> QED  BY <1>4, <1>5

LEMMA LiberarIOVida ==
  ASSUME Tipos, Vida, NEW i \in Interfaces, LiberarIO(i)
  PROVE  Vida'
<1> PICK h : h = [hilos[i] EXCEPT !.pc = "analizar"]
  OBVIOUS
<1>1. /\ hilos[i].pc = "io_liberar" /\ UNCHANGED <<lista, estado, cola_recurso>>
      /\ i \in Hilos /\ Pasa(i, h) /\ io' = [io EXCEPT ![i].libre = TRUE]
  BY DEF LiberarIO, EnPc, Hilos, Sigue
<1>2. /\ hilos[i].p \in Pids /\ estado[hilos[i].p] = "BLOCKED" /\ Suelto(hilos[i].p)
      /\ hilos[i].tiene \intersect {"EXIT", "READY_PRIORIDAD"} = {}
  BY <1>1 DEF Vida, Ubica, SinProceso, EnVuelta
<1>3. h.pc = "analizar" /\ h.p = hilos[i].p /\ h.tiene = hilos[i].tiene
  BY <1>1, TiposDeListas DEF Hilo
<1>4. LosDemas(i) /\ hilos'[i] = h
  BY <1>1, PasaHilo
<1>5. \A j \in Interfaces : io'[j].pedido = io[j].pedido /\ io'[j].espera = io[j].espera
  BY <1>1, TiposDeListas DEF Instancia
<1>6. Ubica(i)'
  <2>1. Suelto(h.p)' /\ estado'[h.p] = "BLOCKED" /\ h.p \in Pids
    BY <1>1, <1>2, <1>3 DEF Suelto, EnLista
  <2> QED  BY <1>2, <1>3, <1>4, <2>1
    DEF Ubica, SinProceso, ConProceso, EnServicio, EnEspera, EnVuelta
<1>7. Ordenadas'
  BY <1>1, <1>5 DEF Vida, Ordenadas
<1>8. \A q \in Pids : Quieto(q)
  BY <1>1, <1>5 DEF Quieto
<1>9. Nadie \notin Pids
  BY NadieNoEsPid
<1> QED  BY <1>1, <1>3, <1>4, <1>6, <1>7, <1>8, <1>9, PasoDe

LEMMA HiloDespachoVida ==
  ASSUME Tipos, Vida, NEW t \in Hilos, HiloDespacho(t)
  PROVE  Vida'
  BY AgregarABlockedVida, MandarIOVida, EncolarIOVida DEF HiloDespacho

LEMMA HiloInterfazVida ==
  ASSUME CasosPrevistos, Tipos, Vida, NEW i \in Interfaces, HiloInterfaz(i)
  PROVE  Vida'
<1>1. CASE SiguienteIOLiberada(i)
  BY <1>1, CaeVida DEF SiguienteIOLiberada
<1> QED
  BY <1>1, FinEntradaSalidaVida, SiguienteIOVida, LiberarIOVida DEF HiloInterfaz

-----------------------------------------------------------------------------
(* The dispatch thread *)

\* Nobody else has the process that is in EXEC.
LEMMA DeExec ==
  ASSUME Vida, hilos[Despacho].pc = "reposo", NEW p \in Pids, EnLista(p, "EXEC")
  PROVE  /\ \A u \in Hilos : hilos[u].p # p
         /\ ~EnCola(p) /\ estado[p] = "EXEC" /\ hilos[Despacho].p = Nadie
         /\ \A k \in Colas : EnLista(p, k) => k = "EXEC"
<1>1. /\ estado[p] = "EXEC" /\ ~Suelto(p) /\ ~EnLista(p, "BLOCKED")
      /\ \A k \in Colas : EnLista(p, k) => k = "EXEC"
  BY DEF Vida, Lugar, Suelto, Colas
<1>2. ~EnCola(p)
  BY <1>1 DEF Vida, Lugar
<1>3. hilos[Despacho].p = Nadie
  BY DespachoEsHilo, PcsAparte DEF Vida, Ubica, SinProceso
<1>4. ASSUME NEW u \in Hilos, hilos[u].p = p PROVE FALSE
  <2>1. Ubica(u) /\ u # Despacho
    BY <1>3, <1>4, NadieNoEsPid DEF Vida
  <2>2. hilos[u].pc \in ConProceso
    BY <2>1, <1>4, NadieNoEsPid DEF Ubica
  <2>3. hilos[u].pc \notin EnServicio \union EnEspera \union EnVuelta
    BY <1>1, <1>4, <2>1 DEF Ubica
  <2>4. hilos[u].pc \in {"nuevo", "plp_ready", "liberar", "liberar_suma",
                         "avisar", "transferir", "agregar", "colgado"}
    BY <2>2, <2>3 DEF ConProceso
  <2> QED  BY <1>1, <1>4, <2>1, <2>4 DEF Ubica
<1> QED  BY <1>1, <1>2, <1>3, <1>4

\* The dispatch thread takes the process of a message, which stays in EXEC.
LEMMA TomaDeExec ==
  ASSUME Tipos, Vida, hilos[Despacho].pc = "reposo",
         NEW p \in Pids, EnLista(p, "EXEC"), NEW h, Pasa(Despacho, h),
         h.p = p, h.pc \in EnServicio, h.tiene = {},
         h.pc = "motivo" => h.op # "DESALOJO_POR_CONSOLA",
         UNCHANGED <<lista, estado, cola_recurso, io>>
  PROVE  Vida'
<1>1. /\ \A u \in Hilos : hilos[u].p # p
      /\ ~EnCola(p) /\ Despacho \in Hilos
  BY DeExec, DespachoEsHilo
<1>2. LosDemas(Despacho) /\ hilos'[Despacho] = h
  BY <1>1, PasaHilo
<1>3. Ubica(Despacho)'
  <2>1. EnLista(p, "EXEC")'
    BY DEF EnLista
  <2>2. /\ h.pc \in ConProceso
        /\ h.pc \notin {"nuevo", "plp_ready", "liberar", "liberar_suma",
                        "avisar", "transferir", "agregar", "buscar", "colgado"}
        /\ h.pc \notin EnEspera /\ h.pc \notin EnVuelta
    BY DEF ConProceso, EnServicio, EnEspera, EnVuelta
  <2> QED  BY <1>2, <2>1, <2>2 DEF Ubica
<1>4. \A l \in Colas : EnLista(p, l)' => estado'[p] = l
  BY DEF Vida, Lugar, EnLista
<1>5. Lugar(p)'
  BY <1>1, <1>2, <1>4, LugarDeNadie
<1>6. Ordenadas'
  BY DEF Vida, Ordenadas
<1>7. \A q \in Pids : Quieto(q)
  BY DEF Quieto
<1> QED  BY <1>1, <1>2, <1>3, <1>5, <1>6, <1>7, PasoDe

LEMMA AtenderIOVida ==
  ASSUME Tipos, Vida, hilos[Despacho].pc = "reposo",
         NEW p \in Pids, EnLista(p, "EXEC"), NEW i, AtenderIO(p, i),
         io' = io
  PROVE  Vida'
<1>1. /\ \A u \in Hilos : hilos[u].p # p
      /\ ~EnCola(p) /\ estado[p] = "EXEC" /\ Despacho \in Hilos
      /\ \A k \in Colas : Contains(lista[k], p) => k = "EXEC"
  BY DeExec, DespachoEsHilo DEF EnLista
<1> PICK op, h : /\ h = [Arranca("transferir", p, i) EXCEPT !.l = "BLOCKED", !.op = op]
                 /\ Pasa(Despacho, h)
  BY DEF AtenderIO
<1>2. h.pc = "transferir" /\ h.p = p /\ h.l = "BLOCKED" /\ h.tiene = {}
  BY DEF Arranca, Reposo
<1>3. LosDemas(Despacho) /\ hilos'[Despacho] = h
  BY <1>1, PasaHilo
<1>4. /\ lista' = [lista EXCEPT !["EXEC"] = Sin(@, p)] /\ "EXEC" \in Colas
      /\ UNCHANGED <<estado, cola_recurso, io>>
  BY DEF AtenderIO, Colas
<1>5. /\ \A k \in Colas : SinRepetir(lista'[k])
      /\ \A q, k : k \in Colas =>
           (Contains(lista'[k], q) <=>
              Contains(lista[k], q) /\ ~(k = "EXEC" /\ q = p))
  BY <1>4, ListaQuita DEF Vida
<1>6. \A k \in Colas : ~EnLista(p, k)'
  BY <1>1, <1>5 DEF EnLista
<1>7. Ubica(Despacho)'
  <2>1. Suelto(p)'
    BY <1>6 DEF Suelto
  <2> QED  BY <1>1, <1>2, <1>3, <1>4, <2>1
    DEF Ubica, SinProceso, ConProceso, EnServicio, EnEspera, EnVuelta
<1>8. Ordenadas'
  BY <1>4, <1>5 DEF Vida, Ordenadas
<1>9. \A q \in Pids \ {p} : Quieto(q)
  BY <1>4, <1>5 DEF Quieto
<1>10. Lugar(p)'
  BY <1>1, <1>3, <1>4, <1>6, LugarDeNadie
<1> QED  BY <1>1, <1>2, <1>3, <1>7, <1>8, <1>9, <1>10, PasoDe

\* What a message finds.
LEMMA AlRecibir ==
  ASSUME Tipos, Cauces, HayMensaje
  PROVE  /\ Actual \in Previstos /\ Actual.p \in Pids
         /\ hilos[Despacho].pc = "reposo" /\ Despacho \in Hilos
<1> DEFINE S == Previstos
<1>1. canal \in Seq(S) /\ canal # <<>> /\ S \subseteq Pedido
  BY DEF Cauces, HayMensaje, Previstos
<1> HIDE DEF S
<1>2. Head(canal) \in S
  BY <1>1
<1>3. Actual \in Pedido
  BY <1>1, <1>2 DEF Actual
<1> QED  BY <1>2, <1>3, PedidoTipo, DespachoEsHilo DEF S, HayMensaje, EnPc, Actual

LEMMA RecibirInstruccionVida ==
  ASSUME Tipos, Vida, Cauces, RecibirInstruccion
  PROVE  Vida'
<1>1. Sirve /\ io' = io
  BY DEF RecibirInstruccion
<1> PICK m : m = Actual
  OBVIOUS
<1> PICK p, x : p = m.p /\ x = m.x
  OBVIOUS
<1>2. /\ m \in Previstos /\ p \in Pids /\ EnLista(p, "EXEC")
      /\ hilos[Despacho].pc = "reposo" /\ Despacho \in Hilos
  BY <1>1, AlRecibir DEF Sirve, Presente
<1>3. CASE m.t = "WAIT" /\ AtenderWait(p, x)
  <2>1. x # Nadie
    BY <1>2, <1>3 DEF Previstos
  <2>2. CASE WaitConcedido(p, x)
    <3> PICK h : h = Arranca("wait_leer", p, x)
      OBVIOUS
    <3>1. Pasa(Despacho, h) /\ UNCHANGED <<lista, estado, cola_recurso>>
      BY <2>2 DEF WaitConcedido
    <3>2. h.pc = "wait_leer" /\ h.p = p /\ h.tiene = {}
      BY ArrancaCampos
    <3> QED  BY <1>1, <1>2, <3>1, <3>2, TomaDeExec DEF EnServicio
  <2>3. CASE WaitNegado(p, x)
    <3> PICK h : h = Arranca("wait_bloquear", p, x)
      OBVIOUS
    <3>1. Pasa(Despacho, h) /\ UNCHANGED <<lista, estado, cola_recurso>>
      BY <2>3 DEF WaitNegado
    <3>2. h.pc = "wait_bloquear" /\ h.p = p /\ h.tiene = {}
      BY ArrancaCampos
    <3> QED  BY <1>1, <1>2, <3>1, <3>2, TomaDeExec DEF EnServicio
  <2> QED  BY <1>3, <2>1, <2>2, <2>3 DEF AtenderWait, WaitDesconocido
<1>4. ASSUME Pasa(Despacho, Arranca("plp_exit", p, Nadie)),
             UNCHANGED <<lista, estado, cola_recurso>>
      PROVE  Vida'
  <2> PICK h : h = Arranca("plp_exit", p, Nadie)
    OBVIOUS
  <2>1. h.pc = "plp_exit" /\ h.p = p /\ h.tiene = {}
    BY ArrancaCampos
  <2> QED  BY <1>1, <1>2, <1>4, <2>1, TomaDeExec DEF EnServicio
<1>5. CASE m.t = "SIGNAL" /\ AtenderSignal(p, x)
  <2>1. CASE SignalAceptado(p, x)
    <3>1. UNCHANGED <<lista, estado, cola_recurso>>
      BY <2>1 DEF SignalAceptado
    <3> PICK h : h = Leido(Arranca("signal_suma", p, x), "signal_suma", x)
      OBVIOUS
    <3>2. Pasa(Despacho, h)
      BY <2>1 DEF SignalAceptado
    <3>3. h.pc = "signal_suma" /\ h.p = p /\ h.tiene = {}
      BY DEF Leido, Arranca, Reposo
    <3> QED  BY <1>1, <1>2, <3>1, <3>2, <3>3, TomaDeExec DEF EnServicio
  <2>2. CASE SignalRechazado(p, x)
    BY <1>4, <2>2 DEF SignalRechazado, DejandoEnExec
  <2> QED  BY <1>5, <2>1, <2>2 DEF AtenderSignal
<1>6. CASE m.t = "IO" /\ AtenderIO(p, x)
  BY <1>1, <1>2, <1>6, AtenderIOVida
<1>7. CASE m.t = "IO_INADMISIBLE" /\ AtenderInadmisible(p, x)
  <2>1. x = "GENERICA"
    BY <1>2, <1>7 DEF Previstos, Pedido
  <2> QED  BY <1>4, <1>7, <2>1 DEF AtenderInadmisible
<1>8. CASE m.t = "IO_DESCONOCIDA" /\ AtenderDesconocida(x)
  BY <1>1, <1>2, <1>8, VuelveVida DEF AtenderDesconocida
<1> QED  BY <1>3, <1>5, <1>6, <1>7, <1>8 DEF RecibirInstruccion

LEMMA RecibirDelCpuVida ==
  ASSUME Tipos, Vida, Cauces, RecibirDelCpu
  PROVE  Vida'
<1>1. CASE RecibirAusente
  BY <1>1, PasoAjeno DEF RecibirAusente
<1>2. CASE RecibirFinalizado
  BY <1>2 DEF RecibirFinalizado, Cauces
<1>3. CASE RecibirInstruccionNulo
  BY <1>3, CaeVida DEF RecibirInstruccionNulo
<1>6. CASE RecibirInadmisibleSinIniciar
  BY <1>6, CaeVida DEF RecibirInadmisibleSinIniciar
<1> PICK m : m = Actual
  OBVIOUS
<1>4. CASE RecibirDesalojo
  <2> PICK h : h = [Arranca("motivo", m.p, Nadie) EXCEPT !.op = m.x]
    OBVIOUS
  <2>1. /\ m \in Previstos /\ m.p \in Pids /\ EnLista(m.p, "EXEC")
        /\ hilos[Despacho].pc = "reposo" /\ m.t = "DESALOJO"
    BY <1>4, AlRecibir DEF RecibirDesalojo, Presente
  <2>2. Pasa(Despacho, h) /\ UNCHANGED <<lista, estado, cola_recurso, io>>
    BY <1>4 DEF RecibirDesalojo
  <2>3. h.pc = "motivo" /\ h.p = m.p /\ h.tiene = {} /\ h.op = m.x
    BY DEF Arranca, Reposo
  <2>4. m.x # "DESALOJO_POR_CONSOLA"
    BY <2>1 DEF Previstos
  <2> QED  BY <2>1, <2>2, <2>3, <2>4, TomaDeExec DEF EnServicio
<1>5. CASE RecibirFin
  <2> PICK h : h = Arranca("plp_exit", m.p, Nadie)
    OBVIOUS
  <2>1. /\ m.p \in Pids /\ EnLista(m.p, "EXEC") /\ hilos[Despacho].pc = "reposo"
    BY <1>5, AlRecibir DEF RecibirFin, Presente
  <2>2. Pasa(Despacho, h) /\ UNCHANGED <<lista, estado, cola_recurso, io>>
    BY <1>5 DEF RecibirFin
  <2>3. h.pc = "plp_exit" /\ h.p = m.p /\ h.tiene = {}
    BY ArrancaCampos
  <2> QED  BY <2>1, <2>2, <2>3, TomaDeExec DEF EnServicio
<1> QED
  BY <1>1, <1>2, <1>3, <1>4, <1>5, <1>6, RecibirInstruccionVida DEF RecibirDelCpu

LEMMA CpuEjecutaVida ==
  ASSUME Vida, CpuEjecuta
  PROVE  Vida'
<1>1. UNCHANGED <<lista, estado, cola_recurso, io, hilos>>
  BY DEF CpuEjecuta, CpuRecibe, CpuEmpieza, CpuInterrupcion, CpuPide,
         CpuRespondido, CpuExit, CpuSinMemoria, CpuVeInterrupcion, CpuSale,
         Desaloja
<1> QED  BY <1>1, PasoAjeno

-----------------------------------------------------------------------------
(* The sockets carry only what is foreseen *)

LEMMA CaucesIgual ==
  ASSUME Cauces, flag_finalizar' \subseteq flag_finalizar,
         sem'["DESALOJO_POR_CONSOLA"] = sem["DESALOJO_POR_CONSOLA"],
         UNCHANGED <<canal, irqs, cpu>>
  PROVE  Cauces'
  BY DEF Cauces

LEMMA LargoPlazoCauces ==
  ASSUME Tipos, Vida, Cauces, NEW t \in Hilos, HiloLargoPlazo(t)
  PROVE  Cauces'
<1>1. ~SegunEstado(t)
  BY SinSegunEstado DEF SegunEstado, EnPc
<1>2. CASE Buscar(t)
  <2>1. hilos[t].op = "fin"
    BY <1>2 DEF Buscar, EnPc, Vida, Ubica
  <2>2. flag_finalizar' = flag_finalizar
    BY <1>2, <2>1 DEF Buscar, Encontrado
  <2> QED  BY <1>2, <2>2, CaucesIgual DEF Buscar
<1>3. CASE AgregarAExit(t)
  <2>1. flag_finalizar' \subseteq flag_finalizar
    BY <1>3 DEF AgregarAExit
  <2> QED  BY <1>3, <2>1, CaucesIgual DEF AgregarAExit
<1>4. CASE UNCHANGED <<flag_finalizar, sem, canal, irqs, cpu>>
  BY <1>4, CaucesIgual
<1> QED
  BY <1>1, <1>2, <1>3, <1>4
  DEF HiloLargoPlazo, Nuevo, TomarNew, TomarCupo, PasarAReady, BuscarNulo,
      SegunEstadoAusente, SalirDeExec, SalirDeExecAusente, LiberarRecurso,
      LiberarSumar, AvisarMemoria, AvisarDesconocido, Transferir, Cae

LEMMA CortoPlazoCauces ==
  ASSUME Tipos, Vida, Cauces, NEW t \in Hilos, HiloCortoPlazo(t)
  PROVE  Cauces'
<1>1. CASE Tomar(t)
  <2>1. sem'["DESALOJO_POR_CONSOLA"] = sem["DESALOJO_POR_CONSOLA"]
    <3>1. sem' = sem \/ sem' = [sem EXCEPT !["PRIORIDAD"] = @ + 1]
      BY <1>1 DEF Tomar
    <3> QED  BY <3>1 DEF Tipos, TypeOK, Motivos
  <2> QED  BY <1>1, <2>1, CaucesIgual DEF Tomar
<1>2. CASE UNCHANGED <<flag_finalizar, sem, canal, irqs, cpu>>
  BY <1>2, CaucesIgual
<1> QED
  BY <1>1, <1>2
  DEF HiloCortoPlazo, MirarReady, TomarExec, TomarReady, TomarSinTimer,
      AtenderMotivo, Reubicar, ReubicarReady, ReubicarAReady, ReubicarAusente,
      Analizar, AnalizarNulo, AgregarAReady, Cae

LEMMA InterrupcionesCauces ==
  ASSUME Tipos, Cauces, Interrupciones
  PROVE  Cauces'
<1>1. CASE VenceQuantum
  <2>1. sem'["DESALOJO_POR_CONSOLA"] = sem["DESALOJO_POR_CONSOLA"]
    BY <1>1 DEF VenceQuantum, Tipos, TypeOK, Motivos
  <2> QED  BY <1>1, <2>1, CaucesIgual DEF VenceQuantum
<1>2. ASSUME NEW m \in Motivos, Interrumpir(m) PROVE Cauces'
  <2>1. m \in MotivosPrevistos
    <3>1. sem[m] > 0 /\ sem["DESALOJO_POR_CONSOLA"] = 0
      BY <1>2 DEF Cauces, Interrumpir, HayQueInterrumpir
    <3>2. m # "DESALOJO_POR_CONSOLA"
      BY <3>1
    <3> QED  BY <3>2 DEF Motivos, MotivosPrevistos
  <2>2. sem'["DESALOJO_POR_CONSOLA"] = sem["DESALOJO_POR_CONSOLA"]
    BY <1>2, <2>1 DEF Interrumpir, Tipos, TypeOK, Motivos, MotivosPrevistos
  <2> DEFINE S == Pids \X MotivosPrevistos
  <2> PICK e : e = <<Head(lista["EXEC"]), m>>
    OBVIOUS
  <2>3. irqs' = Append(irqs, e)
    BY <1>2, <2>1 DEF Interrumpir, Cauces, MotivosPrevistos
  <2>4. e \in S
    <3>1. lista["EXEC"] \in Seq(Pids) /\ lista["EXEC"] # <<>>
      BY <1>2, TiposDeListas DEF Interrumpir, Colas
    <3>2. Head(lista["EXEC"]) \in Pids
      BY <3>1
    <3> QED  BY <2>1, <3>2
  <2>5. irqs \in Seq(S)
    BY DEF Cauces
  <2> HIDE DEF S
  <2>6. irqs' \in Seq(S)
    BY <2>3, <2>4, <2>5
  <2> QED  BY <1>2, <2>2, <2>6 DEF S, Cauces, Interrumpir
<1>3. ASSUME NEW m \in Motivos, InterrumpirNulo(m) PROVE Cauces'
  BY <1>3, CaucesIgual DEF InterrumpirNulo, Cae
<1> QED  BY <1>1, <1>2, <1>3 DEF Interrupciones

LEMMA RecibirCauces ==
  ASSUME Cauces, RecibirDelCpu
  PROVE  Cauces'
<1>1. canal' = canal \/ (canal # <<>> /\ canal' = Tail(canal))
  BY DEF RecibirDelCpu, RecibirAusente, RecibirFinalizado, RecibirInstruccion,
         RecibirInstruccionNulo,
         RecibirInadmisibleSinIniciar, RecibirDesalojo, RecibirFin, Recibido,
         HayMensaje, Sirve, Cae
<1>2. canal' \in Seq(Previstos)
  <2> DEFINE S == Previstos
  <2>1. canal \in Seq(S)
    BY DEF Cauces
  <2> HIDE DEF S
  <2>2. canal' \in Seq(S)
    BY <1>1, <2>1
  <2> QED  BY <2>2 DEF S
<1>3. UNCHANGED <<flag_finalizar, sem, irqs, cpu>>
  BY DEF RecibirDelCpu, RecibirAusente, RecibirFinalizado, RecibirInstruccion,
         RecibirInstruccionNulo,
         RecibirInadmisibleSinIniciar, RecibirDesalojo, RecibirFin, Cae
<1> QED  BY <1>2, <1>3 DEF Cauces

LEMMA PedidosPrevistos ==
  ASSUME CasosPrevistos, Tipos, cpu.ctx \in Pids, NEW m \in Pedidos
  PROVE  m \in Previstos
<1>1. m \in Pedido
  BY PedidosTipo
<1>2. "OTRA" \notin Sucesos /\ "WAIT_DESCONOCIDO" \notin Sucesos
  BY DEF CasosPrevistos
<1>3. Nadie \notin Recursos
  BY KernelAssumption
<1>4. m.t = "WAIT" => m.x # Nadie
  BY <1>2, <1>3 DEF Pedidos, Pide
<1>5. m.t \in {"IO_INADMISIBLE", "IO_DESCONOCIDA"} => m.x # "OTRA"
  BY <1>2 DEF Pedidos, Pide
<1>6. m.t # "DESALOJO"
  BY <1>2 DEF Pedidos, Pide
<1> QED  BY <1>1, <1>4, <1>5, <1>6 DEF Previstos

LEMMA CpuCauces ==
  ASSUME CasosPrevistos, Tipos, Cauces, CpuEjecuta
  PROVE  Cauces'
<1>1. UNCHANGED <<flag_finalizar, sem>>
  BY DEF CpuEjecuta, CpuRecibe, CpuEmpieza, CpuInterrupcion, CpuPide,
         CpuRespondido, CpuExit, CpuSinMemoria, CpuVeInterrupcion, CpuSale,
         Desaloja
<1>2. cpu \in Cpu
  BY DEF Tipos, TypeOK
<1>3. CASE CpuInterrupcion
  <2> DEFINE S == Pids \X MotivosPrevistos
  <2>1. irqs \in Seq(S) /\ irqs # <<>>
    BY <1>3 DEF Cauces, CpuInterrupcion
  <2> HIDE DEF S
  <2>2. Tail(irqs) \in Seq(S) /\ Head(irqs) \in S
    BY <2>1
  <2>3. Head(irqs)[2] \in MotivosPrevistos
    BY <2>2 DEF S
  <2>4. cpu'.irq \in {cpu.irq, Head(irqs)[2]}
    BY <1>2, <1>3 DEF CpuInterrupcion, Cpu
  <2> QED  BY <1>1, <1>3, <2>2, <2>3, <2>4 DEF CpuInterrupcion, Cauces, S
<1>4. CASE CpuPide
  <2>1. PICK m \in Pedidos : canal' = Append(canal, m)
    BY <1>4 DEF CpuPide
  <2>2. m \in Previstos
    BY <1>4, PedidosPrevistos DEF Tipos, CpuConProceso, CpuPide
  <2>3. canal' \in Seq(Previstos)
    BY <2>1, <2>2, AppendProperties DEF Cauces
  <2>4. cpu'.irq = cpu.irq
    BY <1>2, <1>4 DEF CpuPide, Cpu
  <2> QED  BY <1>1, <1>4, <2>3, <2>4 DEF CpuPide, Cauces
<1>5. CASE CpuSale
  <2>1. cpu.ctx \in Pids
    BY <1>5 DEF Tipos, CpuConProceso, CpuSale
  <2> DEFINE d == Pide("DESALOJO", cpu.irq)
             f == Pide(cpu.desalojar, Nadie)
             desalojo == IF cpu.irq # "" /\ cpu.desalojar # "ATENDER_EXIT"
                         THEN <<d>> ELSE <<>>
             fin == IF cpu.desalojar # "" THEN <<f>> ELSE <<>>
  <2>2. cpu.irq # "" => d \in Previstos
    BY <2>1 DEF Cauces, MotivosPrevistos, Motivos, Pide, Pedido, Previstos
  <2>3. cpu.desalojar # "" => f \in Previstos
    BY <1>2, <2>1 DEF Cpu, Pide, Pedido, Previstos
  <2>4. canal' = canal \o desalojo \o fin
    BY <1>5 DEF CpuSale
  <2> HIDE DEF d, f
  <2>5. desalojo \in Seq(Previstos) /\ fin \in Seq(Previstos)
    <3>1. ASSUME NEW m \in Previstos PROVE <<m>> \in Seq(Previstos)
      OBVIOUS
    <3> QED  BY <2>2, <2>3, <3>1, EmptySeq
  <2> HIDE DEF desalojo, fin
  <2>6. canal' \in Seq(Previstos)
    BY <2>4, <2>5, ConcatProperties DEF Cauces
  <2>7. cpu'.irq = ""
    BY <1>2, <1>5 DEF CpuSale, Cpu
  <2> QED  BY <1>1, <1>5, <2>6, <2>7 DEF CpuSale, Cauces
<1>6. CASE CpuRecibe \/ CpuEmpieza \/ CpuRespondido
  <2>1. cpu'.irq = cpu.irq
    BY <1>2, <1>6 DEF CpuRecibe, CpuEmpieza, CpuRespondido, Cpu
  <2> QED  BY <1>1, <1>6, <2>1 DEF CpuRecibe, CpuEmpieza, CpuRespondido, Cauces
<1>7. CASE CpuExit \/ CpuSinMemoria \/ CpuVeInterrupcion
  <2>1. cpu'.irq = cpu.irq
    BY <1>2, <1>7 DEF CpuExit, CpuSinMemoria, CpuVeInterrupcion, Desaloja, Cpu
  <2> QED  BY <1>1, <1>7, <2>1
    DEF CpuExit, CpuSinMemoria, CpuVeInterrupcion, Desaloja, Cauces
<1> QED  BY <1>3, <1>4, <1>5, <1>6, <1>7 DEF CpuEjecuta

-----------------------------------------------------------------------------
(* The invariant *)

VInv == IInv /\ Vida /\ Cauces

LEMMA InitVida == ASSUME Init PROVE Vida /\ Cauces
<1>1. /\ \A l \in Colas : lista[l] = <<>>
      /\ \A r \in Recursos : cola_recurso[r] = <<>>
      /\ \A i \in Interfaces : io[i].pedido = Nadie /\ io[i].espera = <<>>
      /\ \A t \in Hilos : hilos[t] = Reposo
  BY DEF Init
<1>2. Ordenadas
  BY <1>1, NadaEnVacia DEF Ordenadas
<1>3. ASSUME NEW p \in Pids PROVE Lugar(p)
  <2>1. \A i \in Interfaces : ~EnIo(p, i)
    BY <1>1, NadaEnVacia, NadieNoEsPid DEF EnIo
  <2>2. \A r \in Recursos : ~Contains(cola_recurso[r], p)
    BY <1>1, NadaEnVacia
  <2>3. \A t \in Hilos : hilos[t].p # p
    BY <1>1, ReposoLibre, NadieNoEsPid
  <2>4. ~EnCola(p) /\ UnaFicha(p)
    BY <2>1, <2>2, <2>3 DEF EnCola, UnaFicha, EnIo
  <2>5. \A l \in Colas : ~EnLista(p, l)
    BY <1>1, NadaEnVacia DEF EnLista
  <2> QED  BY <2>4, <2>5 DEF Lugar
<1>4. ASSUME NEW t \in Hilos PROVE Ubica(t)
  <2> PICK h : h = hilos[t]
    OBVIOUS
  <2>1. h.pc = "reposo" /\ h.p = Nadie /\ h.tiene = {}
    BY <1>1, ReposoLibre
  <2> QED  BY <2>1 DEF Ubica, SinProceso, EnServicio, EnEspera, EnVuelta
<1>5. Cauces
  BY EmptySeq DEF Init, Cauces, Motivos
<1> QED  BY <1>2, <1>3, <1>4, <1>5 DEF Vida

LEMMA NextVInv ==
  ASSUME CasosPrevistos, VInv, [Next]_vars
  PROVE  VInv'
<1>1. IInv /\ IInv' /\ Tipos /\ Vida /\ Cauces
  BY NextIInv DEF VInv, IInv
<1>2. CASE UNCHANGED vars
  BY <1>1, <1>2, PasoAjeno, CaucesIgual DEF vars, VInv
<1>3. CASE Consola
  <2>1. PICK p \in Pids : IniciarProceso(p)
    BY <1>3 DEF Consola, FinalizarProceso, CasosPrevistos
  <2>2. Cauces'
    BY <1>1, <2>1, CaucesIgual DEF IniciarProceso
  <2> QED  BY <1>1, <2>1, <2>2, IniciarProcesoVida DEF VInv
<1>4. ASSUME NEW t \in Hilos, HilosDelKernel(t) PROVE VInv'
  <2>1. CASE HiloLargoPlazo(t)
    BY <1>1, <2>1, HiloLargoPlazoVida, LargoPlazoCauces DEF VInv
  <2>2. CASE HiloCortoPlazo(t)
    BY <1>1, <2>2, HiloCortoPlazoVida, CortoPlazoCauces DEF VInv
  <2>3. CASE HiloRecursos(t)
    <3>1. UNCHANGED <<flag_finalizar, sem, canal, irqs, cpu>>
      BY <2>3 DEF HiloRecursos, AgregarDesconocido, WaitLeer, WaitRestar, WaitBloquear, WaitEncolar,
                  SignalSumar, Asignar, AsignarRestar, Desbloquear
    <3> QED  BY <1>1, <2>3, <3>1, HiloRecursosVida, CaucesIgual DEF VInv
  <2>4. CASE HiloDespacho(t)
    <3>1. UNCHANGED <<flag_finalizar, sem, canal, irqs, cpu>>
      BY <2>4 DEF HiloDespacho, AgregarABlocked, MandarIO, EncolarIO
    <3> QED  BY <1>1, <2>4, <3>1, HiloDespachoVida, CaucesIgual DEF VInv
  <2> QED  BY <1>4, <2>1, <2>2, <2>3, <2>4 DEF HilosDelKernel
<1>5. ASSUME NEW i \in Interfaces, HiloInterfaz(i) PROVE VInv'
  <2>1. UNCHANGED <<flag_finalizar, sem, canal, irqs, cpu>>
    BY <1>5 DEF HiloInterfaz, FinEntradaSalida, SiguienteIO, SiguienteIOLiberada,
                LiberarIO, Cae
  <2> QED  BY <1>1, <1>5, <2>1, HiloInterfazVida, CaucesIgual DEF VInv
<1>6. CASE RecibirDelCpu
  BY <1>1, <1>6, RecibirDelCpuVida, RecibirCauces DEF VInv
<1>7. CASE Interrupciones
  BY <1>1, <1>7, InterrupcionesVida, InterrupcionesCauces DEF VInv
<1>8. CASE CpuEjecuta
  BY <1>1, <1>8, CpuEjecutaVida, CpuCauces DEF VInv
<1> QED
  BY <1>2, <1>3, <1>4, <1>5, <1>6, <1>7, <1>8 DEF Next, Terminado

LEMMA SpecVInv == CasosPrevistos => (Spec => []VInv)
<1> SUFFICES ASSUME CasosPrevistos PROVE Spec => []VInv
  OBVIOUS
<1>1. Init => VInv
  BY InitIInv, InitVida DEF VInv
<1>2. VInv /\ [Next]_vars => VInv'
  BY NextVInv
<1> QED  BY <1>1, <1>2, PTL DEF Spec

-----------------------------------------------------------------------------
(* One list, the one its state names *)

\* The list that holds a pcb is the one its `estado' names, while a dozen
\* functions of the planners, the resources and the interfaces move it and
\* change the two under different locks (transferir_from_actual_to_siguiente
\* and cambiar_estado, pcb.c).
THEOREM KernelEstadoSegunLista == CasosPrevistos => (Spec => []EstadoSegunLista)
<1>1. VInv => EstadoSegunLista
  BY DEF VInv, Vida, Lugar, EstadoSegunLista
<1> QED  BY <1>1, SpecVInv, PTL

\* A pcb is in at most one list, once: every move removes before it adds, and
\* no two threads ever move the same pcb ("REMOVER ANTES DE USAR", pcb.c).
THEOREM KernelUnaSolaLista == CasosPrevistos => (Spec => []UnaSolaLista)
<1>1. ASSUME VInv, NEW p \in Pids PROVE Cardinality(Apariciones(p)) <= 1
  <2>1. ASSUME NEW x \in Apariciones(p), NEW y \in Apariciones(p) PROVE x = y
    <3>0. /\ x \in Colas \X (1..(MaxPid + 1)) /\ y \in Colas \X (1..(MaxPid + 1))
          /\ x[2] <= Len(lista[x[1]]) /\ lista[x[1]][x[2]] = p
          /\ y[2] <= Len(lista[y[1]]) /\ lista[y[1]][y[2]] = p
      BY <2>1 DEF Apariciones
    <3> PICK l \in Colas, i \in 1..(MaxPid + 1) : x = <<l, i>>
      BY <3>0
    <3> PICK k \in Colas, j \in 1..(MaxPid + 1) : y = <<k, j>>
      BY <3>0
    <3>1. /\ lista[l] \in Seq(Pids) /\ lista[k] \in Seq(Pids)
      BY <1>1, TiposDeListas DEF VInv, IInv
    <3>2. /\ i \in 1..Len(lista[l]) /\ lista[l][i] = p
          /\ j \in 1..Len(lista[k]) /\ lista[k][j] = p
      BY <3>0, <3>1, KernelAssumption
    <3>3. EnLista(p, l) /\ EnLista(p, k)
      BY <3>2 DEF EnLista, Contains
    <3>4. l = k
      BY <1>1, <3>3 DEF VInv, Vida, Lugar
    <3> QED  BY <1>1, <3>2, <3>4 DEF VInv, Vida, Ordenadas, SinRepetir
  <2>2. Apariciones(p) = {} \/ \E x : Apariciones(p) = {x}
    BY <2>1
  <2>3. CASE Apariciones(p) = {}
    BY <2>3, FS_EmptySet
  <2>4. CASE \E x : Apariciones(p) = {x}
    <3> PICK x : Apariciones(p) = {x}
      BY <2>4
    <3>1. Cardinality({x}) = 1
      BY FS_Singleton
    <3> QED  BY <3>1
  <2> QED  BY <2>2, <2>3, <2>4
<1>2. VInv => UnaSolaLista
  BY <1>1 DEF UnaSolaLista
<1> QED  BY <1>2, SpecVInv, PTL

-----------------------------------------------------------------------------
(* How the state of a process may change *)

\* A step of thread t that leaves every other `estado' alone.
Cambia(p, desde, hasta) ==
  /\ p \in Pids /\ estado[p] \in desde /\ estado'[p] \in hasta
  /\ \A q \in Pids \ {p} : estado'[q] = estado[q]

\* The five-state diagram, as the steps of the threads draw it.
Transicion ==
  \/ \E t \in Hilos :
       \/ Nuevo(t) /\ Cambia(hilos[t].p, {"NINGUNO"}, {"NEW"})
       \/ PasarAReady(t) /\ Cambia(hilos[t].p, {"NEW"}, {"READY"})
       \/ /\ Transferir(t) /\ hilos[t].l = "EXIT"
          /\ Cambia(hilos[t].p, {"EXEC"}, {"EXIT"})
       \/ /\ Transferir(t) /\ hilos[t].l # "EXIT"
          /\ \/ Cambia(hilos[t].p, {"EXEC"}, {"BLOCKED"})
             \/ Cambia(hilos[t].p, {"BLOCKED"}, {"READY", "READY_PRIORIDAD"})
       \/ ReubicarAReady(t) /\ Cambia(hilos[t].p, {"EXEC"}, {"READY"})
       \/ /\ Tomar(t) /\ lista[Origen] # <<>> /\ ExecLibre
          /\ Despachar(Origen)
          /\ Cambia(Head(lista[Origen]), {"READY", "READY_PRIORIDAD"}, {"EXEC"})
  \/ estado' = estado

LEMMA NextTransicion ==
  ASSUME VInv, [Next]_vars
  PROVE  Transicion
<1>1. Tipos /\ Vida /\ estado \in [Pids -> Estados]
  BY TiposDeListas DEF VInv, IInv
<1>2. ASSUME NEW t \in Hilos, HiloLargoPlazo(t) PROVE Transicion
  <2> PICK p : p = hilos[t].p
    OBVIOUS
  <2>1. CASE Nuevo(t)
    <3>1. estado' = [estado EXCEPT ![p] = "NEW"] /\ hilos[t].pc = "nuevo"
      BY <2>1 DEF Nuevo, EnPc
    <3>2. p \in Pids /\ estado[p] = "NINGUNO"
      BY <1>1, <3>1 DEF Vida, Ubica, SinProceso
    <3>3. Cambia(p, {"NINGUNO"}, {"NEW"})
      BY <1>1, <3>1, <3>2 DEF Cambia
    <3> QED  BY <2>1, <3>3 DEF Transicion
  <2>2. CASE PasarAReady(t)
    <3>1. estado' = [estado EXCEPT ![p] = "READY"] /\ hilos[t].pc = "plp_ready"
      BY <2>2 DEF PasarAReady, EnPc
    <3>2. p \in Pids /\ estado[p] = "NEW"
      BY <1>1, <3>1 DEF Vida, Ubica, SinProceso
    <3>3. Cambia(p, {"NEW"}, {"READY"})
      BY <1>1, <3>1, <3>2 DEF Cambia
    <3> QED  BY <2>2, <3>3 DEF Transicion
  <2>3. CASE Transferir(t)
    <3> PICK l : l = hilos[t].l
      OBVIOUS
    <3>1. estado' = [estado EXCEPT ![p] = l]
      BY <2>3 DEF Transferir
    <3>2. /\ p \in Pids
          /\ \/ l = "EXIT" /\ estado[p] = "EXEC"
             \/ l = "BLOCKED" /\ estado[p] = "EXEC"
             \/ l \in {"READY", "READY_PRIORIDAD"} /\ estado[p] = "BLOCKED"
      BY <1>1, <2>3, AlTransferir
    <3>3. /\ l = "EXIT" => Cambia(p, {"EXEC"}, {"EXIT"})
          /\ l # "EXIT" => \/ Cambia(p, {"EXEC"}, {"BLOCKED"})
                           \/ Cambia(p, {"BLOCKED"}, {"READY", "READY_PRIORIDAD"})
      BY <1>1, <3>1, <3>2 DEF Cambia
    <3> QED  BY <2>3, <3>3 DEF Transicion
  <2>4. CASE SegunEstado(t)
    BY <1>1, <2>4, SinSegunEstado DEF SegunEstado, EnPc
  <2>5. CASE estado' = estado
    BY <2>5 DEF Transicion
  <2> QED
    BY <1>2, <2>1, <2>2, <2>3, <2>4, <2>5
    DEF HiloLargoPlazo, TomarNew, TomarCupo, Buscar, BuscarNulo,
        SegunEstadoAusente, SalirDeExec, SalirDeExecAusente, LiberarRecurso,
        LiberarSumar, AvisarMemoria, AvisarDesconocido, AgregarAExit, Cae
<1>3. ASSUME NEW t \in Hilos, HiloCortoPlazo(t) PROVE Transicion
  <2>1. CASE Tomar(t) /\ estado' # estado
    <3> PICK l : l = Origen
      OBVIOUS
    <3> PICK p : p = Head(lista[l])
      OBVIOUS
    <3>1. lista[Origen] # <<>> /\ ExecLibre /\ Despachar(Origen)
      BY <2>1 DEF Tomar
    <3>2. l \in {"READY", "READY_PRIORIDAD"} /\ l \in Colas
      BY DEF Origen, Colas
    <3>3. p \in Pids /\ EnLista(p, l)
      <4>1. lista[l] \in Seq(Pids) /\ SinRepetir(lista[l]) /\ lista[l] # <<>>
        BY <1>1, <3>1, <3>2, TiposDeListas DEF Vida, Ordenadas
      <4> QED  BY <4>1, Resto DEF EnLista
    <3>4. estado[p] = l
      BY <1>1, <3>2, <3>3 DEF Vida, Lugar
    <3>5. estado' = [estado EXCEPT ![p] = "EXEC"]
      BY <3>1 DEF Despachar
    <3>6. Cambia(p, {"READY", "READY_PRIORIDAD"}, {"EXEC"})
      BY <1>1, <3>2, <3>3, <3>4, <3>5 DEF Cambia
    <3> QED  BY <2>1, <3>1, <3>6 DEF Transicion
  <2>2. CASE ReubicarAReady(t)
    <3> PICK p : p = hilos[t].p
      OBVIOUS
    <3>1. /\ estado' = [estado EXCEPT ![p] = "READY"]
          /\ hilos[t].pc = "reubicar_prioridad"
      BY <2>2 DEF ReubicarAReady, EnPc, EstadoReady
    <3>2. p \in Pids /\ EnLista(p, "EXEC") /\ "EXEC" \in Colas
      BY <1>1, <3>1 DEF Vida, Ubica, SinProceso, EnServicio, Colas
    <3>3. estado[p] = "EXEC"
      BY <1>1, <3>2 DEF Vida, Lugar
    <3>4. Cambia(p, {"EXEC"}, {"READY"})
      BY <1>1, <3>1, <3>2, <3>3 DEF Cambia
    <3> QED  BY <2>2, <3>4 DEF Transicion
  <2>3. CASE estado' = estado
    BY <2>3 DEF Transicion
  <2> QED
    BY <1>3, <2>1, <2>2, <2>3
    DEF HiloCortoPlazo, MirarReady, TomarExec, TomarReady, TomarSinTimer, AtenderMotivo,
        Reubicar, ReubicarReady, ReubicarAusente, Analizar, AnalizarNulo, AgregarAReady, Cae
<1>4. CASE estado' = estado
  BY <1>4 DEF Transicion
<1>5. ASSUME NEW t \in Hilos, HiloRecursos(t) \/ HiloDespacho(t)
      PROVE  estado' = estado
  BY <1>5 DEF HiloRecursos, HiloDespacho, AgregarDesconocido, WaitLeer, WaitRestar, WaitBloquear,
    WaitEncolar, SignalSumar, Asignar, AsignarRestar, Desbloquear, AgregarABlocked, MandarIO, EncolarIO
<1>6. ASSUME NEW i \in Interfaces, HiloInterfaz(i) PROVE estado' = estado
  BY <1>6 DEF HiloInterfaz, FinEntradaSalida, SiguienteIO, SiguienteIOLiberada,
              LiberarIO, Cae
<1>7. RecibirDelCpu => estado' = estado
  BY DEF RecibirDelCpu, RecibirAusente, RecibirFinalizado, RecibirInstruccion,
         RecibirInstruccionNulo,
         RecibirInadmisibleSinIniciar, RecibirDesalojo, RecibirFin, AtenderWait,
         WaitConcedido, WaitNegado, WaitDesconocido, AtenderSignal,
         SignalAceptado, SignalRechazado, AtenderIO, AtenderInadmisible,
         AtenderDesconocida, Cae
<1>8. Consola \/ Interrupciones \/ CpuEjecuta \/ UNCHANGED vars => estado' = estado
  BY DEF Consola, IniciarProceso, FinalizarProceso, Interrupciones, VenceQuantum,
         Interrumpir, InterrumpirNulo, Cae, CpuEjecuta, CpuRecibe, CpuEmpieza,
         CpuInterrupcion, CpuPide, CpuRespondido, CpuExit, CpuSinMemoria,
         CpuVeInterrupcion, CpuSale, Desaloja, vars
<1> QED
  BY <1>2, <1>3, <1>4, <1>5, <1>6, <1>7, <1>8 DEF Next, HilosDelKernel, Terminado

\* Once in EXIT, always in EXIT: no late answer of an interface, of a resource
\* or of the CPU brings back a process that has ended
\* (transferir_from_actual_to_siguiente, pcb.c).
THEOREM KernelExitEsFinal == CasosPrevistos => (Spec => ExitEsFinal)
<1>1. ASSUME VInv, [Next]_vars, NEW p \in Pids, estado[p] = "EXIT"
      PROVE  estado'[p] = "EXIT"
  <2>1. Transicion
    BY <1>1, NextTransicion
  <2>2. ASSUME NEW q, NEW desde, NEW hasta, Cambia(q, desde, hasta),
               "EXIT" \notin desde
        PROVE  estado'[p] = "EXIT"
    BY <1>1, <2>2 DEF Cambia
  <2> QED  BY <1>1, <2>1, <2>2 DEF Transicion
<1>2. VInv /\ [Next]_vars =>
        [\A p \in Pids : estado[p] = "EXIT" => estado'[p] = "EXIT"]_vars
  BY <1>1
<1> QED  BY <1>2, SpecVInv, PTL DEF Spec, ExitEsFinal

-----------------------------------------------------------------------------
(* The slots of the degree of multiprogramming *)

\* The threads of plp_planifica, each for one process of lista_new.
EsNuevo(h) == h.pc \in {"plp", "plp_cupo"}

Nuevos == {t \in Hilos : EsNuevo(hilos[t])}

\* A thread that counts in none of the sets of CupoConservado.
Corriente(h) ==
  /\ h.pc \notin {"plp", "plp_cupo", "plp_ready"}
  /\ ~(h.pc = "agregar" /\ h.l = "EXIT")

Cupos ==
  /\ IsFiniteSet(Nuevos) /\ Cardinality(Nuevos) = Len(lista["NEW"])
  /\ IsFiniteSet(EnAdmision) /\ IsFiniteSet(EnSalida)
  /\ CupoConservado

\* No thread enters or leaves the sets, and nothing else they are weighed
\* against changes.
HilosAparte ==
  \A u \in Hilos : \/ hilos'[u] = hilos[u]
                   \/ Corriente(hilos[u]) /\ Corriente(hilos'[u])

Aparte == HilosAparte /\ cupo' = cupo /\ lista'["NEW"] = lista["NEW"]

LEMMA ApartePasa ==
  ASSUME Tipos, NEW t \in Hilos, NEW h, Pasa(t, h),
         Corriente(hilos[t]), Corriente(h)
  PROVE  HilosAparte
  BY PasaHilo DEF HilosAparte

LEMMA ApartePc ==
  ASSUME Tipos, NEW t \in Hilos, NEW pc, Sigue(t, pc), Corriente(hilos[t]),
         \/ pc \notin {"plp", "plp_cupo", "plp_ready", "agregar"}
         \/ pc = "agregar" /\ hilos[t].l # "EXIT"
  PROVE  HilosAparte
<1> PICK h : h = [hilos[t] EXCEPT !.pc = pc]
  OBVIOUS
<1>1. h.pc = pc /\ h.l = hilos[t].l
  BY TiposDeListas DEF Hilo
<1> QED  BY <1>1, ApartePasa DEF Sigue, Corriente

LEMMA AparteLibre ==
  ASSUME Tipos, NEW t \in Hilos, Corriente(hilos[t]),
         Vuelve(t) \/ \E ms : Pasa(t, LlamaPcp(t, ms))
  PROVE  HilosAparte
<1>1. Corriente(Reposo) /\ \A ms : Corriente(LlamaPcp(t, ms))
  BY ReposoLibre, PcpLibre DEF Corriente
<1> QED  BY <1>1, ApartePasa DEF Vuelve

LEMMA AparteLanza ==
  ASSUME Tipos, NEW n, Lanza(n), Corriente(n)
  PROVE  HilosAparte
<1> PICK d \in Hilos : /\ hilos[d].pc = "reposo" /\ hilos'[d] = n
                       /\ \A u \in Hilos \ {d} : hilos'[u] = hilos[u]
  BY LanzaHilo
<1> QED  BY DEF HilosAparte, Corriente

LEMMA AparteLanzaOtro ==
  ASSUME Tipos, NEW t \in Hilos, NEW h, NEW n, PasaYLanza(t, h, n),
         hilos[t].pc # "reposo", Corriente(hilos[t]), Corriente(h), Corriente(n)
  PROVE  HilosAparte
<1> PICK d \in Desprendidos : /\ hilos[d].pc = "reposo"
                              /\ hilos' = [hilos EXCEPT ![t] = h, ![d] = n]
  BY DEF PasaYLanza
<1>1. d \in Hilos /\ d # t
  BY DEF Hilos
<1>2. /\ hilos'[t] = h /\ hilos'[d] = n
      /\ \A u \in Hilos \ {t, d} : hilos'[u] = hilos[u]
  BY <1>1, TiposDeListas
<1> QED  BY <1>2 DEF HilosAparte, Corriente

LEMMA AparteCupos ==
  ASSUME Cupos, Aparte, Admitidos' = Admitidos
  PROVE  Cupos'
<1>1. \A u \in Hilos :
        /\ EsNuevo(hilos'[u]) <=> EsNuevo(hilos[u])
        /\ hilos'[u].pc = "plp_ready" <=> hilos[u].pc = "plp_ready"
        /\ \/ hilos'[u] = hilos[u]
           \/ /\ ~(hilos'[u].pc = "agregar" /\ hilos'[u].l = "EXIT")
              /\ ~(hilos[u].pc = "agregar" /\ hilos[u].l = "EXIT")
  BY DEF Aparte, HilosAparte, Corriente, EsNuevo
<1>2. Nuevos' = Nuevos
  BY <1>1 DEF Nuevos
<1>3. EnAdmision' = EnAdmision
  BY <1>1 DEF EnAdmision
<1>4. EnSalida' = EnSalida
  BY <1>1 DEF EnSalida
<1> QED  BY <1>2, <1>3, <1>4 DEF Cupos, CupoConservado, Aparte

\* Nobody starts, is admitted or ends.
LEMMA LargoPlazoAparte ==
  ASSUME Tipos, Vida, NEW t \in Hilos, HiloLargoPlazo(t),
         ~Nuevo(t), ~TomarNew(t), ~TomarCupo(t), ~PasarAReady(t),
         Transferir(t) => hilos[t].l # "EXIT", ~AgregarAExit(t)
  PROVE  Aparte
<1> PICK p : p = hilos[t].p
  OBVIOUS
<1>1. CASE Buscar(t)
  <2> PICK l : l = hilos[t].l
    OBVIOUS
  <2>1. /\ hilos[t].pc = "buscar" /\ hilos[t].op = "fin" /\ cupo' = cupo
        /\ EnLista(p, "BLOCKED") /\ p \in Pids
    BY <1>1 DEF Buscar, EnPc, Vida, Ubica, SinProceso, EnEspera
  <2>2. ~EnLista(p, "NEW")
    BY <2>1 DEF Vida, Lugar, Colas
  <2>3. lista'["NEW"] = lista["NEW"]
    <3>1. \/ lista' = lista
          \/ l \in {"READY", "BLOCKED"} /\ lista' = [lista EXCEPT ![l] = Sin(@, p)]
      BY <1>1, <2>2 DEF Buscar
    <3> QED  BY <3>1, TiposDeListas DEF Colas
  <2>4. \E h : Pasa(t, h) /\ h.pc \in {"io_siguiente", "buscar"}
    <3>1. \/ \E q : Encontrado(t, q)
          \/ Pasa(t, [hilos[t] EXCEPT !.l = Siguiente[l]])
      BY <1>1 DEF Buscar
    <3>2. CASE \E q : Encontrado(t, q)
      <4> PICK q : Encontrado(t, q)
        BY <3>2
      <4> PICK h : h = [hilos[t] EXCEPT !.pc = "io_siguiente", !.p = q, !.l = ""]
        OBVIOUS
      <4>1. h.pc = "io_siguiente"
        BY TiposDeListas DEF Hilo
      <4> QED  BY <2>1, <4>1 DEF Encontrado
    <3>3. CASE Pasa(t, [hilos[t] EXCEPT !.l = Siguiente[l]])
      <4> PICK h : h = [hilos[t] EXCEPT !.l = Siguiente[l]]
        OBVIOUS
      <4>1. h.pc = "buscar"
        BY <2>1, TiposDeListas DEF Hilo
      <4> QED  BY <3>3, <4>1
    <3> QED  BY <3>1, <3>2, <3>3
  <2>5. HilosAparte
    BY <2>1, <2>4, ApartePasa DEF Corriente
  <2> QED  BY <2>1, <2>3, <2>5 DEF Aparte
<1>2. CASE SalirDeExec(t)
  <2>1. /\ hilos[t].pc \in {"plp_exit", "desalojar"}
        /\ lista' = [lista EXCEPT !["EXEC"] = Sin(@, p)] /\ cupo' = cupo
        /\ \E op : Terminar(t, op, "EXEC", recursos_pcb[p])
    BY <1>2 DEF SalirDeExec, EnPc
  <2> PICK op, rs : Terminar(t, op, "EXEC", rs)
    BY <2>1
  <2> PICK h : h = [hilos[t] EXCEPT !.pc = IF rs = <<>> THEN "avisar" ELSE "liberar",
                                    !.op = op, !.rs = rs, !.tiene = {"EXEC"}]
    OBVIOUS
  <2>2. h.pc \in {"avisar", "liberar"}
    BY TiposDeListas DEF Hilo
  <2>3. HilosAparte
    BY <2>1, <2>2, ApartePasa DEF Terminar, Corriente
  <2> QED  BY <2>1, <2>3, TiposDeListas DEF Aparte, Colas
<1>3. CASE LiberarRecurso(t)
  <2> PICK g : g = OtroRecurso(hilos[t])
    OBVIOUS
  <2> PICK k, m : k = instancias[Head(hilos[t].rs)] /\ m = Head(hilos[t].rs)
    OBVIOUS
  <2> PICK h : h = [hilos[t] EXCEPT !.pc = "liberar_suma", !.n = k,
                                    !.tiene = hilos[t].tiene \union {m}]
    OBVIOUS
  <2>1. /\ hilos[t].pc = "liberar" /\ lista' = lista /\ cupo' = cupo
        /\ Pasa(t, g) \/ Pasa(t, h)
    BY <1>3 DEF LiberarRecurso, EnPc
  <2>2. g.pc \in {"avisar", "liberar"} /\ h.pc = "liberar_suma"
    BY TiposDeListas DEF Hilo, OtroRecurso
  <2>3. HilosAparte
    BY <2>1, <2>2, ApartePasa DEF Corriente
  <2> QED  BY <2>1, <2>3 DEF Aparte
<1>8. CASE LiberarSumar(t)
  <2> PICK m : m = Head(hilos[t].rs)
    OBVIOUS
  <2> PICK h : h = [OtroRecurso(hilos[t]) EXCEPT !.n = 0, !.tiene = @ \ {m}]
    OBVIOUS
  <2> PICK n : n = Arranca("asignar", Nadie, m)
    OBVIOUS
  <2>1. /\ hilos[t].pc = "liberar_suma" /\ lista' = lista /\ cupo' = cupo
        /\ PasaYLanza(t, h, n) /\ hilos[t].rs # <<>>
    BY <1>8 DEF LiberarSumar, EnPc, Tipos, HilosBien, Argumentos
  <2>2. h.pc \in {"avisar", "liberar"} /\ n.pc = "asignar"
    BY <2>1, OtroRecursoLibera, ArrancaCampos
  <2>3. HilosAparte
    BY <2>1, <2>2, AparteLanzaOtro DEF Corriente
  <2> QED  BY <2>1, <2>3 DEF Aparte
<1>4. CASE AvisarMemoria(t)
  <2> PICK h : h = [hilos[t] EXCEPT !.pc = "transferir", !.l = "EXIT"]
    OBVIOUS
  <2>1. /\ hilos[t].pc = "avisar" /\ lista' = lista /\ cupo' = cupo /\ Pasa(t, h)
    BY <1>4 DEF AvisarMemoria, EnPc
  <2>2. h.pc = "transferir"
    BY TiposDeListas DEF Hilo
  <2>3. HilosAparte
    BY <2>1, <2>2, ApartePasa DEF Corriente
  <2> QED  BY <2>1, <2>3 DEF Aparte
<1>5. CASE Transferir(t)
  <2>1. /\ hilos[t].pc = "transferir" /\ lista' = lista /\ cupo' = cupo
        /\ hilos[t].l # "EXIT"
        /\ Sigue(t, "agregar") \/ Sigue(t, "colgado")
    BY <1>5, AlTransferir DEF Transferir
  <2> QED  BY <2>1, ApartePc DEF Aparte, Corriente
<1>6. CASE UNCHANGED <<hilos, lista, cupo>>
  BY <1>6 DEF Aparte, HilosAparte
<1>7. ~SegunEstado(t)
  BY SinSegunEstado DEF SegunEstado, EnPc
<1> QED
  BY <1>1, <1>2, <1>3, <1>4, <1>5, <1>6, <1>7, <1>8
  DEF HiloLargoPlazo, BuscarNulo, SegunEstadoAusente, SalirDeExecAusente,
      AvisarDesconocido, Cae

LEMMA CortoPlazoAparte ==
  ASSUME Tipos, Vida, NEW t \in Hilos, HiloCortoPlazo(t)
  PROVE  Aparte
<1>1. CASE MirarReady(t)
  <2>1. hilos[t].pc = "pcp" /\ (Vuelve(t) \/ Sigue(t, "pcp_exec"))
    BY <1>1 DEF MirarReady, EnPc, VistoReady, Sigue
  <2>2. HilosAparte
    BY <2>1, AparteLibre, ApartePc DEF Corriente
  <2> QED  BY <1>1, <2>2 DEF MirarReady, Aparte
<1>2. CASE TomarExec(t)
  <2>1. hilos[t].pc = "pcp_exec" /\ (Vuelve(t) \/ Pasa(t, ReteniendoExec(t)))
    BY <1>2 DEF TomarExec, EnPc
  <2>2. ReteniendoExec(t).pc = "pcp_tomar"
    BY TiposDeListas DEF ReteniendoExec, Hilo
  <2>3. HilosAparte
    BY <2>1, <2>2, AparteLibre, ApartePasa DEF Corriente
  <2> QED  BY <1>2, <2>3 DEF TomarExec, Aparte
<1>3. CASE Tomar(t)
  <2> PICK l : l = Origen
    OBVIOUS
  <2>1. /\ hilos[t].pc \in {"pcp_tomar", "pcp_prioridad"} /\ Vuelve(t)
        /\ cupo' = cupo
    BY <1>3 DEF Tomar, PuedeTomar, EnPc
  <2>2. HilosAparte
    BY <2>1, AparteLibre DEF Corriente
  <2>3. \/ lista' = lista
        \/ lista' = [lista EXCEPT ![l] = Tail(@),
                                  !["EXEC"] = Append(@, Head(lista[l]))]
    BY <1>3 DEF Tomar, Despachar
  <2>4. l # "NEW"
    BY DEF Origen
  <2>5. lista'["NEW"] = lista["NEW"]
    BY <2>3, <2>4, TiposDeListas DEF Colas
  <2> QED  BY <2>1, <2>2, <2>5 DEF Aparte
<1>4. CASE AtenderMotivo(t)
  <2> PICK n : n = Arranca("desalojar", hilos[t].p, Nadie)
    OBVIOUS
  <2>1. /\ hilos[t].pc = "motivo" /\ lista' = lista /\ cupo' = cupo
        /\ \/ Sigue(t, "desalojar") \/ PasaYLanza(t, Reposo, n)
           \/ Sigue(t, "reubicar")
    BY <1>4 DEF AtenderMotivo, EnPc
  <2>2. n.pc = "desalojar"
    BY ArrancaCampos
  <2>3. HilosAparte
    BY <2>1, <2>2, ApartePc, AparteLanzaOtro, ReposoLibre DEF Corriente
  <2> QED  BY <2>1, <2>3 DEF Aparte
<1>5. CASE Reubicar(t)
  <2> PICK h : h = [hilos[t] EXCEPT !.pc = "reubicar_ready", !.tiene = {"EXEC"}]
    OBVIOUS
  <2>1. hilos[t].pc = "reubicar" /\ Pasa(t, h) /\ lista' = lista /\ cupo' = cupo
    BY <1>5 DEF Reubicar, EnPc
  <2>2. h.pc = "reubicar_ready"
    BY TiposDeListas DEF Hilo
  <2>3. HilosAparte
    BY <2>1, <2>2, ApartePasa DEF Corriente
  <2> QED  BY <2>1, <2>3 DEF Aparte
<1>6. CASE ReubicarAReady(t)
  <2> PICK p : p = hilos[t].p
    OBVIOUS
  <2>1. /\ hilos[t].pc = "reubicar_prioridad" /\ Pasa(t, LlamaPcp(t, {}))
        /\ lista' = [lista EXCEPT !["EXEC"] = Sin(@, p), !["READY"] = Append(@, p)]
        /\ cupo' = cupo
    BY <1>6 DEF ReubicarAReady, EnPc, Replanificar
  <2>2. HilosAparte
    BY <2>1, AparteLibre DEF Corriente
  <2> QED  BY <2>1, <2>2, TiposDeListas DEF Aparte, Colas
<1>10. CASE TomarReady(t) \/ ReubicarReady(t)
  <2> PICK m : m = hilos[t].tiene \union {"READY"}
    OBVIOUS
  <2> PICK g, h : /\ g = [hilos[t] EXCEPT !.pc = "pcp_prioridad", !.tiene = m]
                  /\ h = [hilos[t] EXCEPT !.pc = "reubicar_prioridad", !.tiene = m]
    OBVIOUS
  <2>1. /\ hilos[t].pc \in {"pcp_tomar", "reubicar_ready"} /\ lista' = lista
        /\ cupo' = cupo
        /\ Pasa(t, g) \/ Pasa(t, h)
    BY <1>10 DEF TomarReady, ReubicarReady, EnPc
  <2>2. g.pc = "pcp_prioridad" /\ h.pc = "reubicar_prioridad"
    BY TiposDeListas DEF Hilo
  <2>3. HilosAparte
    BY <2>1, <2>2, ApartePasa DEF Corriente
  <2> QED  BY <2>1, <2>3 DEF Aparte
<1>7. CASE Analizar(t)
  <2> PICK l \in Destinos(hilos[t].p) :
        Pasa(t, [hilos[t] EXCEPT !.pc = "transferir", !.l = l])
    BY <1>7 DEF Analizar
  <2> PICK h : h = [hilos[t] EXCEPT !.pc = "transferir", !.l = l]
    OBVIOUS
  <2>1. hilos[t].pc = "analizar" /\ Pasa(t, h) /\ lista' = lista /\ cupo' = cupo
    BY <1>7 DEF Analizar, EnPc
  <2>2. h.pc = "transferir"
    BY TiposDeListas DEF Hilo
  <2>3. HilosAparte
    BY <2>1, <2>2, ApartePasa DEF Corriente
  <2> QED  BY <2>1, <2>3 DEF Aparte
<1>8. CASE AgregarAReady(t)
  <2> PICK l \in {"READY", "READY_PRIORIDAD"} : Agregar(t, l)
    BY <1>8 DEF AgregarAReady
  <2> PICK p : p = hilos[t].p
    OBVIOUS
  <2>1. /\ hilos[t].pc = "agregar" /\ hilos[t].l # "EXIT"
        /\ lista' = [lista EXCEPT ![l] = Append(@, p)]
        /\ \E ms : Pasa(t, LlamaPcp(t, ms))
        /\ cupo' = cupo
    BY <1>8 DEF AgregarAReady, Agregar, EnPc
  <2>2. HilosAparte
    BY <2>1, AparteLibre DEF Corriente
  <2> QED  BY <2>1, <2>2, TiposDeListas DEF Aparte, Colas
<1>9. CASE UNCHANGED <<hilos, lista, cupo>>
  BY <1>9 DEF Aparte, HilosAparte
<1> QED
  BY <1>1, <1>2, <1>3, <1>4, <1>5, <1>6, <1>7, <1>8, <1>9, <1>10
  DEF HiloCortoPlazo, TomarSinTimer, ReubicarAusente, AnalizarNulo, Cae

LEMMA RecursosAparte ==
  ASSUME Tipos, Vida, NEW t \in Hilos, HiloRecursos(t)
  PROVE  Aparte
<1> PICK p : p = hilos[t].p
  OBVIOUS
<1>1. ~AgregarDesconocido(t)
  BY DEF AgregarDesconocido, Agregar, EnPc, Vida, Ubica
<1>2. CASE WaitBloquear(t)
  <2> PICK s : s = ExecSinCabeza
    OBVIOUS
  <2>1. /\ hilos[t].pc = "wait_bloquear" /\ Pasa(t, ABlocked(t)) /\ cupo' = cupo
        /\ lista' = [lista EXCEPT !["EXEC"] = s]
    BY <1>2 DEF WaitBloquear, EnPc
  <2>2. ABlocked(t).pc = "transferir"
    BY TiposDeListas DEF ABlocked, Hilo
  <2>3. HilosAparte
    BY <2>1, <2>2, ApartePasa DEF Corriente
  <2> QED  BY <2>1, <2>3, TiposDeListas DEF Aparte, Colas
<1>3. CASE WaitEncolar(t)
  <2>1. /\ hilos[t].pc = "wait_encolar" /\ lista' = lista /\ cupo' = cupo
        /\ Pasa(t, LlamaPcp(t, {})) \/ Sigue(t, "colgado")
    BY <1>3 DEF WaitEncolar, EnPc
  <2> QED  BY <2>1, AparteLibre, ApartePc DEF Corriente, Aparte
<1>4. CASE Asignar(t)
  <2> PICK r : r = hilos[t].r
    OBVIOUS
  <2> PICK h : h = [Leido(hilos[t], "asignar_resta", r) EXCEPT
                      !.p = Head(cola_recurso[r]), !.tiene = {r}]
    OBVIOUS
  <2>1. /\ hilos[t].pc = "asignar" /\ lista' = lista /\ cupo' = cupo
        /\ Vuelve(t) \/ Pasa(t, h)
    BY <1>4 DEF Asignar, EnPc
  <2>2. h.pc = "asignar_resta"
    BY TiposDeListas DEF Hilo, Leido
  <2> QED  BY <2>1, <2>2, AparteLibre, ApartePasa DEF Corriente, Aparte
<1>5. CASE Desbloquear(t)
  <2> PICK h : h = [hilos[t] EXCEPT !.pc = "analizar", !.op = "asignar",
                                    !.tiene = @ \union {"BLOCKED"}]
    OBVIOUS
  <2>1. /\ hilos[t].pc = "desbloquear" /\ cupo' = cupo
        /\ lista' = lista \/ lista' = [lista EXCEPT !["BLOCKED"] = Sin(@, p)]
        /\ Pasa(t, h) \/ \E ms : Pasa(t, LlamaPcp(t, ms))
    BY <1>5 DEF Desbloquear, EnPc
  <2>2. h.pc = "analizar"
    BY TiposDeListas DEF Hilo
  <2>3. HilosAparte
    BY <2>1, <2>2, AparteLibre, ApartePasa DEF Corriente
  <2> QED  BY <2>1, <2>3, TiposDeListas DEF Aparte, Colas
<1>6. CASE WaitLeer(t)
  <2> PICK h : h = Leido(hilos[t], "wait_resta", hilos[t].r)
    OBVIOUS
  <2>1. hilos[t].pc = "wait_leer" /\ lista' = lista /\ cupo' = cupo /\ Pasa(t, h)
    BY <1>6 DEF WaitLeer, EnPc
  <2>2. h.pc = "wait_resta"
    BY TiposDeListas DEF Hilo, Leido
  <2> QED  BY <2>1, <2>2, ApartePasa DEF Corriente, Aparte
<1>7. CASE WaitRestar(t) \/ SignalSumar(t)
  <2> PICK h : h = Arranca("asignar", Nadie, hilos[t].r)
    OBVIOUS
  <2>1. /\ hilos[t].pc \in {"wait_resta", "signal_suma"} /\ lista' = lista
        /\ cupo' = cupo
        /\ Vuelve(t) \/ Pasa(t, h)
    BY <1>7 DEF WaitRestar, SignalSumar, EnPc
  <2>2. h.pc = "asignar"
    BY ArrancaCampos
  <2> QED  BY <2>1, <2>2, AparteLibre, ApartePasa DEF Corriente, Aparte
<1>8. CASE AsignarRestar(t)
  <2> PICK h : h = [hilos[t] EXCEPT !.pc = "desbloquear", !.n = 0]
    OBVIOUS
  <2>1. /\ hilos[t].pc = "asignar_resta" /\ lista' = lista /\ cupo' = cupo
        /\ Pasa(t, h)
    BY <1>8 DEF AsignarRestar, EnPc
  <2>2. h.pc = "desbloquear"
    BY TiposDeListas DEF Hilo
  <2> QED  BY <2>1, <2>2, ApartePasa DEF Corriente, Aparte
<1> QED  BY <1>1, <1>2, <1>3, <1>4, <1>5, <1>6, <1>7, <1>8 DEF HiloRecursos

LEMMA DespachoAparte ==
  ASSUME Tipos, NEW t \in Hilos, HiloDespacho(t)
  PROVE  Aparte
<1> PICK p : p = hilos[t].p
  OBVIOUS
<1>1. CASE AgregarABlocked(t)
  <2>1. /\ hilos[t].pc = "agregar" /\ hilos[t].l = "BLOCKED" /\ cupo' = cupo
        /\ lista' = [lista EXCEPT !["BLOCKED"] = Append(@, p)]
        /\ \/ Sigue(t, "wait_encolar") \/ Sigue(t, "io_mandar")
           \/ Sigue(t, "io_encolar")
    BY <1>1 DEF AgregarABlocked, Agregar, EnPc
  <2>2. HilosAparte
    BY <2>1, ApartePc DEF Corriente
  <2> QED  BY <2>1, <2>2, TiposDeListas DEF Aparte, Colas
<1>2. CASE MandarIO(t) \/ EncolarIO(t)
  <2>1. /\ hilos[t].pc \in {"io_mandar", "io_encolar"} /\ lista' = lista
        /\ cupo' = cupo /\ (Vuelve(t) \/ Pasa(t, LlamaPcp(t, {})))
    BY <1>2 DEF MandarIO, EncolarIO, EnPc
  <2> QED  BY <2>1, AparteLibre DEF Corriente, Aparte
<1> QED  BY <1>1, <1>2 DEF HiloDespacho

LEMMA InterfazAparte ==
  ASSUME Tipos, NEW i \in Interfaces, HiloInterfaz(i)
  PROVE  Aparte
<1>0. i \in Hilos
  BY DEF Hilos
<1>1. CASE FinEntradaSalida(i)
  <2> PICK p : p = io[i].pedido
    OBVIOUS
  <2> PICK q : q = IF EnLista(p, "BLOCKED") THEN p ELSE Nadie
    OBVIOUS
  <2> PICK g : g = Arranca("plp_exit", q, Nadie)
    OBVIOUS
  <2> PICK h : h = [Arranca("buscar", p, Nadie) EXCEPT !.op = "fin", !.l = "NEW"]
    OBVIOUS
  <2>1. /\ hilos[i].pc = "reposo" /\ lista' = lista /\ cupo' = cupo
        /\ Pasa(i, h) \/ Pasa(i, g)
    BY <1>1 DEF FinEntradaSalida, EnPc
  <2>2. h.pc = "buscar" /\ g.pc = "plp_exit"
    BY DEF Arranca, Reposo
  <2> QED  BY <1>0, <2>1, <2>2, ApartePasa DEF Corriente, Aparte
<1>2. CASE SiguienteIO(i) \/ LiberarIO(i)
  <2>1. /\ hilos[i].pc \in {"io_siguiente", "io_liberar"} /\ lista' = lista
        /\ cupo' = cupo /\ (Sigue(i, "analizar") \/ Sigue(i, "io_liberar"))
    BY <1>2 DEF SiguienteIO, LiberarIO, EnPc
  <2> QED  BY <1>0, <2>1, ApartePc DEF Corriente, Aparte
<1>3. CASE SiguienteIOLiberada(i)
  BY <1>3 DEF SiguienteIOLiberada, Cae, Aparte, HilosAparte
<1> QED  BY <1>1, <1>2, <1>3 DEF HiloInterfaz

LEMMA RecibirAparte ==
  ASSUME Tipos, RecibirDelCpu
  PROVE  Aparte
<1> PICK p, x, y : p = Actual.p /\ x = Actual.x /\ y = Actual.t
  OBVIOUS
<1>0. Despacho \in Hilos
  BY DespachoEsHilo
<1> DEFINE Llegar == {"reposo", "wait_leer", "wait_bloquear", "transferir",
                      "signal_suma", "plp_exit", "buscar", "motivo"}
<1>1. ASSUME hilos[Despacho].pc = "reposo", NEW h, Pasa(Despacho, h), h.pc \in Llegar
      PROVE  HilosAparte
  <2>1. Corriente(hilos[Despacho]) /\ Corriente(h)
    BY <1>1 DEF Corriente
  <2> QED  BY <1>0, <1>1, <2>1, ApartePasa
<1>2. \A pc, q, r : Arranca(pc, q, r).pc = pc
  BY ArrancaCampos
<1>3. CASE RecibirInstruccion
  <2>1. hilos[Despacho].pc = "reposo" /\ cupo' = cupo
    BY <1>3 DEF RecibirInstruccion, Sirve, HayMensaje, EnPc
  <2>2. CASE AtenderWait(p, x)
    <3> PICK h : h = [Arranca("transferir", p, Nadie) EXCEPT !.op = "wait",
                                                             !.l = "EXIT"]
      OBVIOUS
    <3>1. h.pc = "transferir"
      BY DEF Arranca, Reposo
    <3>2. /\ \/ Pasa(Despacho, Arranca("wait_leer", p, x)) \/ Pasa(Despacho, h)
             \/ Pasa(Despacho, Arranca("wait_bloquear", p, x))
          /\ lista' = lista
      BY <2>2 DEF AtenderWait, WaitConcedido, WaitNegado, WaitDesconocido
    <3>3. HilosAparte
      <4>1. CASE Pasa(Despacho, Arranca("wait_leer", p, x))
        BY <1>1, <1>2, <2>1, <4>1
      <4>2. CASE Pasa(Despacho, h)
        BY <1>1, <2>1, <3>1, <4>2
      <4>3. CASE Pasa(Despacho, Arranca("wait_bloquear", p, x))
        BY <1>1, <1>2, <2>1, <4>3
      <4> QED  BY <3>2, <4>1, <4>2, <4>3
    <3> QED  BY <2>1, <3>2, <3>3 DEF Aparte
  <2>3. CASE AtenderSignal(p, x)
    <3> PICK h : h = Leido(Arranca("signal_suma", p, x), "signal_suma", x)
      OBVIOUS
    <3>1. /\ \/ Pasa(Despacho, h)
             \/ Pasa(Despacho, Arranca("plp_exit", p, Nadie))
          /\ lista' = lista
      BY <2>3 DEF AtenderSignal, SignalAceptado, SignalRechazado, DejandoEnExec
    <3>3. h.pc = "signal_suma"
      BY DEF Leido, Arranca, Reposo
    <3>2. HilosAparte
      BY <1>1, <1>2, <2>1, <3>1, <3>3
    <3> QED  BY <2>1, <3>1, <3>2 DEF Aparte
  <2>4. CASE AtenderIO(p, x)
    <3> PICK o : o = IF io[x].libre THEN "io_libre" ELSE "io_ocupada"
      OBVIOUS
    <3> PICK h : h = [Arranca("transferir", p, x) EXCEPT !.l = "BLOCKED", !.op = o]
      OBVIOUS
    <3>1. h.pc = "transferir"
      BY DEF Arranca, Reposo
    <3>2. /\ lista' = [lista EXCEPT !["EXEC"] = Sin(@, p)]
          /\ Pasa(Despacho, h)
      BY <2>4 DEF AtenderIO
    <3>3. HilosAparte
      BY <1>1, <2>1, <3>1, <3>2
    <3> QED  BY <2>1, <3>2, <3>3, TiposDeListas DEF Aparte, Colas
  <2>5. CASE AtenderInadmisible(p, x) \/ AtenderDesconocida(x)
    <3> PICK h : h = [Arranca("buscar", p, Nadie) EXCEPT !.op = "finalizar",
                                                         !.l = "NEW"]
      OBVIOUS
    <3>1. h.pc = "buscar"
      BY DEF Arranca, Reposo
    <3>2. /\ \/ Pasa(Despacho, Reposo) \/ Pasa(Despacho, h)
             \/ Pasa(Despacho, Arranca("plp_exit", p, Nadie))
          /\ lista' = lista
      BY <2>5 DEF AtenderInadmisible, AtenderDesconocida, Vuelve
    <3>3. HilosAparte
      <4>1. CASE Pasa(Despacho, Reposo)
        BY <1>1, <2>1, <4>1, ReposoLibre
      <4>2. CASE Pasa(Despacho, h)
        BY <1>1, <2>1, <3>1, <4>2
      <4>3. CASE Pasa(Despacho, Arranca("plp_exit", p, Nadie))
        BY <1>1, <1>2, <2>1, <4>3
      <4> QED  BY <3>2, <4>1, <4>2, <4>3
    <3> QED  BY <2>1, <3>2, <3>3 DEF Aparte
  <2> QED  BY <1>3, <2>2, <2>3, <2>4, <2>5 DEF RecibirInstruccion
<1>4. CASE RecibirFinalizado
  <2> PICK n : n = Arranca("desalojar", p, Nadie)
    OBVIOUS
  <2>1. Lanza(n) /\ Corriente(n) /\ lista' = lista /\ cupo' = cupo
    BY <1>4, ArrancaCampos DEF RecibirFinalizado, Corriente
  <2> QED  BY <2>1, AparteLanza DEF Aparte
<1>5. CASE RecibirDesalojo
  <2> PICK h : h = [Arranca("motivo", p, Nadie) EXCEPT !.op = x]
    OBVIOUS
  <2>1. h.pc = "motivo"
    BY DEF Arranca, Reposo
  <2>2. /\ hilos[Despacho].pc = "reposo" /\ Pasa(Despacho, h)
        /\ lista' = lista /\ cupo' = cupo
    BY <1>5 DEF RecibirDesalojo, HayMensaje, EnPc
  <2> QED  BY <1>1, <2>1, <2>2 DEF Aparte
<1>6. CASE RecibirFin
  <2>1. /\ hilos[Despacho].pc = "reposo" /\ lista' = lista /\ cupo' = cupo
        /\ Pasa(Despacho, Arranca("plp_exit", p, Nadie))
    BY <1>6 DEF RecibirFin, HayMensaje, EnPc
  <2> QED  BY <1>1, <1>2, <2>1 DEF Aparte
<1>7. CASE \/ RecibirAusente \/ RecibirInstruccionNulo
           \/ RecibirInadmisibleSinIniciar
  BY <1>7 DEF RecibirAusente, RecibirInstruccionNulo, RecibirInadmisibleSinIniciar,
              Cae, Aparte, HilosAparte
<1> QED  BY <1>3, <1>4, <1>5, <1>6, <1>7 DEF RecibirDelCpu

LEMMA OtrosAparte ==
  ASSUME Tipos, CasosPrevistos,
         Consola \/ Interrupciones \/ CpuEjecuta \/ Terminado \/ UNCHANGED vars
  PROVE  Aparte
<1>1. CASE Consola
  <2> PICK p \in Pids : IniciarProceso(p)
    BY <1>1 DEF Consola, FinalizarProceso, CasosPrevistos
  <2> PICK n : n = Arranca("nuevo", p, Nadie)
    OBVIOUS
  <2>1. Lanza(n) /\ Corriente(n) /\ lista' = lista /\ cupo' = cupo
    BY ArrancaCampos DEF IniciarProceso, Corriente
  <2> QED  BY <2>1, AparteLanza DEF Aparte
<1>2. CASE UNCHANGED <<hilos, lista, cupo>>
  BY <1>2 DEF Aparte, HilosAparte
<1> QED
  BY <1>1, <1>2
  DEF Interrupciones, VenceQuantum, Interrumpir, InterrumpirNulo, Cae, CpuEjecuta,
      CpuRecibe, CpuEmpieza, CpuInterrupcion, CpuPide, CpuRespondido, CpuExit,
      CpuSinMemoria, CpuVeInterrupcion, CpuSale, Desaloja, Terminado, vars

\* In every other step the admitted processes are the same ones.
LEMMA OtrosAdmitidos ==
  ASSUME Tipos, Transicion,
         \A t \in Hilos : ~PasarAReady(t) /\ (Transferir(t) => hilos[t].l # "EXIT")
  PROVE  Admitidos' = Admitidos
<1> DEFINE Afuera == {"NINGUNO", "NEW", "EXIT"}
           Adentro == {"READY", "READY_PRIORIDAD", "EXEC", "BLOCKED"}
<1>1. ASSUME NEW p, NEW desde, NEW hasta, Cambia(p, desde, hasta),
             \/ desde \subseteq Afuera /\ hasta \subseteq Afuera
             \/ desde \subseteq Adentro /\ hasta \subseteq Adentro
      PROVE  Admitidos' = Admitidos
  <2>1. \A q \in Pids : estado'[q] \in Adentro <=> estado[q] \in Adentro
    BY <1>1 DEF Cambia
  <2> QED  BY <2>1 DEF Admitidos
<1>2. CASE estado' = estado
  BY <1>2 DEF Admitidos
<1> QED  BY <1>1, <1>2 DEF Transicion

EsSalida(h) == /\ h.pc = "agregar" /\ h.l = "EXIT"
               /\ h.op \notin {"finalizar_nuevo", "wait"}

Con(S, x, si) == IF si THEN S \union {x} ELSE S \ {x}

LEMMA Contar ==
  ASSUME NEW S, NEW x, IsFiniteSet(S), NEW si \in BOOLEAN
  PROVE  /\ IsFiniteSet(Con(S, x, si)) /\ Cardinality(S) \in Nat
         /\ x \notin S => Cardinality(Con(S, x, si)) =
                            IF si THEN Cardinality(S) + 1 ELSE Cardinality(S)
         /\ x \in S => Cardinality(Con(S, x, si)) =
                         IF si THEN Cardinality(S) ELSE Cardinality(S) - 1
  BY FS_AddElement, FS_RemoveElement, FS_CardinalityType DEF Con

LEMMA PasaConjuntos ==
  ASSUME Tipos, NEW t \in Hilos, NEW h, Pasa(t, h)
  PROVE  /\ Nuevos' = Con(Nuevos, t, EsNuevo(h))
         /\ EnAdmision' = Con(EnAdmision, t, h.pc = "plp_ready")
         /\ EnSalida' = Con(EnSalida, t, EsSalida(h))
<1>1. /\ hilos'[t] = h /\ \A u \in Hilos \ {t} : hilos'[u] = hilos[u]
  BY PasaHilo
<1>2. Nuevos' = Con(Nuevos, t, EsNuevo(h))
  BY <1>1 DEF Nuevos, Con
<1>3. EnAdmision' = Con(EnAdmision, t, h.pc = "plp_ready")
  BY <1>1 DEF EnAdmision, Con
<1>4. EnSalida' = Con(EnSalida, t, EsSalida(h))
  BY <1>1 DEF EnSalida, Con, EsSalida
<1> QED  BY <1>2, <1>3, <1>4

\* ... in numbers.
Pasaje(t, h) ==
  /\ IsFiniteSet(Nuevos)' /\ IsFiniteSet(EnAdmision)' /\ IsFiniteSet(EnSalida)'
  /\ Cardinality(Nuevos)' =
       Cardinality(Nuevos) + (IF EsNuevo(h) THEN 1 ELSE 0)
         - (IF EsNuevo(hilos[t]) THEN 1 ELSE 0)
  /\ Cardinality(EnAdmision)' =
       Cardinality(EnAdmision) + (IF h.pc = "plp_ready" THEN 1 ELSE 0)
         - (IF hilos[t].pc = "plp_ready" THEN 1 ELSE 0)
  /\ Cardinality(EnSalida)' =
       Cardinality(EnSalida) + (IF EsSalida(h) THEN 1 ELSE 0)
         - (IF EsSalida(hilos[t]) THEN 1 ELSE 0)

LEMMA PasaNumeros ==
  ASSUME Tipos, Cupos, NEW t \in Hilos, NEW h, Pasa(t, h)
  PROVE  Pasaje(t, h)
<1>1. IsFiniteSet(Nuevos) /\ IsFiniteSet(EnAdmision) /\ IsFiniteSet(EnSalida)
  BY DEF Cupos
<1>2. /\ t \in Nuevos <=> EsNuevo(hilos[t])
      /\ t \in EnAdmision <=> hilos[t].pc = "plp_ready"
      /\ t \in EnSalida <=> EsSalida(hilos[t])
  BY DEF Nuevos, EnAdmision, EnSalida, EsSalida
<1>3. EsNuevo(h) \in BOOLEAN /\ EsSalida(h) \in BOOLEAN
  BY DEF EsNuevo, EsSalida
<1> DEFINE Suma(S, si) == Cardinality(S) + (IF si THEN 1 ELSE 0)
                            - (IF t \in S THEN 1 ELSE 0)
<1>4. ASSUME NEW S, IsFiniteSet(S), NEW si \in BOOLEAN
      PROVE  /\ IsFiniteSet(Con(S, t, si))
             /\ Cardinality(Con(S, t, si)) = Suma(S, si)
  <2>1. /\ IsFiniteSet(Con(S, t, si)) /\ Cardinality(S) \in Nat
        /\ t \notin S => Cardinality(Con(S, t, si)) =
                           IF si THEN Cardinality(S) + 1 ELSE Cardinality(S)
        /\ t \in S => Cardinality(Con(S, t, si)) =
                        IF si THEN Cardinality(S) ELSE Cardinality(S) - 1
    BY <1>4, Contar
  <2> QED  BY <2>1
<1>5. /\ IsFiniteSet(Nuevos)' /\ Cardinality(Nuevos)' = Suma(Nuevos, EsNuevo(h))
  BY <1>1, <1>3, <1>4, PasaConjuntos
<1>6. /\ IsFiniteSet(EnAdmision)'
      /\ Cardinality(EnAdmision)' = Suma(EnAdmision, h.pc = "plp_ready")
  BY <1>1, <1>4, PasaConjuntos
<1>7. /\ IsFiniteSet(EnSalida)' /\ Cardinality(EnSalida)' = Suma(EnSalida, EsSalida(h))
  BY <1>1, <1>3, <1>4, PasaConjuntos
<1> QED  BY <1>2, <1>5, <1>6, <1>7 DEF Pasaje

LEMMA Numeros ==
  ASSUME Tipos, Cupos
  PROVE  /\ Cardinality(Nuevos) \in Nat /\ Cardinality(EnAdmision) \in Nat
         /\ Cardinality(EnSalida) \in Nat /\ Cardinality(Admitidos) \in Nat
         /\ IsFiniteSet(Admitidos)
         /\ cupo \in Nat /\ Grado \in Nat
<1>1. IsFiniteSet(Admitidos)
  <2>1. Admitidos \in SUBSET (1..MaxPid)
    BY DEF Admitidos, Pids
  <2>2. IsFiniteSet(1..MaxPid)
    BY KernelAssumption, FS_Interval
  <2> QED  BY <2>1, <2>2, FS_Subset
<1>2. cupo \in Nat /\ Grado \in Nat
  BY KernelAssumption DEF Tipos, TypeOK
<1> QED  BY <1>1, <1>2, FS_CardinalityType DEF Cupos

LEMMA ConNuevo ==
  ASSUME Tipos, NEW p \in Pids, lista' = [lista EXCEPT !["NEW"] = Append(@, p)]
  PROVE  Len(lista'["NEW"]) = Len(lista["NEW"]) + 1 /\ Len(lista["NEW"]) \in Nat
<1>1. lista["NEW"] \in Seq(Pids) /\ lista'["NEW"] = Append(lista["NEW"], p)
  BY TiposDeListas DEF Colas
<1> QED  BY <1>1

\* A new process joins lista_new with its thread.
LEMMA NuevoCupos ==
  ASSUME Tipos, Vida, Cupos, NEW t \in Hilos, Nuevo(t)
  PROVE  Cupos'
<1> PICK p : p = hilos[t].p
  OBVIOUS
<1> PICK h : h = Arranca("plp", Nadie, Nadie)
  OBVIOUS
<1>1. /\ hilos[t].pc = "nuevo" /\ Pasa(t, h) /\ cupo' = cupo
      /\ lista' = [lista EXCEPT !["NEW"] = Append(@, p)]
      /\ estado' = [estado EXCEPT ![p] = "NEW"]
  BY DEF Nuevo, EnPc
<1>2. h.pc = "plp" /\ p \in Pids /\ estado[p] = "NINGUNO"
  BY <1>1, ArrancaCampos DEF Vida, Ubica, SinProceso
<1>3. Admitidos' = Admitidos
  BY <1>1, <1>2, TiposDeListas DEF Admitidos
<1>4. Len(lista'["NEW"]) = Len(lista["NEW"]) + 1 /\ Len(lista["NEW"]) \in Nat
  BY <1>1, <1>2, ConNuevo
<1>5. EsNuevo(h) /\ ~EsSalida(h) /\ ~EsNuevo(hilos[t]) /\ ~EsSalida(hilos[t])
  BY <1>1, <1>2 DEF EsNuevo, EsSalida
<1>20. /\ IsFiniteSet(Nuevos)' /\ IsFiniteSet(EnAdmision)' /\ IsFiniteSet(EnSalida)'
       /\ Cardinality(Nuevos)' = Cardinality(Nuevos) + 1
       /\ Cardinality(EnAdmision)' = Cardinality(EnAdmision)
       /\ Cardinality(EnSalida)' = Cardinality(EnSalida)
  <2>1. Pasaje(t, h)
    BY <1>1, <1>2, <1>5, PasaNumeros
  <2> QED  BY <1>1, <1>2, <1>5, <2>1, Numeros DEF Pasaje
<1> QED  BY <1>1, <1>3, <1>4, <1>20, Numeros DEF Cupos, CupoConservado

LEMMA TomarNewCupos ==
  ASSUME Tipos, Cupos, NEW t \in Hilos, TomarNew(t)
  PROVE  Cupos'
<1> PICK h : h = [hilos[t] EXCEPT !.pc = "plp_cupo", !.tiene = {"NEW"}]
  OBVIOUS
<1>1. hilos[t].pc = "plp" /\ Pasa(t, h) /\ UNCHANGED <<cupo, lista, estado>>
  BY DEF TomarNew, EnPc
<1>2. h.pc = "plp_cupo"
  BY TiposDeListas DEF Hilo
<1>3. EsNuevo(h) /\ ~EsSalida(h) /\ EsNuevo(hilos[t]) /\ ~EsSalida(hilos[t])
  BY <1>1, <1>2 DEF EsNuevo, EsSalida
<1>4. Admitidos' = Admitidos
  BY <1>1 DEF Admitidos
<1>20. /\ IsFiniteSet(Nuevos)' /\ IsFiniteSet(EnAdmision)' /\ IsFiniteSet(EnSalida)'
       /\ Cardinality(Nuevos)' = Cardinality(Nuevos)
       /\ Cardinality(EnAdmision)' = Cardinality(EnAdmision)
       /\ Cardinality(EnSalida)' = Cardinality(EnSalida)
  <2>1. Pasaje(t, h)
    BY <1>1, <1>2, <1>3, PasaNumeros
  <2> QED  BY <1>1, <1>2, <1>3, <2>1, Numeros DEF Pasaje
<1> QED  BY <1>1, <1>4, <1>20, Numeros DEF Cupos, CupoConservado

\* The slot goes from the semaphore to the thread: with no FINALIZAR_PROCESO,
\* each thread of plp_planifica finds a process in lista_new.
LEMMA TomarCupoCupos ==
  ASSUME Tipos, Cupos, NEW t \in Hilos, TomarCupo(t)
  PROVE  Cupos'
<1>1. /\ hilos[t].pc = "plp_cupo" /\ cupo > 0 /\ cupo' = cupo - 1
      /\ estado' = estado
  BY DEF TomarCupo, EnPc
<1>2. lista["NEW"] \in Seq(Pids) /\ "NEW" \in Colas
  BY TiposDeListas DEF Colas
<1>3. Len(lista["NEW"]) \in Nat \ {0}
  <2>1. t \in Nuevos
    BY <1>1 DEF Nuevos, EsNuevo
  <2>2. Cardinality(Nuevos) # 0
    BY <2>1, FS_EmptySet DEF Cupos
  <2> QED  BY <1>2, <2>2, Numeros DEF Cupos
<1>4. lista["NEW"] # <<>>
  BY <1>2, <1>3
<1> PICK h : h = [hilos[t] EXCEPT !.pc = "plp_ready", !.p = Head(lista["NEW"])]
  OBVIOUS
<1>5. Pasa(t, h) /\ lista' = [lista EXCEPT !["NEW"] = Tail(@)]
  BY <1>4 DEF TomarCupo
<1>6. h.pc = "plp_ready"
  BY TiposDeListas DEF Hilo
<1>7. lista'["NEW"] = Tail(lista["NEW"])
  BY <1>2, <1>5, TiposDeListas
<1>8. Len(lista'["NEW"]) = Len(lista["NEW"]) - 1
  BY <1>2, <1>4, <1>7
<1>9. ~EsNuevo(h) /\ ~EsSalida(h) /\ EsNuevo(hilos[t]) /\ ~EsSalida(hilos[t])
  BY <1>1, <1>6 DEF EsNuevo, EsSalida
<1>10. Admitidos' = Admitidos
  BY <1>1 DEF Admitidos
<1>20. /\ IsFiniteSet(Nuevos)' /\ IsFiniteSet(EnAdmision)' /\ IsFiniteSet(EnSalida)'
       /\ Cardinality(Nuevos)' = Cardinality(Nuevos) - 1
       /\ Cardinality(EnAdmision)' = Cardinality(EnAdmision) + 1
       /\ Cardinality(EnSalida)' = Cardinality(EnSalida)
  <2>1. Pasaje(t, h)
    BY <1>1, <1>5, <1>6, <1>9, PasaNumeros
  <2> QED  BY <1>1, <1>5, <1>6, <1>9, <2>1, Numeros DEF Pasaje
<1> QED  BY <1>1, <1>3, <1>8, <1>10, <1>20, Numeros DEF Cupos, CupoConservado

\* ... from the thread to the process ...
LEMMA PasarAReadyCupos ==
  ASSUME Tipos, Vida, Cupos, NEW t \in Hilos, PasarAReady(t)
  PROVE  Cupos'
<1> PICK p : p = hilos[t].p
  OBVIOUS
<1> PICK h : h = LlamaPcp(t, {})
  OBVIOUS
<1>1. /\ hilos[t].pc = "plp_ready" /\ Pasa(t, h) /\ cupo' = cupo
      /\ lista' = [lista EXCEPT !["READY"] = Append(@, p)]
      /\ estado' = [estado EXCEPT ![p] = "READY"]
  BY DEF PasarAReady, EnPc
<1>2. h.pc = "pcp" /\ p \in Pids /\ estado[p] = "NEW"
  BY <1>1, PcpLibre DEF Vida, Ubica, SinProceso
<1>3. Admitidos' = Admitidos \union {p} /\ p \notin Admitidos
  BY <1>1, <1>2, TiposDeListas DEF Admitidos
<1>4. Cardinality(Admitidos)' = Cardinality(Admitidos) + 1
  BY <1>3, Numeros, FS_AddElement
<1>5. lista'["NEW"] = lista["NEW"]
  BY <1>1, TiposDeListas DEF Colas
<1>6. ~EsNuevo(h) /\ ~EsSalida(h) /\ ~EsNuevo(hilos[t]) /\ ~EsSalida(hilos[t])
  BY <1>1, <1>2 DEF EsNuevo, EsSalida
<1>20. /\ IsFiniteSet(Nuevos)' /\ IsFiniteSet(EnAdmision)' /\ IsFiniteSet(EnSalida)'
       /\ Cardinality(Nuevos)' = Cardinality(Nuevos)
       /\ Cardinality(EnAdmision)' = Cardinality(EnAdmision) - 1
       /\ Cardinality(EnSalida)' = Cardinality(EnSalida)
  <2>1. Pasaje(t, h)
    BY <1>1, <1>2, <1>6, PasaNumeros
  <2> QED  BY <1>1, <1>2, <1>6, <2>1, Numeros DEF Pasaje
<1> QED  BY <1>1, <1>4, <1>5, <1>20, Numeros DEF Cupos, CupoConservado

\* ... from the process to the thread that ends it ...
LEMMA TransferirCupos ==
  ASSUME Tipos, Vida, Cupos, NEW t \in Hilos, Transferir(t), hilos[t].l = "EXIT"
  PROVE  Cupos'
<1> PICK p : p = hilos[t].p
  OBVIOUS
<1> PICK h : h = [hilos[t] EXCEPT !.pc = "agregar"]
  OBVIOUS
<1>1. /\ hilos[t].pc = "transferir" /\ hilos[t].op = "plp_exit" /\ p \in Pids
      /\ estado[p] = "EXEC" /\ Pasa(t, h)
  BY AlTransferir DEF Sigue
<1>2. /\ estado' = [estado EXCEPT ![p] = "EXIT"]
      /\ UNCHANGED <<lista, cupo>>
  BY DEF Transferir
<1>3. h.pc = "agregar" /\ h.l = "EXIT" /\ h.op = "plp_exit"
  BY <1>1, TiposDeListas DEF Hilo
<1>4. Admitidos' = Admitidos \ {p} /\ p \in Admitidos
  BY <1>1, <1>2, TiposDeListas DEF Admitidos
<1>5. Cardinality(Admitidos)' = Cardinality(Admitidos) - 1
  BY <1>4, Numeros, FS_RemoveElement
<1>6. ~EsNuevo(h) /\ EsSalida(h) /\ ~EsNuevo(hilos[t]) /\ ~EsSalida(hilos[t])
  BY <1>1, <1>3 DEF EsNuevo, EsSalida
<1>20. /\ IsFiniteSet(Nuevos)' /\ IsFiniteSet(EnAdmision)' /\ IsFiniteSet(EnSalida)'
       /\ Cardinality(Nuevos)' = Cardinality(Nuevos)
       /\ Cardinality(EnAdmision)' = Cardinality(EnAdmision)
       /\ Cardinality(EnSalida)' = Cardinality(EnSalida) + 1
  <2>1. Pasaje(t, h)
    BY <1>1, <1>3, <1>6, PasaNumeros
  <2> QED  BY <1>1, <1>3, <1>6, <2>1, Numeros DEF Pasaje
<1> QED  BY <1>2, <1>5, <1>20, Numeros DEF Cupos, CupoConservado

\* ... and back to the semaphore.
LEMMA AgregarAExitCupos ==
  ASSUME Tipos, Vida, Cupos, NEW t \in Hilos, AgregarAExit(t)
  PROVE  Cupos'
<1> PICK p : p = hilos[t].p
  OBVIOUS
<1> PICK h : h = LlamaPcp(t, {})
  OBVIOUS
<1>1. /\ hilos[t].pc = "agregar" /\ hilos[t].l = "EXIT" /\ hilos[t].op = "plp_exit"
      /\ lista' = [lista EXCEPT !["EXIT"] = Append(@, p)]
      /\ estado' = estado
  BY AgregarAExitVida DEF AgregarAExit, Agregar, EnPc
<1>2. cupo' = cupo + 1 /\ Pasa(t, h)
  BY <1>1 DEF AgregarAExit, CupoDevuelto
<1>3. h.pc = "pcp"
  BY PcpLibre
<1>4. Admitidos' = Admitidos
  BY <1>1 DEF Admitidos
<1>5. lista'["NEW"] = lista["NEW"]
  BY <1>1, TiposDeListas DEF Colas
<1>6. ~EsNuevo(h) /\ ~EsSalida(h) /\ ~EsNuevo(hilos[t]) /\ EsSalida(hilos[t])
  BY <1>1, <1>3 DEF EsNuevo, EsSalida
<1>20. /\ IsFiniteSet(Nuevos)' /\ IsFiniteSet(EnAdmision)' /\ IsFiniteSet(EnSalida)'
       /\ Cardinality(Nuevos)' = Cardinality(Nuevos)
       /\ Cardinality(EnAdmision)' = Cardinality(EnAdmision)
       /\ Cardinality(EnSalida)' = Cardinality(EnSalida) - 1
  <2>1. Pasaje(t, h)
    BY <1>1, <1>2, <1>3, <1>6, PasaNumeros
  <2> QED  BY <1>1, <1>2, <1>3, <1>6, <2>1, Numeros DEF Pasaje
<1> QED  BY <1>2, <1>4, <1>5, <1>20, Numeros DEF Cupos, CupoConservado

LEMMA InitCupos == ASSUME Init PROVE Cupos
<1>1. /\ lista["NEW"] = <<>> /\ cupo = Grado
      /\ \A t \in Hilos : hilos[t] = Reposo
      /\ \A p \in Pids : estado[p] = "NINGUNO"
  BY DEF Init, Colas
<1>2. Nuevos = {} /\ EnAdmision = {} /\ EnSalida = {} /\ Admitidos = {}
  <2>1. \A t \in Hilos : hilos[t].pc = "reposo"
    BY <1>1, ReposoLibre
  <2> QED  BY <1>1, <2>1 DEF Nuevos, EsNuevo, EnAdmision, EnSalida, Admitidos
<1>3. Len(<<>>) = 0 /\ Grado \in Nat
  BY KernelAssumption
<1> QED  BY <1>1, <1>2, <1>3, FS_EmptySet DEF Cupos, CupoConservado

LEMMA NextCupos ==
  ASSUME CasosPrevistos, VInv, Cupos, [Next]_vars
  PROVE  Cupos'
<1>1. Tipos /\ Vida /\ Transicion
  BY NextTransicion DEF VInv, IInv
<1>2. CASE \E t \in Hilos : \/ Nuevo(t) \/ TomarNew(t) \/ TomarCupo(t)
                            \/ PasarAReady(t) \/ AgregarAExit(t)
                            \/ Transferir(t) /\ hilos[t].l = "EXIT"
  BY <1>1, <1>2, NuevoCupos, TomarNewCupos, TomarCupoCupos, PasarAReadyCupos,
     TransferirCupos, AgregarAExitCupos
<1>3. ASSUME \A t \in Hilos : /\ ~Nuevo(t) /\ ~TomarNew(t) /\ ~TomarCupo(t)
                              /\ ~PasarAReady(t) /\ ~AgregarAExit(t)
                              /\ Transferir(t) => hilos[t].l # "EXIT"
      PROVE  Cupos'
  <2>1. Admitidos' = Admitidos
    BY <1>1, <1>3, OtrosAdmitidos
  <2>2. ASSUME NEW t \in Hilos, HilosDelKernel(t) PROVE Aparte
    BY <1>1, <1>3, <2>2, LargoPlazoAparte, CortoPlazoAparte, RecursosAparte,
       DespachoAparte DEF HilosDelKernel
  <2>3. ASSUME NEW i \in Interfaces, HiloInterfaz(i) PROVE Aparte
    BY <1>1, <2>3, InterfazAparte
  <2>4. Aparte
    BY <1>1, <2>2, <2>3, RecibirAparte, OtrosAparte DEF Next
  <2> QED  BY <2>1, <2>4, AparteCupos
<1> QED  BY <1>2, <1>3

LEMMA SpecCupos == CasosPrevistos => (Spec => [](VInv /\ Cupos))
<1> SUFFICES ASSUME CasosPrevistos PROVE Spec => [](VInv /\ Cupos)
  OBVIOUS
<1>1. Init => VInv /\ Cupos
  BY InitIInv, InitVida, InitCupos DEF VInv
<1>2. VInv /\ Cupos /\ [Next]_vars => (VInv /\ Cupos)'
  BY NextVInv, NextCupos
<1> QED  BY <1>1, <1>2, PTL DEF Spec

\* sem_procesos_en_memoria plus the processes admitted is the degree of
\* multiprogramming, with what the threads in between hold: the sem_wait of
\* plp_planifica and the sem_post of plp_exit, in threads of different
\* processes, are one for one (planificador_largo_plazo.c).
THEOREM KernelCupo == CasosPrevistos => (Spec => []CupoConservado)
<1>1. VInv /\ Cupos => CupoConservado
  BY DEF Cupos
<1> QED  BY <1>1, SpecCupos, PTL

-----------------------------------------------------------------------------
(* The refinement of CicloDeVida *)

\* p leaves lista_execute and nobody else does.
DejaExec(p) ==
  /\ p \in Pids /\ EnLista(p, "EXEC") /\ ~EnLista(p, "EXEC")'
  /\ \A q \in Pids \ {p} : EnLista(q, "EXEC")' <=> EnLista(q, "EXEC")

\* Tomar takes the first of a ready list.
LEMMA AlTomar ==
  ASSUME Tipos, Vida, NEW t \in Hilos, Tomar(t), lista' # lista
  PROVE  /\ lista[Origen] # <<>> /\ ExecLibre /\ Despachar(Origen)
         /\ Head(lista[Origen]) \in Pids
         /\ estado[Head(lista[Origen])] \in {"READY", "READY_PRIORIDAD"}
<1> PICK l : l = Origen
  OBVIOUS
<1> PICK p : p = Head(lista[l])
  OBVIOUS
<1>1. lista[Origen] # <<>> /\ ExecLibre /\ Despachar(Origen)
  BY DEF Tomar
<1>2. l \in {"READY", "READY_PRIORIDAD"} /\ l \in Colas
  BY DEF Origen, Colas
<1>3. p \in Pids /\ EnLista(p, l)
  <2>1. lista[l] \in Seq(Pids) /\ SinRepetir(lista[l]) /\ lista[l] # <<>>
    BY <1>1, <1>2, TiposDeListas DEF Vida, Ordenadas
  <2> QED  BY <2>1, Resto DEF EnLista
<1>4. estado[p] = l
  BY <1>2, <1>3 DEF Vida, Lugar
<1> QED  BY <1>1, <1>2, <1>3, <1>4

\* A pcb is removed from EXEC: nobody else leaves it.
LEMMA QuitaDeExec ==
  ASSUME Tipos, Vida, NEW p \in Pids, EnLista(p, "EXEC"),
         lista' = [lista EXCEPT !["EXEC"] = Sin(@, p)]
  PROVE  DejaExec(p)
<1>1. "EXEC" \in Colas
  BY DEF Colas
<1>2. \A q, k : k \in Colas =>
        (Contains(lista'[k], q) <=> Contains(lista[k], q) /\ ~(k = "EXEC" /\ q = p))
  BY <1>1, ListaQuita DEF Vida
<1> QED  BY <1>1, <1>2 DEF DejaExec, EnLista

\* The steps that change no `estado' take at most one process out of EXEC.
LEMMA NextExec ==
  ASSUME VInv, [Next]_vars, estado' = estado
  PROVE  lista'["EXEC"] = lista["EXEC"] \/ \E p \in Pids : DejaExec(p)
<1> DEFINE Meta == lista'["EXEC"] = lista["EXEC"] \/ \E p \in Pids : DejaExec(p)
<1> HIDE DEF Meta
<1> SUFFICES Meta
  BY DEF Meta
<1>1. /\ Tipos /\ Vida /\ Cauces /\ IInv
      /\ lista \in [Colas -> Seq(Pids)] /\ estado \in [Pids -> Estados]
      /\ "EXEC" \in Colas
  BY TiposDeListas DEF VInv, IInv, Colas
<1>2. CASE lista' = lista
  BY <1>2 DEF Meta
<1>3. ASSUME NEW l \in Colas \ {"EXEC"}, NEW s, lista' = [lista EXCEPT ![l] = s]
      PROVE  Meta
  BY <1>1, <1>3 DEF Meta
<1>4. ASSUME NEW t \in Hilos, NEW l, Agregar(t, l),
             l \in {"BLOCKED", "READY", "READY_PRIORIDAD", "EXIT"}
      PROVE  Meta
  <2>1. lista' = [lista EXCEPT ![l] = Append(@, hilos[t].p)] /\ l \in Colas \ {"EXEC"}
    BY <1>4 DEF Agregar, Colas
  <2> QED  BY <1>1, <2>1 DEF Meta
<1>5. ASSUME NEW p \in Pids, DejaExec(p) PROVE Meta
  BY <1>5 DEF Meta
<1>6. ASSUME NEW t \in Hilos, HiloLargoPlazo(t) PROVE Meta
  <2>1. CASE Nuevo(t)
    <3>1. lista' = [lista EXCEPT !["NEW"] = Append(@, hilos[t].p)] /\ "NEW" \in Colas
      BY <2>1 DEF Nuevo, Colas
    <3> QED  BY <1>1, <3>1 DEF Meta
  <2>2. CASE PasarAReady(t)
    <3>1. lista' = [lista EXCEPT !["READY"] = Append(@, hilos[t].p)] /\ "READY" \in Colas
      BY <2>2 DEF PasarAReady, Colas
    <3> QED  BY <1>1, <3>1 DEF Meta
  <2>3. CASE TomarCupo(t)
    <3>1. lista' = lista \/ lista' = [lista EXCEPT !["NEW"] = Tail(@)]
      BY <2>3 DEF TomarCupo
    <3> QED  BY <1>1, <1>2, <3>1 DEF Meta
  <2>4. CASE Buscar(t)
    <3> PICK l, p : l = hilos[t].l /\ p = hilos[t].p
      OBVIOUS
    <3>1. \/ lista' = lista
          \/ l \in {"NEW", "READY", "BLOCKED"} /\ lista' = [lista EXCEPT ![l] = Sin(@, p)]
      BY <2>4 DEF Buscar
    <3>2. CASE lista' # lista
      <4>1. l # "EXEC" /\ lista' = [lista EXCEPT ![l] = Sin(@, p)]
        BY <3>1, <3>2
      <4> QED  BY <1>1, <4>1 DEF Meta
    <3> QED  BY <1>2, <3>2
  <2>5. CASE SalirDeExec(t)
    <3> PICK p : p = hilos[t].p
      OBVIOUS
    <3>1. /\ hilos[t].pc = "plp_exit" /\ EnLista(p, "EXEC")
          /\ lista' = [lista EXCEPT !["EXEC"] = Sin(@, p)]
      BY <1>1, <2>5, SalirDeExecVida DEF SalirDeExec
    <3>2. p \in Pids
      BY <1>1, <3>1 DEF Vida, Ubica, SinProceso
    <3> QED  BY <1>1, <1>5, <3>1, <3>2, QuitaDeExec
  <2>6. CASE AgregarAExit(t)
    BY <1>4, <2>6 DEF AgregarAExit
  <2> QED
    BY <1>2, <1>6, <2>1, <2>2, <2>3, <2>4, <2>5, <2>6
    DEF HiloLargoPlazo, TomarNew, BuscarNulo, SegunEstado, SegunEstadoAusente,
        SalirDeExecAusente, LiberarRecurso, LiberarSumar, AvisarMemoria, AvisarDesconocido,
        Transferir, Cae, planVars
<1>7. ASSUME NEW t \in Hilos, HiloCortoPlazo(t) PROVE Meta
  <2>1. CASE Tomar(t) /\ lista' # lista
    <3> PICK p : p = Head(lista[Origen])
      OBVIOUS
    <3>1. p \in Pids /\ estado[p] # "EXEC" /\ estado' = [estado EXCEPT ![p] = "EXEC"]
      BY <1>1, <2>1, AlTomar DEF Despachar
    <3> QED  BY <1>1, <3>1
  <2>2. CASE ReubicarAReady(t)
    <3> PICK p : p = hilos[t].p
      OBVIOUS
    <3>1. /\ estado' = [estado EXCEPT ![p] = "READY"] /\ EnLista(p, "EXEC")
          /\ hilos[t].pc = "reubicar_prioridad"
      BY <2>2 DEF ReubicarAReady, EnPc, EstadoReady
    <3>2. p \in Pids
      BY <1>1, <3>1 DEF Vida, Ubica, SinProceso
    <3>3. estado[p] = "EXEC"
      BY <1>1, <3>1, <3>2 DEF Vida, Lugar
    <3> QED  BY <1>1, <3>1, <3>2, <3>3
  <2>3. CASE AgregarAReady(t)
    <3>1. PICK l \in {"READY", "READY_PRIORIDAD"} : Agregar(t, l)
      BY <2>3 DEF AgregarAReady
    <3> QED  BY <1>4, <3>1
  <2> QED
    BY <1>2, <1>7, <2>1, <2>2, <2>3
    DEF HiloCortoPlazo, MirarReady, TomarExec, TomarReady, TomarSinTimer, AtenderMotivo,
        Reubicar, ReubicarReady, ReubicarAusente, Analizar, AnalizarNulo, Cae, planVars
<1>8. ASSUME NEW t \in Hilos, HiloRecursos(t) \/ HiloDespacho(t) PROVE Meta
  <2>1. CASE WaitBloquear(t)
    <3> PICK p : p = hilos[t].p
      OBVIOUS
    <3>1. /\ hilos[t].pc = "wait_bloquear"
          /\ lista' = [lista EXCEPT !["EXEC"] = ExecSinCabeza]
      BY <2>1 DEF WaitBloquear, EnPc
    <3>2. p \in Pids /\ EnLista(p, "EXEC")
      BY <1>1, <3>1 DEF Vida, Ubica, SinProceso, EnServicio
    <3>3. PICK s : s = lista["EXEC"]
      OBVIOUS
    <3>4. s \in Seq(Pids) /\ SinRepetir(s) /\ Contains(s, p) /\ Len(s) <= 1
      BY <1>1, <3>2, <3>3 DEF Vida, Ordenadas, EnLista, IInv, ExecUnico
    <3>5. s # <<>> /\ \A x : ~Contains(Tail(s), x)
      <4>1. s # <<>>
        BY <3>4, NadaEnVacia
      <4>2. \A x : Contains(Tail(s), x) <=> Contains(s, x) /\ x # Head(s)
        BY <3>4, <4>1, Resto
      <4>3. ASSUME NEW x, Contains(s, x) PROVE x = Head(s)
        <5>1. PICK i \in 1..Len(s) : s[i] = x
          BY <4>3 DEF Contains
        <5>2. Len(s) \in Nat /\ Len(s) <= 1
          BY <3>4
        <5>3. i = 1
          BY ONLY <5>2, i \in 1..Len(s)
        <5> QED  BY <3>4, <4>1, <5>1, <5>3
      <4> QED  BY <4>1, <4>2, <4>3
    <3>6. \A x : Contains(s, x) => x = p
      <4> SUFFICES ASSUME NEW x, Contains(s, x) PROVE x = p
        OBVIOUS
      <4>1. PICK i, j \in 1..Len(s) : s[i] = x /\ s[j] = p
        BY <3>4 DEF Contains
      <4>2. Len(s) \in Nat /\ Len(s) <= 1
        BY <3>4
      <4>3. i = 1 /\ j = 1
        BY ONLY <4>2, i \in 1..Len(s), j \in 1..Len(s)
      <4> QED  BY <4>1, <4>3
    <3>7. lista'["EXEC"] = Tail(s)
      BY <1>1, <3>1, <3>3, <3>5 DEF ExecSinCabeza
    <3>8. DejaExec(p)
      BY <3>2, <3>3, <3>5, <3>6, <3>7 DEF DejaExec, EnLista
    <3> QED  BY <1>5, <3>2, <3>8
  <2>2. CASE Desbloquear(t)
    <3>1. \/ lista' = lista
          \/ lista' = [lista EXCEPT !["BLOCKED"] = Sin(@, hilos[t].p)]
      BY <2>2 DEF Desbloquear
    <3> QED  BY <1>1, <1>2, <3>1 DEF Meta
  <2>3. CASE AgregarDesconocido(t)
    BY <1>4, <2>3 DEF AgregarDesconocido
  <2>4. CASE AgregarABlocked(t)
    BY <1>4, <2>4 DEF AgregarABlocked
  <2> QED
    BY <1>2, <1>8, <2>1, <2>2, <2>3, <2>4
    DEF HiloRecursos, HiloDespacho, WaitLeer, WaitRestar, WaitEncolar, SignalSumar,
        Asignar, AsignarRestar, MandarIO, EncolarIO, planVars
<1>9. ASSUME NEW i \in Interfaces, HiloInterfaz(i) PROVE Meta
  BY <1>2, <1>9
  DEF HiloInterfaz, FinEntradaSalida, SiguienteIO, SiguienteIOLiberada, LiberarIO,
      Cae, planVars
<1>10. CASE RecibirDelCpu
  <2>1. CASE RecibirInstruccion
    <3> PICK p, x : p = Actual.p /\ x = Actual.x
      OBVIOUS
    <3>1. /\ EnLista(p, "EXEC") /\ HayMensaje
          /\ \/ AtenderIO(p, x) \/ lista' = lista
      BY <2>1 DEF RecibirInstruccion, Sirve, Presente, AtenderWait, WaitConcedido,
        WaitNegado, WaitDesconocido, AtenderSignal, SignalAceptado, SignalRechazado,
        DejandoEnExec, AtenderInadmisible, AtenderDesconocida, planVars
    <3>2. CASE AtenderIO(p, x)
      <4>1. lista' = [lista EXCEPT !["EXEC"] = Sin(@, p)]
        BY <3>2 DEF AtenderIO
      <4>2. p \in Pids
        <5>1. lista["EXEC"] \in Seq(Pids)
          BY <1>1
        <5> QED  BY <3>1, <5>1 DEF EnLista, Contains
      <4> QED  BY <1>1, <1>5, <3>1, <4>1, <4>2, QuitaDeExec
    <3> QED  BY <1>2, <3>1, <3>2
  <2> QED
    BY <1>2, <1>10, <2>1
    DEF RecibirDelCpu, RecibirAusente, RecibirFinalizado, RecibirInstruccionNulo,
        RecibirInadmisibleSinIniciar, RecibirDesalojo, RecibirFin, Cae, planVars
<1>11. CASE Consola \/ Interrupciones \/ CpuEjecuta \/ UNCHANGED vars
  <2>1. lista' = lista
    BY <1>11
    DEF Consola, IniciarProceso, FinalizarProceso, Interrupciones, VenceQuantum,
        Interrumpir, InterrumpirNulo, Cae, CpuEjecuta, CpuRecibe, CpuEmpieza,
        CpuInterrupcion, CpuPide, CpuRespondido, CpuExit, CpuSinMemoria,
        CpuVeInterrupcion, CpuSale, Desaloja, vars, planVars
  <2> QED  BY <1>2, <2>1
<1> QED
  BY <1>6, <1>7, <1>8, <1>9, <1>10, <1>11 DEF Next, HilosDelKernel, Terminado

LEMMA FaseIgual ==
  ASSUME NEW q \in Pids, estado'[q] = estado[q],
         estado[q] = "EXEC" => (EnLista(q, "EXEC")' <=> EnLista(q, "EXEC"))
  PROVE  Fase(q)' = Fase(q)
  BY DEF Fase

\* One process goes from one phase to another.
LEMMA CicloPasa ==
  ASSUME NEW p \in Pids, NEW desde, NEW hasta, Fase(p) \in desde,
         Fase(p)' = hasta, \A q \in Pids \ {p} : Fase(q)' = Fase(q)
  PROVE  Ciclo!Pasar(p, desde, hasta)
<1>1. [q \in Pids |-> Fase(q)]' = [[q \in Pids |-> Fase(q)] EXCEPT ![p] = hasta]
  OBVIOUS
<1> QED  BY <1>1 DEF Ciclo!Pasar

\* The slot a process is admitted with was free.
LEMMA HayCupo ==
  ASSUME VInv, Cupos, NEW t \in Hilos, hilos[t].pc = "plp_ready"
  PROVE  Cardinality(Ciclo!Vivos) < Grado
<1>1. Ciclo!Vivos = Admitidos
  <2>1. estado \in [Pids -> Estados]
    BY TiposDeListas DEF VInv, IInv
  <2>2. ASSUME NEW p \in Pids
        PROVE  Fase(p) \in {"READY", "EXEC", "BLOCKED"} <=>
                 estado[p] \in {"READY", "READY_PRIORIDAD", "EXEC", "BLOCKED"}
    BY <2>1 DEF Fase
  <2> QED  BY <2>2 DEF Ciclo!Vivos, Admitidos
<1> PICK a, b, c : /\ a = Cardinality(Admitidos) /\ b = Cardinality(EnAdmision)
                   /\ c = Cardinality(EnSalida)
  OBVIOUS
<1>2. IsFiniteSet(Admitidos) /\ IsFiniteSet(EnAdmision) /\ IsFiniteSet(EnSalida)
  <2>1. Admitidos \subseteq Pids
    BY DEF Admitidos
  <2>2. IsFiniteSet(Pids)
    BY KernelAssumption, FS_Interval DEF Pids
  <2> QED  BY <2>1, <2>2, FS_Subset DEF Cupos
<1>3. a \in Nat /\ b \in Nat /\ c \in Nat
  BY <1>2, FS_CardinalityType
<1>4. b # 0
  <2>1. t \in EnAdmision
    BY DEF EnAdmision
  <2> QED  BY <1>2, <2>1, FS_EmptySet
<1>5. cupo \in Nat /\ cupo + a + b + c = Grado
  BY DEF VInv, IInv, Tipos, TypeOK, Cupos, CupoConservado
<1>6. a < Grado
  BY ONLY <1>3, <1>4, <1>5
<1> QED  BY <1>1, <1>6

LEMMA NextCiclo ==
  ASSUME VInv, Cupos, [Next]_vars
  PROVE  [Ciclo!Next]_[p \in Pids |-> Fase(p)]
<1>1. /\ Tipos /\ Vida /\ Cauces /\ IInv
      /\ lista \in [Colas -> Seq(Pids)] /\ estado \in [Pids -> Estados]
      /\ "EXEC" \in Colas
  BY TiposDeListas DEF VInv, IInv, Colas
<1> SUFFICES Ciclo!Next \/ [p \in Pids |-> Fase(p)]' = [p \in Pids |-> Fase(p)]
  OBVIOUS
<1> DEFINE Meta == Ciclo!Next \/ [p \in Pids |-> Fase(p)]' = [p \in Pids |-> Fase(p)]
<1> HIDE DEF Meta
<1> SUFFICES Meta
  BY DEF Meta
<1>2. ASSUME \A q \in Pids : Fase(q)' = Fase(q) PROVE Meta
  <2>1. [p \in Pids |-> Fase(p)]' = [p \in Pids |-> Fase(p)]
    BY <1>2
  <2> QED  BY <2>1 DEF Meta
<1>3. ASSUME NEW p \in Pids, Ciclo!Pasar(p, {"EXEC"}, "BLOCKED") PROVE Meta
  BY <1>3 DEF Meta, Ciclo!Next, Ciclo!Bloquear
<1>4. CASE estado' = estado
  <2>1. CASE lista'["EXEC"] = lista["EXEC"]
    <3>1. \A q \in Pids : Fase(q)' = Fase(q)
      BY <1>4, <2>1 DEF Fase, EnLista
    <3> QED  BY <1>2, <3>1
  <2>2. ASSUME NEW p \in Pids, DejaExec(p) PROVE Meta
    <3>1. estado[p] = "EXEC"
      BY <1>1, <2>2 DEF DejaExec, Vida, Lugar
    <3>2. Fase(p) = "EXEC" /\ Fase(p)' = "BLOCKED"
      BY <1>4, <2>2, <3>1 DEF Fase, DejaExec
    <3>3. \A q \in Pids \ {p} : Fase(q)' = Fase(q)
      BY <1>4, <2>2, FaseIgual DEF DejaExec
    <3> QED  BY <1>3, <3>2, <3>3, CicloPasa
  <2> QED  BY <1>4, <2>1, <2>2, NextExec
<1>5. ASSUME NEW p, NEW desde, NEW hasta, Cambia(p, desde, hasta),
             \A q \in Pids \ {p} : estado[q] = "EXEC" =>
               (EnLista(q, "EXEC")' <=> EnLista(q, "EXEC"))
      PROVE  \A q \in Pids \ {p} : Fase(q)' = Fase(q)
  BY <1>5, FaseIgual DEF Cambia
<1>6. ASSUME NEW t \in Hilos, Nuevo(t), Cambia(hilos[t].p, {"NINGUNO"}, {"NEW"})
      PROVE  Meta
  <2> PICK p : p = hilos[t].p
    OBVIOUS
  <2>1. p \in Pids /\ estado[p] = "NINGUNO" /\ estado'[p] = "NEW"
    BY <1>6 DEF Cambia
  <2>2. lista' = [lista EXCEPT !["NEW"] = Append(@, p)]
    BY <1>6 DEF Nuevo
  <2>3. lista'["EXEC"] = lista["EXEC"]
    BY <1>1, <2>2
  <2>4. Fase(p) = "NINGUNO" /\ Fase(p)' = "NEW"
    BY <2>1 DEF Fase
  <2>5. \A q \in Pids \ {p} : Fase(q)' = Fase(q)
    BY <1>5, <1>6, <2>3 DEF EnLista
  <2>6. Ciclo!Crear(p)
    BY <2>1, <2>4, <2>5, CicloPasa DEF Ciclo!Crear
  <2> QED  BY <2>1, <2>6 DEF Meta, Ciclo!Next
<1>7. ASSUME NEW t \in Hilos, PasarAReady(t), Cambia(hilos[t].p, {"NEW"}, {"READY"})
      PROVE  Meta
  <2> PICK p : p = hilos[t].p
    OBVIOUS
  <2>1. p \in Pids /\ estado[p] = "NEW" /\ estado'[p] = "READY"
    BY <1>7 DEF Cambia
  <2>2. hilos[t].pc = "plp_ready" /\ lista' = [lista EXCEPT !["READY"] = Append(@, p)]
    BY <1>7 DEF PasarAReady, EnPc
  <2>3. lista'["EXEC"] = lista["EXEC"]
    BY <1>1, <2>2
  <2>4. Fase(p) = "NEW" /\ Fase(p)' = "READY"
    BY <2>1 DEF Fase
  <2>5. \A q \in Pids \ {p} : Fase(q)' = Fase(q)
    BY <1>5, <1>7, <2>3 DEF EnLista
  <2>6. Ciclo!Admitir(p)
    <3>1. Ciclo!Pasar(p, {"NEW"}, "READY")
      BY <2>1, <2>4, <2>5, CicloPasa
    <3>2. Cardinality(Ciclo!Vivos) < Grado
      BY <2>2, HayCupo
    <3>3. Ciclo!Cardinality(Ciclo!Vivos) = Cardinality(Ciclo!Vivos)
      BY DEF Cardinality, Ciclo!Cardinality
    <3> QED  BY <3>1, <3>2, <3>3 DEF Ciclo!Admitir
  <2> QED  BY <2>1, <2>6 DEF Meta, Ciclo!Next
<1>8. ASSUME NEW t \in Hilos, Transferir(t),
             \/ Cambia(hilos[t].p, {"EXEC"}, {"EXIT"})
             \/ Cambia(hilos[t].p, {"EXEC"}, {"BLOCKED"})
             \/ Cambia(hilos[t].p, {"BLOCKED"}, {"READY", "READY_PRIORIDAD"})
      PROVE  Meta
  <2> PICK p : p = hilos[t].p
    OBVIOUS
  <2>1. p \in Pids /\ Suelto(p) /\ lista' = lista
    BY <1>1, <1>8, AlTransferir DEF Transferir
  <2>2. ~EnLista(p, "EXEC") /\ ~EnLista(p, "EXEC")'
    BY <1>1, <2>1 DEF Suelto, EnLista
  <2>3. \A q \in Pids \ {p} : Fase(q)' = Fase(q)
    BY <1>5, <1>8, <2>1 DEF EnLista
  <2>4. CASE Cambia(p, {"EXEC"}, {"EXIT"})
    <3>1. Fase(p) = "BLOCKED" /\ Fase(p)' = "EXIT"
      BY <2>2, <2>4 DEF Cambia, Fase
    <3>2. Ciclo!Terminar(p)
      BY <2>1, <2>3, <3>1, CicloPasa DEF Ciclo!Terminar
    <3> QED  BY <2>1, <3>2 DEF Meta, Ciclo!Next
  <2>5. CASE Cambia(p, {"EXEC"}, {"BLOCKED"})
    <3>1. Fase(p)' = Fase(p)
      BY <2>2, <2>5 DEF Cambia, Fase
    <3> QED  BY <1>2, <2>3, <3>1
  <2>6. CASE Cambia(p, {"BLOCKED"}, {"READY", "READY_PRIORIDAD"})
    <3>1. Fase(p) = "BLOCKED" /\ Fase(p)' = "READY"
      BY <2>2, <2>6 DEF Cambia, Fase
    <3>2. Ciclo!Desbloquear(p)
      BY <2>1, <2>3, <3>1, CicloPasa DEF Ciclo!Desbloquear
    <3> QED  BY <2>1, <3>2 DEF Meta, Ciclo!Next
  <2> QED  BY <1>8, <2>4, <2>5, <2>6
<1>9. ASSUME NEW t \in Hilos, ReubicarAReady(t), Cambia(hilos[t].p, {"EXEC"}, {"READY"})
      PROVE  Meta
  <2> PICK p : p = hilos[t].p
    OBVIOUS
  <2>1. p \in Pids /\ estado[p] = "EXEC" /\ estado'[p] = "READY"
    BY <1>9 DEF Cambia
  <2>2. /\ EnLista(p, "EXEC") /\ "READY" \in Colas \ {"EXEC"}
        /\ lista' = [lista EXCEPT !["EXEC"] = Sin(@, p), !["READY"] = Append(@, p)]
    BY <1>9 DEF ReubicarAReady, Colas
  <2>3. ~EnLista(p, "READY")
    BY <1>1, <2>1, <2>2 DEF Vida, Lugar
  <2>4. \A q : Contains(lista'["EXEC"], q) <=> Contains(lista["EXEC"], q) /\ q # p
    <3>1. Tipos /\ Ordenadas /\ p \in Pids
      BY <1>1, <2>1 DEF Vida
    <3>2. \A q, j : j \in Colas =>
            (Contains(lista'[j], q) <=>
               \/ Contains(lista[j], q) /\ ~(j = "EXEC" /\ q = p)
               \/ j = "READY" /\ q = p)
      BY <2>2, <2>3, <3>1, MudaDeExec
    <3>3. \A q : Contains(lista'["EXEC"], q) <=>
                 \/ Contains(lista["EXEC"], q) /\ ~("EXEC" = "EXEC" /\ q = p)
                 \/ "EXEC" = "READY" /\ q = p
      BY <1>1, <3>2, Zenon
    <3> QED  BY <3>3
  <2>5. \A q \in Pids \ {p} : Fase(q)' = Fase(q)
    BY <1>5, <1>9, <2>4 DEF EnLista
  <2>6. Fase(p) = "EXEC" /\ Fase(p)' = "READY"
    BY <2>1, <2>2 DEF Fase
  <2>7. Ciclo!Desalojar(p)
    BY <2>1, <2>5, <2>6, CicloPasa DEF Ciclo!Desalojar
  <2> QED  BY <2>1, <2>7 DEF Meta, Ciclo!Next
<1>10. ASSUME NEW t \in Hilos, Tomar(t), lista[Origen] # <<>>, ExecLibre,
              Despachar(Origen),
              Cambia(Head(lista[Origen]), {"READY", "READY_PRIORIDAD"}, {"EXEC"})
       PROVE  Meta
  <2> PICK l : l = Origen
    OBVIOUS
  <2> PICK p : p = Head(lista[l])
    OBVIOUS
  <2>1. /\ p \in Pids /\ estado[p] \in {"READY", "READY_PRIORIDAD"}
        /\ estado'[p] = "EXEC" /\ Cambia(p, {"READY", "READY_PRIORIDAD"}, {"EXEC"})
    BY <1>10 DEF Cambia
  <2>2. /\ lista' = [lista EXCEPT ![l] = Tail(@), !["EXEC"] = Append(@, p)]
        /\ l \in Colas \ {"EXEC"}
    BY <1>10 DEF Despachar, Origen, Colas
  <2>3. lista["EXEC"] = <<>>
    <3>1. hilos[t].pc \in {"pcp_tomar", "pcp_prioridad"}
      BY <1>10 DEF Tomar, PuedeTomar, EnPc
    <3> QED  BY <1>1, <1>10, <3>1 DEF ExecLibre, IInv, TomaConExec, Tomando
  <2>4. \A q : ~EnLista(q, "EXEC")
    BY <2>3, NadaEnVacia DEF EnLista
  <2>5. \A q : EnLista(q, "EXEC")' <=> q = p
    <3> PICK s \in Seq(Pids) : s = lista["EXEC"]
      BY <1>1
    <3>1. lista'["EXEC"] = Append(s, p) /\ SinRepetir(s) /\ ~Contains(s, p)
      BY <1>1, <2>2, <2>4 DEF Vida, Ordenadas, EnLista
    <3>2. \A x : Contains(Append(s, p), x) <=> Contains(s, x) \/ x = p
      BY <2>1, <3>1, AlFinal
    <3> QED  BY <2>4, <3>1, <3>2 DEF EnLista
  <2>6. \A q \in Pids : Fase(q) # "EXEC"
    BY <2>4 DEF Fase
  <2>7. Fase(p) = "READY" /\ Fase(p)' = "EXEC"
    BY <2>1, <2>5 DEF Fase
  <2>8. \A q \in Pids \ {p} : Fase(q)' = Fase(q)
    <3>1. \A q \in Pids \ {p} : EnLista(q, "EXEC")' <=> EnLista(q, "EXEC")
      BY <2>4, <2>5
    <3> QED  BY <1>5, <2>1, <3>1
  <2>9. Ciclo!Ejecutar(p)
    BY <2>1, <2>6, <2>7, <2>8, CicloPasa DEF Ciclo!Ejecutar
  <2> QED  BY <2>1, <2>9 DEF Meta, Ciclo!Next
<1> QED
  BY <1>4, <1>6, <1>7, <1>8, <1>9, <1>10, NextTransicion DEF Transicion

\* Every step of the kernel, whatever the threads and the scheduling algorithm,
\* is a transition of the five-state diagram of CicloDeVida or changes no phase:
\* a process is admitted only within the degree of multiprogramming, executes
\* only when no other does, and comes back from BLOCKED only through READY.
THEOREM KernelImplementaCiclo == CasosPrevistos => (Spec => ImplementaCiclo)
<1> SUFFICES ASSUME CasosPrevistos PROVE Spec => ImplementaCiclo
  OBVIOUS
<1>1. Spec => [](VInv /\ Cupos)
  BY SpecCupos
<1>2. Init => Ciclo!Init
  <2> SUFFICES ASSUME Init PROVE Ciclo!Init
    OBVIOUS
  <2>1. \A p \in Pids : Fase(p) = "NINGUNO"
    BY DEF Init, Fase
  <2> QED  BY <2>1 DEF Ciclo!Init
<1>3. VInv /\ Cupos /\ [Next]_vars => [Ciclo!Next]_[p \in Pids |-> Fase(p)]
  BY NextCiclo
<1>4. Spec => Ciclo!Init
  BY <1>2, PTL DEF Spec
<1>5. Spec => [][Ciclo!Next]_[p \in Pids |-> Fase(p)]
  BY <1>1, <1>3, PTL DEF Spec
<1> QED
  BY <1>4, <1>5, PTL DEF ImplementaCiclo, Ciclo!Spec

-----------------------------------------------------------------------------
(* The structures of a process in memoria, and what each step leaves alone *)

\* Thread t goes on, and the others stay; one of those at rest may start.
Actua(t) == \A u \in Hilos \ {t} : hilos'[u] = hilos[u] \/ hilos[u].pc = "reposo"

LEMMA ActuaPasa ==
  ASSUME Tipos, NEW t \in Hilos
  PROVE  /\ \A h : Pasa(t, h) => Actua(t)
         /\ \A h, n : PasaYLanza(t, h, n) => Actua(t)
         /\ \A n : Lanza(n) => Actua(t)
         /\ hilos' = hilos => Actua(t)
<1>1. ASSUME NEW h, Pasa(t, h) PROVE Actua(t)
  BY <1>1, PasaHilo DEF Actua
<1>2. ASSUME NEW h, NEW n, PasaYLanza(t, h, n) PROVE Actua(t)
  <2> PICK d \in Desprendidos : /\ hilos[d].pc = "reposo"
                                /\ hilos' = [hilos EXCEPT ![t] = h, ![d] = n]
    BY <1>2 DEF PasaYLanza
  <2>1. \A u \in Hilos \ {t, d} : hilos'[u] = hilos[u]
    BY TiposDeListas
  <2> QED  BY <2>1 DEF Actua
<1>3. ASSUME NEW n, Lanza(n) PROVE Actua(t)
  <2> PICK d \in Hilos : /\ hilos[d].pc = "reposo"
                         /\ \A u \in Hilos \ {d} : hilos'[u] = hilos[u]
    BY <1>3, LanzaHilo
  <2> QED  BY DEF Actua
<1> QED  BY <1>1, <1>2, <1>3 DEF Actua

LEMMA ActuaHilo ==
  ASSUME Tipos, NEW t \in Hilos, HilosDelKernel(t)
  PROVE  Actua(t) /\ (hilos[t].pc # "transferir" \/ Transferir(t) \/ hilos' = hilos)
<1>1. /\ \A h : Pasa(t, h) => Actua(t)
      /\ \A h, n : PasaYLanza(t, h, n) => Actua(t)
      /\ hilos' = hilos => Actua(t)
      /\ Vuelve(t) => Actua(t)
      /\ \A pc : Sigue(t, pc) => Actua(t)
  BY ActuaPasa DEF Vuelve, Sigue
<1>2. CASE HiloLargoPlazo(t)
  <2>1. CASE Nuevo(t) \/ TomarNew(t) \/ TomarCupo(t) \/ PasarAReady(t)
    BY <1>1, <2>1 DEF Nuevo, TomarNew, TomarCupo, PasarAReady, EnPc
  <2>2. CASE Buscar(t) \/ SegunEstado(t)
    BY <1>1, <2>2 DEF Buscar, SegunEstado, Encontrado, Terminar, EnPc
  <2>3. CASE SalirDeExec(t) \/ LiberarRecurso(t) \/ LiberarSumar(t) \/ AvisarMemoria(t)
    BY <1>1, <2>3
    DEF SalirDeExec, LiberarRecurso, LiberarSumar, AvisarMemoria, Terminar, EnPc
  <2>4. CASE Transferir(t) \/ AgregarAExit(t)
    BY <1>1, <2>4 DEF Transferir, AgregarAExit, Agregar, EnPc
  <2>5. CASE hilos' = hilos
    BY <1>1, <2>5
  <2> QED
    BY <1>2, <2>1, <2>2, <2>3, <2>4, <2>5
    DEF HiloLargoPlazo, BuscarNulo, SegunEstadoAusente, SalirDeExecAusente,
        AvisarDesconocido, Cae
<1>3. CASE HiloCortoPlazo(t)
  <2>1. CASE MirarReady(t) \/ TomarExec(t) \/ TomarReady(t) \/ Tomar(t)
    BY <1>1, <2>1 DEF MirarReady, TomarExec, TomarReady, Tomar, PuedeTomar, EnPc
  <2>2. CASE \/ AtenderMotivo(t) \/ Reubicar(t) \/ ReubicarReady(t)
             \/ ReubicarAReady(t)
    BY <1>1, <2>2 DEF AtenderMotivo, Reubicar, ReubicarReady, ReubicarAReady, EnPc
  <2>3. CASE Analizar(t) \/ AgregarAReady(t)
    BY <1>1, <2>3 DEF Analizar, AgregarAReady, Agregar, EnPc
  <2>4. CASE hilos' = hilos
    BY <1>1, <2>4
  <2> QED
    BY <1>3, <2>1, <2>2, <2>3, <2>4
    DEF HiloCortoPlazo, TomarSinTimer, ReubicarAusente, AnalizarNulo, Cae
<1>4. CASE HiloRecursos(t)
  BY <1>1, <1>4
  DEF HiloRecursos, AgregarDesconocido, Agregar, WaitLeer, WaitRestar,
      WaitBloquear, WaitEncolar, SignalSumar, Asignar, AsignarRestar, Desbloquear, EnPc
<1>5. CASE HiloDespacho(t)
  BY <1>1, <1>5 DEF HiloDespacho, AgregarABlocked, Agregar, MandarIO, EncolarIO, EnPc
<1> QED  BY <1>2, <1>3, <1>4, <1>5 DEF HilosDelKernel

LEMMA NextActua ==
  ASSUME Tipos, [Next]_vars
  PROVE  \E t \in Hilos :
           /\ Actua(t)
           /\ hilos[t].pc # "transferir" \/ Transferir(t) \/ hilos' = hilos
<1>1. ASSUME NEW t \in Hilos
      PROVE  /\ \A h : Pasa(t, h) => Actua(t)
             /\ \A h, n : PasaYLanza(t, h, n) => Actua(t)
             /\ \A n : Lanza(n) => Actua(t)
             /\ hilos' = hilos => Actua(t)
             /\ Vuelve(t) => Actua(t)
             /\ \A pc : Sigue(t, pc) => Actua(t)
  BY ActuaPasa DEF Vuelve, Sigue
<1>2. Despacho \in Hilos
  BY DespachoEsHilo
<1>3. CASE \E t \in Hilos : HilosDelKernel(t)
  BY <1>3, ActuaHilo
<1>4. CASE \E i \in Interfaces : HiloInterfaz(i)
  <2> PICK i \in Interfaces : HiloInterfaz(i)
    BY <1>4
  <2>1. i \in Hilos
    BY DEF Hilos
  <2>2. Actua(i) /\ hilos[i].pc # "transferir"
    BY <1>1, <2>1
    DEF HiloInterfaz, FinEntradaSalida, SiguienteIO, SiguienteIOLiberada,
        LiberarIO, EnPc, Cae
  <2> QED  BY <2>1, <2>2
<1>5. CASE hilos' = hilos
  BY <1>1, <1>2, <1>5
<1>6. CASE RecibirDelCpu
  <2>1. CASE hilos' # hilos
    <3>1. hilos[Despacho].pc # "transferir"
      BY <1>6, <2>1 DEF RecibirDelCpu, RecibirAusente, RecibirFinalizado,
        RecibirInstruccion, RecibirInstruccionNulo,
         RecibirInadmisibleSinIniciar, RecibirDesalojo, RecibirFin,
        Sirve, HayMensaje, EnPc, Cae
    <3>2. Actua(Despacho)
      <4>1. CASE RecibirInstruccion
        BY <1>1, <1>2, <4>1
        DEF RecibirInstruccion, AtenderWait, WaitConcedido, WaitNegado,
            WaitDesconocido, AtenderSignal, SignalAceptado, SignalRechazado,
            AtenderIO, AtenderInadmisible, AtenderDesconocida
      <4> QED
        BY <1>1, <1>2, <1>6, <2>1, <4>1
        DEF RecibirDelCpu, RecibirAusente, RecibirFinalizado,
            RecibirInstruccionNulo,
         RecibirInadmisibleSinIniciar, RecibirDesalojo, RecibirFin, Cae
    <3> QED  BY <1>2, <3>1, <3>2
  <2> QED  BY <1>5, <2>1
<1>7. CASE Consola
  <2>1. \E n : Lanza(n)
    BY <1>7 DEF Consola, IniciarProceso, FinalizarProceso
  <2>2. \A t \in Hilos : Actua(t)
    BY <1>1, <2>1
  <2>3. CASE \E t \in Hilos : hilos[t].pc # "transferir"
    BY <2>2, <2>3
  <2>4. \E d \in Hilos : hilos[d].pc = "reposo"
    BY <2>1, LanzaHilo
  <2> QED  BY <2>3, <2>4
<1>8. CASE Interrupciones \/ CpuEjecuta \/ UNCHANGED vars
  <2>1. hilos' = hilos
    BY <1>8
    DEF Interrupciones, VenceQuantum,
        Interrumpir, InterrumpirNulo, Cae, CpuEjecuta, CpuRecibe, CpuEmpieza,
        CpuInterrupcion, CpuPide, CpuRespondido, CpuExit, CpuSinMemoria,
        CpuVeInterrupcion, CpuSale, Desaloja, vars
  <2> QED  BY <1>5, <2>1
<1> QED
  BY <1>3, <1>4, <1>6, <1>7, <1>8 DEF Next, Terminado

Despedido(h, p) == h.pc = "transferir" /\ h.l = "EXIT" /\ h.p = p

\* Memoria has structures for every admitted process whose end it has not been
\* told of.
Estructuras ==
  /\ \A t \in Hilos : hilos[t].pc = "plp_ready" => hilos[t].p \in iniciados
  /\ \A p \in Admitidos :
       p \in iniciados \/ \E t \in Hilos : Despedido(hilos[t], p)

\* Only TomarCupo leaves a thread at plp_ready.
LEMMA NextAdmision ==
  ASSUME CasosPrevistos, VInv, [Next]_vars, NEW u \in Hilos,
         hilos'[u].pc = "plp_ready"
  PROVE  hilos'[u] = hilos[u] \/ TomarCupo(u)
<1>1. Tipos /\ Vida
  BY DEF VInv, IInv
<1>2. ASSUME NEW t \in Hilos, NEW h, Pasa(t, h), h.pc # "plp_ready"
      PROVE  hilos'[u] = hilos[u]
  BY <1>1, <1>2, PasaHilo
<1>3. ASSUME NEW t \in Hilos, TomarCupo(t) PROVE hilos'[u] = hilos[u] \/ TomarCupo(u)
  <2>1. \A v \in Hilos \ {t} : hilos'[v] = hilos[v]
    BY <1>1, <1>3, PasaHilo DEF TomarCupo
  <2> QED  BY <1>3, <2>1
<1>4. ASSUME NEW t \in Hilos,
             Nuevo(t) \/ TomarNew(t) \/ PasarAReady(t) \/ AgregarAExit(t)
      PROVE  hilos'[u] = hilos[u]
  <2>1. Reposo.pc # "plp_ready" /\ \A ms : LlamaPcp(t, ms).pc # "plp_ready"
    BY ReposoLibre, PcpLibre
  <2>2. CASE Nuevo(t)
    <3>1. Arranca("plp", Nadie, Nadie).pc = "plp"
      BY ArrancaCampos
    <3> QED  BY <1>2, <2>2, <3>1 DEF Nuevo
  <2>3. CASE TomarNew(t)
    <3>1. [hilos[t] EXCEPT !.pc = "plp_cupo", !.tiene = {"NEW"}].pc = "plp_cupo"
      BY <1>1, TiposDeListas DEF Hilo
    <3> QED  BY <1>2, <2>3, <3>1 DEF TomarNew
  <2>4. CASE PasarAReady(t) \/ AgregarAExit(t)
    BY <1>2, <2>1, <2>4 DEF PasarAReady, AgregarAExit, Vuelve
  <2> QED  BY <1>4, <2>2, <2>3, <2>4
<1>5. ASSUME NEW t \in Hilos, Transferir(t) PROVE hilos'[u] = hilos[u]
  <2> PICK pc \in {"agregar", "colgado"} : Sigue(t, pc)
    BY <1>5 DEF Transferir
  <2> PICK h : h = [hilos[t] EXCEPT !.pc = pc]
    OBVIOUS
  <2>1. h.pc = pc
    BY <1>1, TiposDeListas DEF Hilo
  <2> QED  BY <1>2, <2>1 DEF Sigue
<1>6. ASSUME \A t \in Hilos : /\ ~Nuevo(t) /\ ~TomarNew(t) /\ ~TomarCupo(t)
                              /\ ~PasarAReady(t) /\ ~AgregarAExit(t)
                              /\ ~Transferir(t)
      PROVE  hilos'[u] = hilos[u]
  <2>1. ASSUME NEW t \in Hilos, HilosDelKernel(t) PROVE Aparte
    BY <1>1, <1>6, <2>1, LargoPlazoAparte, CortoPlazoAparte, RecursosAparte,
       DespachoAparte DEF HilosDelKernel
  <2>2. ASSUME NEW i \in Interfaces, HiloInterfaz(i) PROVE Aparte
    BY <1>1, <2>2, InterfazAparte
  <2>3. Aparte
    BY <1>1, <2>1, <2>2, RecibirAparte, OtrosAparte DEF Next
  <2> QED  BY <2>3 DEF Aparte, HilosAparte, Corriente
<1> QED  BY <1>3, <1>4, <1>5, <1>6

LEMMA NextIniciados ==
  ASSUME [Next]_vars
  PROVE  \/ iniciados' = iniciados
         \/ \E t \in Hilos : TomarCupo(t) \/ AvisarMemoria(t)
<1>1. ASSUME NEW t \in Hilos, HiloLargoPlazo(t), ~TomarCupo(t), ~AvisarMemoria(t)
      PROVE  iniciados' = iniciados
  BY <1>1 DEF HiloLargoPlazo, Nuevo, TomarNew, PasarAReady, Buscar, BuscarNulo,
    SegunEstado, SegunEstadoAusente, SalirDeExec, SalirDeExecAusente,
    LiberarRecurso, LiberarSumar, AvisarDesconocido, Transferir, AgregarAExit,
    Cae, memVars
<1>2. ASSUME NEW t \in Hilos, HiloCortoPlazo(t) PROVE iniciados' = iniciados
  BY <1>2 DEF HiloCortoPlazo, MirarReady, TomarExec, TomarReady, Tomar,
    TomarSinTimer, AtenderMotivo, Reubicar, ReubicarReady, ReubicarAReady,
    ReubicarAusente, Analizar, AnalizarNulo, AgregarAReady, Cae, memVars
<1>3. ASSUME NEW t \in Hilos, HiloRecursos(t) \/ HiloDespacho(t)
      PROVE  iniciados' = iniciados
  BY <1>3 DEF HiloRecursos, HiloDespacho, AgregarDesconocido, WaitLeer, WaitRestar, WaitBloquear,
    WaitEncolar, SignalSumar, Asignar, AsignarRestar, Desbloquear, AgregarABlocked, MandarIO, EncolarIO, memVars
<1>4. ASSUME NEW i \in Interfaces, HiloInterfaz(i) PROVE iniciados' = iniciados
  BY <1>4 DEF HiloInterfaz, FinEntradaSalida, SiguienteIO, SiguienteIOLiberada,
    LiberarIO, Cae, memVars
<1>5. RecibirDelCpu => iniciados' = iniciados
  BY DEF RecibirDelCpu, RecibirAusente, RecibirFinalizado, RecibirInstruccion,
         RecibirInstruccionNulo,
         RecibirInadmisibleSinIniciar, RecibirDesalojo, RecibirFin, Cae, memVars
<1>6. Consola \/ Interrupciones \/ CpuEjecuta \/ UNCHANGED vars => iniciados' = iniciados
  BY DEF Consola, IniciarProceso, FinalizarProceso, Interrupciones, VenceQuantum,
         Interrumpir, InterrumpirNulo, Cae, CpuEjecuta, CpuRecibe, CpuEmpieza,
         CpuInterrupcion, CpuPide, CpuRespondido, CpuExit, CpuSinMemoria,
         CpuVeInterrupcion, CpuSale, Desaloja, vars, memVars
<1> QED
  BY <1>1, <1>2, <1>3, <1>4, <1>5, <1>6 DEF Next, HilosDelKernel, Terminado

\* Nobody is admitted but by PasarAReady.
LEMMA NextAdmitidos ==
  ASSUME VInv, [Next]_vars, NEW p \in Admitidos', p \notin Admitidos
  PROVE  \E t \in Hilos : PasarAReady(t) /\ p = hilos[t].p
<1>1. Transicion /\ p \in Pids
  BY NextTransicion DEF Admitidos
<1>2. ASSUME NEW q, NEW desde, NEW hasta, Cambia(q, desde, hasta),
             \/ desde \subseteq {"READY", "READY_PRIORIDAD", "EXEC", "BLOCKED"}
             \/ hasta \subseteq {"NEW", "EXIT"}
      PROVE  FALSE
  BY <1>1, <1>2 DEF Cambia, Admitidos
<1>3. estado' # estado
  BY DEF Admitidos
<1>4. PICK t \in Hilos : PasarAReady(t) /\ Cambia(hilos[t].p, {"NEW"}, {"READY"})
  BY <1>1, <1>2, <1>3 DEF Transicion
<1>5. p = hilos[t].p
  BY <1>1, <1>4 DEF Cambia, Admitidos
<1> QED  BY <1>4, <1>5

LEMMA NextEstructuras ==
  ASSUME CasosPrevistos, VInv, Estructuras, [Next]_vars
  PROVE  Estructuras'
<1>1. /\ Tipos /\ Vida /\ hilos \in [Hilos -> Hilo]
      /\ \A p \in Pids : \A t, u \in Hilos : hilos[t].p = p /\ hilos[u].p = p => t = u
  BY TiposDeListas DEF VInv, IInv, Vida, Lugar, UnaFicha
<1>2. ASSUME NEW t \in Hilos, TomarCupo(t)
      PROVE  /\ iniciados \subseteq iniciados'
             /\ hilos'[t].pc = "plp_ready" => hilos'[t].p \in iniciados'
  <2>1. CASE Pasa(t, LlamaPcp(t, {})) /\ UNCHANGED iniciados
    BY <1>1, <2>1, PasaHilo, PcpLibre
  <2>2. ASSUME NEW p, iniciados' = IniciarEnMemoria(p),
               Pasa(t, [hilos[t] EXCEPT !.pc = "plp_ready", !.p = p])
        PROVE  iniciados \subseteq iniciados' /\ hilos'[t].p \in iniciados'
    <3>1. hilos'[t] = [hilos[t] EXCEPT !.pc = "plp_ready", !.p = p]
      BY <1>1, <2>2, PasaHilo
    <3>2. hilos'[t].p = p
      BY <1>1, <3>1 DEF Hilo
    <3> QED  BY <2>2, <3>2 DEF IniciarEnMemoria
  <2> QED  BY <1>2, <2>1, <2>2 DEF TomarCupo
<1>3. ASSUME NEW t \in Hilos, AvisarMemoria(t)
      PROVE  /\ hilos[t].pc = "avisar" /\ hilos[t].p \in Pids
             /\ iniciados' = iniciados \ {hilos[t].p}
             /\ Despedido(hilos'[t], hilos[t].p)
  <2>1. /\ hilos[t].pc = "avisar" /\ iniciados' = iniciados \ {hilos[t].p}
        /\ hilos'[t] = [hilos[t] EXCEPT !.pc = "transferir", !.l = "EXIT"]
    BY <1>1, <1>3, PasaHilo DEF AvisarMemoria, EnPc
  <2>2. hilos[t].p \in Pids
    BY <1>1, <2>1 DEF Vida, Ubica, SinProceso
  <2>3. Despedido(hilos'[t], hilos[t].p)
    <3> PICK h \in Hilo : h = hilos[t]
      BY <1>1
    <3> PICK g : g = [h EXCEPT !.pc = "transferir", !.l = "EXIT"]
      OBVIOUS
    <3>1. g.pc = "transferir" /\ g.l = "EXIT" /\ g.p = h.p
      BY DEF Hilo
    <3> QED  BY <2>1, <3>1 DEF Despedido
  <2> QED  BY <2>1, <2>2, <2>3
<1>4. ASSUME NEW u \in Hilos, hilos'[u].pc = "plp_ready"
      PROVE  hilos'[u].p \in iniciados'
  <2>1. CASE TomarCupo(u)
    BY <1>2, <1>4, <2>1
  <2>2. CASE hilos'[u] = hilos[u]
    <3>1. hilos[u].p \in iniciados /\ hilos[u].p \in Pids
      BY <1>1, <1>4, <2>2 DEF Estructuras, Vida, Ubica, SinProceso
    <3>2. CASE iniciados' = iniciados \/ \E t \in Hilos : TomarCupo(t)
      BY <1>2, <2>2, <3>1, <3>2
    <3>3. ASSUME NEW t \in Hilos, AvisarMemoria(t) PROVE hilos[u].p \in iniciados'
      <4>1. hilos[t].p # hilos[u].p
        BY <1>1, <1>3, <1>4, <2>2, <3>1, <3>3
      <4> QED  BY <1>3, <3>1, <3>3, <4>1
    <3> QED  BY <2>2, <3>2, <3>3, NextIniciados
  <2> QED  BY <1>4, <2>1, <2>2, NextAdmision
<1>5. ASSUME NEW p \in Admitidos', p \notin iniciados'
      PROVE  \E t \in Hilos : Despedido(hilos'[t], p)
  <2>1. p \in Pids
    BY <1>5 DEF Admitidos
  <2>2. p \in Admitidos
    <3> SUFFICES ASSUME p \notin Admitidos PROVE FALSE
      OBVIOUS
    <3> PICK t \in Hilos : PasarAReady(t) /\ p = hilos[t].p
      BY <1>5, NextAdmitidos
    <3>1. hilos[t].pc = "plp_ready" /\ iniciados' = iniciados
      BY DEF PasarAReady, EnPc, memVars
    <3> QED  BY <1>5, <3>1 DEF Estructuras
  <2>3. CASE p \in iniciados
    <3> PICK t \in Hilos : AvisarMemoria(t)
      BY <1>2, <1>5, <2>3, NextIniciados
    <3> QED  BY <1>3, <1>5, <2>3
  <2>4. CASE p \notin iniciados
    <3>1. PICK u \in Hilos : Despedido(hilos[u], p)
      BY <2>2, <2>4 DEF Estructuras
    <3>2. hilos'[u] = hilos[u] \/ Transferir(u)
      BY <1>1, <3>1, NextActua DEF Despedido, Actua
    <3>3. ~Transferir(u)
      <4> SUFFICES ASSUME Transferir(u) PROVE FALSE
        OBVIOUS
      <4>1. estado' = [estado EXCEPT ![p] = "EXIT"] /\ estado \in [Pids -> Estados]
        BY <1>1, <3>1, TiposDeListas DEF Transferir, Despedido
      <4>2. estado'[p] = "EXIT"
        BY <2>1, <4>1
      <4> QED  BY <1>5, <4>2 DEF Admitidos
    <3> QED  BY <3>1, <3>2, <3>3
  <2> QED  BY <2>3, <2>4
<1> QED  BY <1>4, <1>5 DEF Estructuras

-----------------------------------------------------------------------------
(* Nobody dies *)

\* What a generic interface can end the kernel by.
PorGenerica == {"doble_free", "sin_iniciar"}

\* In the cases foreseen a step ends the kernel by what the dispatch thread does
\* with the mochila of a generic interface, or else by a NULL, and only for an
\* interrupt that finds nobody in EXEC or a timer that is no more.
LEMMA NextCaido ==
  ASSUME VInv, Estructuras, [Next]_vars
  PROVE  \/ caido' = caido
         \/ caido' \in PorGenerica
         \/ /\ caido' = "puntero nulo"
            /\ \/ Algoritmo = "VRR"
               \/ \E m \in Motivos : sem[m] > 0
<1> DEFINE Meta == \/ caido' = caido
                   \/ caido' \in PorGenerica
                   \/ /\ caido' = "puntero nulo"
                      /\ \/ Algoritmo = "VRR"
                         \/ \E m \in Motivos : sem[m] > 0
<1> HIDE DEF Meta
<1> SUFFICES Meta
  BY DEF Meta
<1>0. CASE caido' = caido
  BY <1>0 DEF Meta
<1>1. /\ Tipos /\ Vida /\ Cauces
      /\ \A p \in Pids : \A t, u \in Hilos : hilos[t].p = p /\ hilos[u].p = p => t = u
  BY DEF VInv, IInv, Vida, Lugar, UnaFicha
<1>2. ASSUME NEW t \in Hilos, HiloLargoPlazo(t) PROVE caido' = caido
  <2> PICK p : p = hilos[t].p
    OBVIOUS
  <2>1. ~BuscarNulo(t)
    BY <1>1 DEF BuscarNulo, EnPc, Vida, Ubica
  <2>2. ~SegunEstadoAusente(t)
    BY <1>1, SinSegunEstado DEF SegunEstadoAusente, EnPc
  <2>3. ~SalirDeExecAusente(t)
    <3> SUFFICES ASSUME SalirDeExecAusente(t) PROVE FALSE
      OBVIOUS
    <3>1. hilos[t].pc = "plp_exit" /\ (p = Nadie \/ ~EnLista(p, "EXEC"))
      BY <1>1, SinSegunEstado DEF SalirDeExecAusente, EnPc
    <3>2. EnLista(p, "EXEC") /\ p \in Pids
      BY <1>1, <3>1 DEF Vida, Ubica, SinProceso, EnServicio
    <3> QED  BY <3>1, <3>2, NadieNoEsPid
  <2>4. ~AvisarDesconocido(t)
    <3> SUFFICES ASSUME AvisarDesconocido(t) PROVE FALSE
      OBVIOUS
    <3>1. hilos[t].pc = "avisar" /\ p \notin iniciados
      BY DEF AvisarDesconocido, EnPc
    <3>2. p \in Pids /\ estado[p] = "EXEC"
      BY <1>1, <3>1 DEF Vida, Ubica, SinProceso
    <3>3. PICK u \in Hilos : Despedido(hilos[u], p)
      BY <3>1, <3>2 DEF Estructuras, Admitidos
    <3>4. u = t
      BY <1>1, <3>2, <3>3 DEF Despedido
    <3> QED  BY <3>1, <3>3, <3>4 DEF Despedido
  <2> QED
    BY <1>2, <2>1, <2>2, <2>3, <2>4
    DEF HiloLargoPlazo, Nuevo, TomarNew, TomarCupo, PasarAReady, Buscar,
        SegunEstado, SalirDeExec, LiberarRecurso, LiberarSumar, AvisarMemoria,
        Transferir, AgregarAExit
<1>3. ASSUME NEW t \in Hilos, HiloCortoPlazo(t) PROVE Meta
  <2>1. ~ReubicarAusente(t)
    BY <1>1 DEF ReubicarAusente, EnPc, Vida, Ubica, EnServicio
  <2>2. ~AnalizarNulo(t)
    <3> SUFFICES ASSUME AnalizarNulo(t) PROVE FALSE
      OBVIOUS
    <3>1. hilos[t].pc = "analizar" /\ hilos[t].p = Nadie
      BY DEF AnalizarNulo, EnPc
    <3> QED  BY <1>1, <3>1, NadieNoEsPid DEF Vida, Ubica, SinProceso
  <2>3. CASE TomarSinTimer(t)
    BY <2>3 DEF TomarSinTimer, SinTimerQueReanudar, Cae, Meta
  <2> QED
    BY <1>0, <1>3, <2>1, <2>2, <2>3
    DEF HiloCortoPlazo, MirarReady, TomarExec, TomarReady, Tomar, AtenderMotivo,
        Reubicar, ReubicarReady, ReubicarAReady, Analizar, AgregarAReady
<1>4. ASSUME NEW t \in Hilos, HiloRecursos(t) \/ HiloDespacho(t)
      PROVE  caido' = caido
  BY <1>4 DEF HiloRecursos, HiloDespacho, AgregarDesconocido, WaitLeer, WaitRestar, WaitBloquear,
    WaitEncolar, SignalSumar, Asignar, AsignarRestar, Desbloquear, AgregarABlocked, MandarIO, EncolarIO
<1>5. ASSUME NEW i \in Interfaces, HiloInterfaz(i) PROVE Meta
  <2>1. CASE SiguienteIOLiberada(i)
    BY <2>1 DEF SiguienteIOLiberada, Cae, PorGenerica, Meta
  <2> QED
    BY <1>0, <1>5, <2>1
    DEF HiloInterfaz, FinEntradaSalida, SiguienteIO, LiberarIO
<1>6. CASE RecibirDelCpu
  <2>1. CASE RecibirInstruccionNulo
    <3>1. Actual \in Previstos
      BY <1>1, <2>1, AlRecibir DEF RecibirInstruccionNulo, Sirve
    <3>2. Algoritmo = "VRR" /\ caido' = "puntero nulo"
      BY <2>1, <3>1 DEF RecibirInstruccionNulo, WaitSinTimer, Cae, Previstos
    <3> QED  BY <3>2 DEF Meta
  <2>2. CASE RecibirInadmisibleSinIniciar
    BY <2>2 DEF RecibirInadmisibleSinIniciar, Cae, PorGenerica, Meta
  <2> QED
    BY <1>0, <1>6, <2>1, <2>2
    DEF RecibirDelCpu, RecibirAusente, RecibirFinalizado, RecibirInstruccion,
        RecibirDesalojo, RecibirFin
<1>7. CASE Interrupciones
  <2>1. ASSUME NEW m \in Motivos, InterrumpirNulo(m) PROVE Meta
    BY <2>1 DEF InterrumpirNulo, Cae, Meta
  <2> QED
    BY <1>0, <1>7, <2>1 DEF Interrupciones, VenceQuantum, Interrumpir
<1>8. Consola \/ CpuEjecuta \/ UNCHANGED vars => caido' = caido
  BY DEF Consola, IniciarProceso, FinalizarProceso, CpuEjecuta, CpuRecibe,
         CpuEmpieza, CpuInterrupcion, CpuPide, CpuRespondido, CpuExit,
         CpuSinMemoria, CpuVeInterrupcion, CpuSale, Desaloja, vars
<1> QED
  BY <1>0, <1>2, <1>3, <1>4, <1>5, <1>6, <1>7, <1>8
  DEF Next, HilosDelKernel, Terminado

MInv == VInv /\ Estructuras

Caidas == {"", "puntero nulo"} \union PorGenerica

LEMMA SpecMInv ==
  CasosPrevistos => (Spec => [](MInv /\ caido \in Caidas))
<1> SUFFICES ASSUME CasosPrevistos
             PROVE  Spec => [](MInv /\ caido \in Caidas)
  OBVIOUS
<1>1. Init => MInv /\ caido \in Caidas
  <2>1. ASSUME Init PROVE Estructuras
    <3>1. \A t \in Hilos : hilos[t].pc # "plp_ready"
      BY <2>1 DEF Init, Reposo
    <3>2. Admitidos = {}
      BY <2>1 DEF Init, Admitidos
    <3> QED  BY <3>1, <3>2 DEF Estructuras
  <2> QED  BY <2>1, InitIInv, InitVida DEF MInv, VInv, Init, Caidas
<1>2. MInv /\ caido \in Caidas /\ [Next]_vars =>
        (MInv /\ caido \in Caidas)'
  <2> SUFFICES ASSUME MInv, caido \in Caidas, [Next]_vars
               PROVE  MInv' /\ caido' \in Caidas
    OBVIOUS
  <2>1. VInv' /\ Estructuras'
    BY NextVInv, NextEstructuras DEF MInv
  <2>2. caido' \in Caidas
    BY NextCaido, Zenon DEF MInv, Caidas
  <2> QED  BY <2>1, <2>2 DEF MInv
<1> QED  BY <1>1, <1>2, PTL DEF Spec

\* Memoria survives what the kernel asks of it and the kernel finds every pcb
\* where it expects it, whatever the algorithm and the quantum: avisar_a_memoria_
\* para_liberar_estructuras is called once for each process that memoria has
\* structures of, and plp_exit, _desalojar_proceso and _reubicar_pcb_de_execute_
\* a_ready never reach their exit(EXIT_FAILURE).
THEOREM KernelMemoriaViva ==
  CasosPrevistos => (Spec => [](MemoriaViva /\ SinSalidaForzada))
<1>1. caido \in Caidas => MemoriaViva /\ SinSalidaForzada
  BY DEF MemoriaViva, SinSalidaForzada, Caidas, PorGenerica
<1> QED  BY <1>1, SpecMInv, PTL

\* No quantum runs out, and the remains of one are not kept for later.
SinQuantum == "QUANTUM" \notin Sucesos /\ Algoritmo # "VRR"

\* Nobody is told to interrupt.
SinAvisos == \A m \in Motivos : sem[m] = 0

LEMMA NextAvisos ==
  ASSUME SinQuantum, VInv, SinAvisos, [Next]_vars
  PROVE  SinAvisos'
<1> SUFFICES sem' = sem
  BY DEF SinAvisos
<1>1. Tipos /\ Vida
  BY DEF VInv, IInv
<1>2. ASSUME NEW t \in Hilos, HiloLargoPlazo(t) PROVE sem' = sem
  <2>1. ~SegunEstado(t)
    BY <1>1, SinSegunEstado DEF SegunEstado, EnPc
  <2> QED
    BY <1>2, <2>1
    DEF HiloLargoPlazo, Nuevo, TomarNew, TomarCupo, PasarAReady, Buscar,
        BuscarNulo, SegunEstadoAusente, SalirDeExec, SalirDeExecAusente,
        LiberarRecurso, LiberarSumar, AvisarMemoria, AvisarDesconocido, Transferir,
        AgregarAExit, Cae, semVars
<1>3. ASSUME NEW t \in Hilos, HiloCortoPlazo(t) PROVE sem' = sem
  <2>1. CASE Tomar(t)
    BY <2>1 DEF Tomar, PidePrioridad, SinQuantum
  <2> QED
    BY <1>3, <2>1
    DEF HiloCortoPlazo, MirarReady, TomarExec, TomarReady, TomarSinTimer, AtenderMotivo,
        Reubicar, ReubicarReady, ReubicarAReady, ReubicarAusente, Analizar,
        AnalizarNulo, AgregarAReady, Cae, semVars
<1>4. ASSUME NEW t \in Hilos, HiloRecursos(t) \/ HiloDespacho(t) PROVE sem' = sem
  BY <1>4 DEF HiloRecursos, HiloDespacho, AgregarDesconocido, WaitLeer, WaitRestar, WaitBloquear,
    WaitEncolar, SignalSumar, Asignar, AsignarRestar, Desbloquear, AgregarABlocked, MandarIO, EncolarIO, semVars
<1>5. ASSUME NEW i \in Interfaces, HiloInterfaz(i) PROVE sem' = sem
  BY <1>5 DEF HiloInterfaz, FinEntradaSalida, SiguienteIO, SiguienteIOLiberada,
    LiberarIO, Cae, semVars
<1>6. RecibirDelCpu => sem' = sem
  BY DEF RecibirDelCpu, RecibirAusente, RecibirFinalizado, RecibirInstruccion,
         RecibirInstruccionNulo,
         RecibirInadmisibleSinIniciar, RecibirDesalojo, RecibirFin, Cae, semVars
<1>7. Interrupciones => sem' = sem
  <2>1. ~VenceQuantum
    BY DEF VenceQuantum, SinQuantum
  <2>2. ASSUME NEW m \in Motivos, Interrumpir(m) PROVE FALSE
    <3>1. sem[m] > 0
      BY <2>2 DEF Interrumpir, HayQueInterrumpir
    <3>2. sem[m] = 0
      BY DEF SinAvisos
    <3> QED  BY <3>1, <3>2
  <2>3. ASSUME NEW m \in Motivos, InterrumpirNulo(m) PROVE sem' = sem
    BY <2>3 DEF InterrumpirNulo, Cae, semVars
  <2> QED  BY <2>1, <2>2, <2>3 DEF Interrupciones
<1>8. Consola \/ CpuEjecuta \/ UNCHANGED vars => sem' = sem
  BY DEF Consola, IniciarProceso, FinalizarProceso, CpuEjecuta, CpuRecibe,
         CpuEmpieza, CpuInterrupcion, CpuPide, CpuRespondido, CpuExit,
         CpuSinMemoria, CpuVeInterrupcion, CpuSale, Desaloja, vars, semVars
<1> QED
  BY <1>2, <1>3, <1>4, <1>5, <1>6, <1>7, <1>8 DEF Next, HilosDelKernel, Terminado

\* Neither the kernel nor memoria ever dies when no quantum runs out: with the
\* two of KernelMemoriaViva, no list is empty and no search fails where the
\* kernel dereferences what it got from it.
THEOREM KernelNadieMuere ==
  CasosPrevistos /\ SinQuantum => (Spec => []NadieMuere)
<1> SUFFICES ASSUME CasosPrevistos, SinQuantum PROVE Spec => []NadieMuere
  OBVIOUS
<1>1. Spec => []MInv
  BY SpecMInv, PTL
<1> DEFINE EnPie == caido = "" \/ caido \in PorGenerica
<1>2. Init => SinAvisos /\ EnPie
  BY DEF Init, SinAvisos
<1>3. MInv /\ SinAvisos /\ EnPie /\ [Next]_vars => (SinAvisos /\ EnPie)'
  <2> SUFFICES ASSUME MInv, SinAvisos, EnPie, [Next]_vars
               PROVE  SinAvisos' /\ EnPie'
    OBVIOUS
  <2>1. VInv /\ Estructuras
    BY DEF MInv
  <2>2. \A m \in Motivos : ~(sem[m] > 0)
    <3>1. ASSUME NEW m \in Motivos, sem[m] > 0 PROVE FALSE
      <4>1. PICK k : k = sem[m]
        OBVIOUS
      <4>2. k = 0 /\ k > 0
        BY <3>1, <4>1 DEF SinAvisos
      <4> QED  BY ONLY <4>2
    <3> QED  BY <3>1
  <2>3. EnPie'
    BY <2>1, <2>2, NextCaido DEF SinQuantum
  <2> QED  BY <2>1, <2>3, NextAvisos
<1>4. EnPie => NadieMuere
  BY DEF NadieMuere, SinPunteroNulo, MemoriaViva, SinSalidaForzada, PorGenerica
<1> QED  BY <1>1, <1>2, <1>3, <1>4, PTL DEF Spec

-----------------------------------------------------------------------------
(* Who brings back a blocked process *)

\* p waits at a resource or an interface, or a thread has it in hand.
Ficha(p) == EnCola(p) \/ \E t \in Hilos : hilos[t].p = p

\* The thread of an interface attends the end of an I/O, up to the point where
\* it takes the next request or sets `libre'.
Atiende(h) == h.pc \in {"buscar", "io_siguiente", "io_liberar"}

\* A thread that read `libre' of i and has still to send the request.
Mandara(h, i) ==
  /\ h.r = i
  /\ \/ h.pc = "io_mandar"
     \/ h.pc \in {"transferir", "agregar"} /\ h.l = "BLOCKED" /\ h.op = "io_libre"

\* An interface that is free, or about to be, works for nobody, and only the
\* dispatch thread may take it: no request is sent over another.
UnPedido ==
  \A i \in Interfaces :
    /\ io[i].libre => io[i].pedido = Nadie
    /\ Atiende(hilos[i]) => io[i].pedido = Nadie /\ ~io[i].libre
    /\ \A t \in Hilos : Mandara(hilos[t], i) => t = Despacho /\ io[i].libre

Atencion ==
  /\ \A p \in Pids : estado[p] = "BLOCKED" => Ficha(p)
  /\ UnPedido

\* Only the process in the hands of h gets blocked.
BloqueaA(h) ==
  \A p \in Pids : estado'[p] = "BLOCKED" => estado[p] = "BLOCKED" \/ p = h.p

\* A thread that goes on as h does not forget a blocked process, and promises
\* nothing new about an interface but what the dispatch thread has just read.
Limpia(t, h) ==
  /\ hilos[t].p \in Pids /\ estado[hilos[t].p] = "BLOCKED" => h.p = hilos[t].p
  /\ Atiende(h) => Atiende(hilos[t])
  /\ \A i \in Interfaces :
       Mandara(h, i) => Mandara(hilos[t], i) \/ (t = Despacho /\ io[i].libre)

LEMMA ColaIgual ==
  ASSUME UNCHANGED <<cola_recurso, io>>, NEW p, EnCola(p)
  PROVE  EnCola(p)'
  BY DEF EnCola, EnIo

\* The threads but t stay as they are, or leave their rest for something that is
\* about no interface.
Ajenos(t) ==
  \A u \in Hilos \ {t} :
    \/ hilos'[u] = hilos[u]
    \/ /\ hilos[u].p = Nadie /\ ~Atiende(hilos'[u])
       /\ \A i \in Interfaces : ~Mandara(hilos'[u], i)

LEMMA AtencionSigue ==
  ASSUME Atencion, NEW t \in Hilos, NEW h, hilos'[t] = h, Ajenos(t),
         BloqueaA(h), Limpia(t, h), UNCHANGED <<cola_recurso, io>>
  PROVE  Atencion'
<1>1. ASSUME NEW p \in Pids, estado'[p] = "BLOCKED" PROVE Ficha(p)'
  <2>1. CASE p = h.p
    BY <2>1 DEF Ficha
  <2>2. CASE estado[p] = "BLOCKED"
    <3>1. CASE EnCola(p)
      BY <3>1, ColaIgual DEF Ficha
    <3>2. CASE hilos[t].p = p
      BY <2>2, <3>2 DEF Limpia, Ficha
    <3>3. ASSUME NEW u \in Hilos \ {t}, hilos[u].p = p PROVE Ficha(p)'
      <4>1. hilos'[u] = hilos[u]
        BY <3>3, NadieNoEsPid DEF Ajenos
      <4> QED  BY <3>3, <4>1 DEF Ficha
    <3> QED  BY <2>2, <3>1, <3>2, <3>3 DEF Atencion, Ficha
  <2> QED  BY <1>1, <2>1, <2>2 DEF BloqueaA
<1>2. ASSUME NEW i \in Interfaces
      PROVE  /\ io'[i].libre => io'[i].pedido = Nadie
             /\ Atiende(hilos'[i]) => io'[i].pedido = Nadie /\ ~io'[i].libre
             /\ \A u \in Hilos : Mandara(hilos'[u], i) => u = Despacho /\ io'[i].libre
  <2>1. i \in Hilos /\ io' = io
    BY DEF Hilos
  <2>2. Atiende(hilos'[i]) => Atiende(hilos[i])
    BY <2>1 DEF Ajenos, Limpia
  <2>3. \A u \in Hilos : Mandara(hilos'[u], i) =>
          Mandara(hilos[u], i) \/ (u = Despacho /\ io[i].libre)
    BY DEF Ajenos, Limpia
  <2> QED  BY <2>1, <2>2, <2>3 DEF Atencion, UnPedido
<1> QED
  BY <1>1, <1>2 DEF Atencion, UnPedido, Atiende, Mandara

LEMMA AtencionPasa ==
  ASSUME Tipos, Atencion, NEW t \in Hilos, NEW h, Pasa(t, h),
         BloqueaA(h), Limpia(t, h), UNCHANGED <<cola_recurso, io>>
  PROVE  Atencion'
  BY PasaHilo, AtencionSigue DEF Ajenos

\* A thread with no blocked process in hand that goes on to something else.
LEMMA AtencionLibre ==
  ASSUME Tipos, Atencion, NEW t \in Hilos, NEW h, Pasa(t, h),
         hilos[t].p \in Pids => estado[hilos[t].p] # "BLOCKED",
         ~Atiende(h), h.pc \notin {"io_mandar", "transferir", "agregar"},
         BloqueaA(h), UNCHANGED <<cola_recurso, io>>
  PROVE  Atencion'
<1>1. Limpia(t, h)
  BY DEF Limpia, Mandara
<1> QED  BY <1>1, AtencionPasa

\* The same, for one that returns or goes on to replan.
LEMMA AtencionVuelve ==
  ASSUME Tipos, Atencion, NEW t \in Hilos,
         Vuelve(t) \/ \E ms : Pasa(t, LlamaPcp(t, ms)),
         hilos[t].p \in Pids => estado[hilos[t].p] # "BLOCKED",
         \A p \in Pids : estado'[p] = "BLOCKED" => estado[p] = "BLOCKED",
         UNCHANGED <<cola_recurso, io>>
  PROVE  Atencion'
<1>1. \A h : BloqueaA(h)
  BY DEF BloqueaA
<1>2. CASE Vuelve(t)
  <2>1. Reposo.pc = "reposo"
    BY ReposoLibre
  <2> QED  BY <1>1, <1>2, <2>1, AtencionLibre DEF Vuelve, Atiende
<1>3. ASSUME NEW ms, Pasa(t, LlamaPcp(t, ms)) PROVE Atencion'
  <2>1. LlamaPcp(t, ms).pc = "pcp"
    BY PcpLibre
  <2> PICK h : h = LlamaPcp(t, ms)
    OBVIOUS
  <2> QED  BY <1>1, <1>3, <2>1, AtencionLibre DEF Atiende
<1> QED  BY <1>2, <1>3

LEMMA AtencionIgual ==
  ASSUME Atencion, UNCHANGED <<estado, cola_recurso, io, hilos>>
  PROVE  Atencion'
  BY DEF Atencion, Ficha, EnCola, EnIo, UnPedido, Atiende, Mandara

LEMMA AtencionLanza ==
  ASSUME Tipos, Vida, Atencion, NEW n, Lanza(n), ~Atiende(n),
         n.pc \notin {"io_mandar", "transferir", "agregar"},
         UNCHANGED <<estado, cola_recurso, io>>
  PROVE  Atencion'
<1> PICK d \in Hilos : /\ hilos[d].pc = "reposo" /\ hilos'[d] = n
                       /\ \A u \in Hilos \ {d} : hilos'[u] = hilos[u]
  BY LanzaHilo
<1>1. hilos[d].p = Nadie
  BY PcsAparte DEF Vida, Ubica, SinProceso
<1>2. Limpia(d, n)
  BY <1>1, NadieNoEsPid DEF Limpia, Mandara
<1>3. Ajenos(d) /\ BloqueaA(n)
  BY DEF Ajenos, BloqueaA
<1> QED  BY <1>2, <1>3, AtencionSigue

LEMMA LargoPlazoAtencion ==
  ASSUME Tipos, Vida, Atencion, NEW t \in Hilos, HiloLargoPlazo(t)
  PROVE  Atencion'
<1> PICK p : p = hilos[t].p
  OBVIOUS
<1> PICK g \in Hilo : g = hilos[t]
  BY TiposDeListas
<1>0. estado \in [Pids -> Estados] /\ "BLOCKED" \in Colas /\ Ubica(t)
  BY TiposDeListas DEF Vida, Colas
<1>1. CASE hilos' = hilos /\ UNCHANGED <<estado, cola_recurso, io>>
  BY <1>1, AtencionIgual
<1>2. CASE Nuevo(t)
  <2>1. /\ g.pc = "nuevo" /\ estado' = [estado EXCEPT ![p] = "NEW"]
        /\ Pasa(t, Arranca("plp", Nadie, Nadie)) /\ UNCHANGED <<cola_recurso, io>>
    BY <1>2 DEF Nuevo, EnPc
  <2>2. p \in Pids /\ estado[p] = "NINGUNO"
    BY <1>0, <2>1 DEF Ubica, SinProceso
  <2>3. Arranca("plp", Nadie, Nadie).pc = "plp"
    BY ArrancaCampos
  <2>4. BloqueaA(Arranca("plp", Nadie, Nadie))
    BY <1>0, <2>1 DEF BloqueaA
  <2> QED  BY <2>1, <2>2, <2>3, <2>4, AtencionLibre DEF Atiende
<1>3. CASE TomarNew(t) \/ TomarCupo(t)
  <2>1. g.pc \in {"plp", "plp_cupo"} /\ UNCHANGED <<estado, cola_recurso, io>>
    BY <1>3 DEF TomarNew, TomarCupo, EnPc
  <2>2. p = Nadie /\ p \notin Pids
    BY <1>0, <2>1, NadieNoEsPid
    DEF Ubica, ConProceso, EnServicio, EnEspera, EnVuelta
  <2>3. \A h : BloqueaA(h)
    BY <2>1 DEF BloqueaA
  <2>4. CASE \E ms : Pasa(t, LlamaPcp(t, ms))
    BY <2>1, <2>2, <2>4, AtencionVuelve
  <2>5. ASSUME NEW q, Pasa(t, [g EXCEPT !.pc = "plp_ready", !.p = q])
        PROVE  Atencion'
    <3>1. [g EXCEPT !.pc = "plp_ready", !.p = q].pc = "plp_ready"
      BY DEF Hilo
    <3> QED  BY <2>1, <2>2, <2>3, <2>5, <3>1, AtencionLibre DEF Atiende
  <2>6. CASE Pasa(t, [g EXCEPT !.pc = "plp_cupo", !.tiene = {"NEW"}])
    <3>1. [g EXCEPT !.pc = "plp_cupo", !.tiene = {"NEW"}].pc = "plp_cupo"
      BY DEF Hilo
    <3> QED  BY <2>1, <2>2, <2>3, <2>6, <3>1, AtencionLibre DEF Atiende
  <2> QED  BY <1>3, <2>4, <2>5, <2>6 DEF TomarNew, TomarCupo
<1>4. CASE PasarAReady(t)
  <2>1. /\ g.pc = "plp_ready" /\ estado' = [estado EXCEPT ![p] = "READY"]
        /\ Pasa(t, LlamaPcp(t, {})) /\ UNCHANGED <<cola_recurso, io>>
    BY <1>4 DEF PasarAReady, EnPc
  <2>2. p \in Pids /\ estado[p] = "NEW"
    BY <1>0, <2>1 DEF Ubica, SinProceso
  <2> QED  BY <1>0, <2>1, <2>2, AtencionVuelve
<1>5. CASE Buscar(t)
  <2>1. g.pc = "buscar" /\ UNCHANGED <<estado, cola_recurso, io>>
    BY <1>5 DEF Buscar, EnPc
  <2>2. p \in Pids /\ EnLista(p, "BLOCKED") /\ g.op = "fin"
    BY <1>0, <2>1 DEF Ubica, SinProceso, EnEspera
  <2>3. \E q, l : /\ Pasa(t, [g EXCEPT !.pc = "io_siguiente", !.p = q, !.l = ""])
                     /\ q = p
                  \/ Pasa(t, [g EXCEPT !.l = l])
    <3>1. Siguiente[g.l] = "" => g.l = "BLOCKED"
      <4>1. Argumentos(g)
        BY DEF Tipos, HilosBien
      <4>2. g.l \in {"NEW", "READY", "EXEC", "EXIT", "BLOCKED"}
        BY <2>1, <4>1 DEF Argumentos, Siguiente
      <4>3. /\ Siguiente["NEW"] = "READY" /\ Siguiente["READY"] = "EXEC"
            /\ Siguiente["EXEC"] = "EXIT" /\ Siguiente["EXIT"] = "BLOCKED"
        BY DEF Siguiente
      <4> QED  BY <4>2, <4>3
    <3>2. ~Encontrado(t, Nadie) \/ ~(Siguiente[g.l] = "" /\ ~EnLista(p, g.l))
      BY <2>2, <3>1
    <3> QED  BY <1>5, <2>2, <3>2 DEF Buscar, Encontrado
  <2>4. \A h : BloqueaA(h)
    BY <2>1 DEF BloqueaA
  <2>5. ASSUME NEW h, h.p = p, h.pc \in {"buscar", "io_siguiente"}, Pasa(t, h)
        PROVE  Atencion'
    <3>1. Limpia(t, h)
      BY <2>1, <2>5 DEF Limpia, Mandara, Atiende
    <3> QED  BY <2>1, <2>4, <2>5, <3>1, AtencionPasa
  <2>6. \A q, l : /\ [g EXCEPT !.pc = "io_siguiente", !.p = q, !.l = ""].p = q
                  /\ [g EXCEPT !.pc = "io_siguiente", !.p = q, !.l = ""].pc
                       = "io_siguiente"
                  /\ [g EXCEPT !.l = l].p = p
                  /\ [g EXCEPT !.l = l].pc = "buscar"
    BY <2>1 DEF Hilo
  <2> QED  BY <2>3, <2>5, <2>6
<1>6. CASE SalirDeExec(t)
  <2> PICK h : /\ h.pc \in {"avisar", "liberar"} /\ Pasa(t, h)
               /\ h.p = p
               /\ UNCHANGED <<estado, cola_recurso, io>>
    <3> PICK op, rs : Terminar(t, op, "EXEC", rs) /\ UNCHANGED <<estado, cola_recurso, io>>
      BY <1>6 DEF SalirDeExec
    <3> PICK pc \in {"avisar", "liberar"} :
          Pasa(t, [g EXCEPT !.pc = pc, !.op = op, !.rs = rs, !.tiene = {"EXEC"}])
      BY DEF Terminar
    <3>1. /\ [g EXCEPT !.pc = pc, !.op = op, !.rs = rs, !.tiene = {"EXEC"}].pc = pc
          /\ [g EXCEPT !.pc = pc, !.op = op, !.rs = rs, !.tiene = {"EXEC"}].p = p
      BY DEF Hilo
    <3> QED  BY <3>1
  <2>1. Limpia(t, h)
    BY DEF Limpia, Mandara, Atiende
  <2> QED  BY <2>1, AtencionPasa DEF BloqueaA
<1>7. CASE LiberarRecurso(t)
  <2> PICK r : r = Head(hilos[t].rs)
    OBVIOUS
  <2>1. g.pc = "liberar" /\ UNCHANGED <<estado, io>>
    BY <1>7 DEF LiberarRecurso, EnPc
  <2>2. p \in Pids /\ estado[p] = "EXEC"
    BY <1>0, <2>1 DEF Ubica, SinProceso
  <2>3. r \in Recursos
    <3>1. g.rs \in Seq(Recursos) /\ g.rs # <<>>
      BY <2>1 DEF Tipos, HilosBien, Argumentos, Hilo
    <3> QED  BY <3>1
  <2>4. ~Contains(cola_recurso[r], p)
    BY <2>2, <2>3, DeHilo DEF EnCola
  <2> PICK h : h = [g EXCEPT !.pc = "liberar_suma",
                             !.n = instancias[r], !.tiene = @ \union {r}]
    OBVIOUS
  <2>5. Pasa(t, h) /\ cola_recurso' = cola_recurso
    BY <1>7, <2>4 DEF LiberarRecurso
  <2>6. h.pc = "liberar_suma"
    BY DEF Hilo
  <2>7. BloqueaA(h)
    BY <2>1 DEF BloqueaA
  <2> QED  BY <2>1, <2>2, <2>5, <2>6, <2>7, AtencionLibre DEF Atiende
<1>12. CASE LiberarSumar(t)
  <2> PICK r : r = Head(hilos[t].rs)
    OBVIOUS
  <2>1. g.pc = "liberar_suma" /\ UNCHANGED <<estado, cola_recurso, io>>
    BY <1>12 DEF LiberarSumar, EnPc
  <2>2. p \in Pids /\ estado[p] = "EXEC"
    BY <1>0, <2>1 DEF Ubica, SinProceso
  <2>3. g.rs # <<>>
    BY <2>1 DEF Tipos, HilosBien, Argumentos
  <2> PICK h : h = [OtroRecurso(hilos[t]) EXCEPT !.n = 0, !.tiene = @ \ {r}]
    OBVIOUS
  <2> PICK n : n = Arranca("asignar", Nadie, r)
    OBVIOUS
  <2>5. PasaYLanza(t, h, n)
    BY <1>12 DEF LiberarSumar
  <2>6. h.pc \in {"liberar", "avisar"} /\ h.p = p
    BY <2>3, OtroRecursoLibera
  <2>7. n.pc = "asignar" /\ Limpia(t, h)
    BY <2>6, ArrancaCampos DEF Limpia, Mandara, Atiende
  <2> PICK d \in Desprendidos : /\ hilos[d].pc = "reposo"
                                /\ hilos' = [hilos EXCEPT ![t] = h, ![d] = n]
    BY <2>5 DEF PasaYLanza
  <2>8. d \in Hilos /\ hilos \in [Hilos -> Hilo] /\ d # t
    BY <2>1, TiposDeListas DEF Hilos
  <2>9. hilos[d].p = Nadie
    BY <2>8, PcsAparte DEF Vida, Ubica, SinProceso
  <2>10. hilos'[t] = h /\ Ajenos(t)
    BY <2>7, <2>8, <2>9 DEF Ajenos, Atiende, Mandara
  <2>11. BloqueaA(h)
    BY <2>1 DEF BloqueaA
  <2> QED  BY <2>1, <2>7, <2>10, <2>11, AtencionSigue
<1>8. CASE AvisarMemoria(t)
  <2> PICK h : h = [g EXCEPT !.pc = "transferir", !.l = "EXIT"]
    OBVIOUS
  <2>1. Pasa(t, h) /\ UNCHANGED <<estado, cola_recurso, io>>
    BY <1>8 DEF AvisarMemoria
  <2>2. h.pc = "transferir" /\ h.l = "EXIT" /\ h.p = p
    BY DEF Hilo
  <2>3. Limpia(t, h) /\ BloqueaA(h)
    BY <2>1, <2>2 DEF Limpia, Mandara, Atiende, BloqueaA
  <2> QED  BY <2>1, <2>3, AtencionPasa
<1>9. CASE Transferir(t)
  <2> PICK pc \in {"agregar", "colgado"} : Sigue(t, pc)
    BY <1>9 DEF Transferir
  <2> PICK h : h = [g EXCEPT !.pc = pc]
    OBVIOUS
  <2>1. /\ g.pc = "transferir" /\ Pasa(t, h) /\ UNCHANGED <<cola_recurso, io>>
        /\ estado' = [estado EXCEPT ![p] = g.l]
    BY <1>9 DEF Transferir, Sigue, EnPc
  <2>2. h.pc = pc /\ h.p = p /\ h.l = g.l /\ h.op = g.op /\ h.r = g.r
    BY DEF Hilo
  <2>3. Limpia(t, h)
    BY <2>1, <2>2 DEF Limpia, Mandara, Atiende
  <2>4. BloqueaA(h)
    BY <1>0, <2>1, <2>2 DEF BloqueaA
  <2> QED  BY <2>1, <2>3, <2>4, AtencionPasa
<1>10. CASE AgregarAExit(t)
  <2>1. /\ g.pc = "agregar" /\ g.l = "EXIT" /\ UNCHANGED <<estado, cola_recurso, io>>
        /\ Vuelve(t) \/ Pasa(t, LlamaPcp(t, {}))
    BY <1>10 DEF AgregarAExit, Agregar, EnPc
  <2>2. estado[p] = "EXIT"
    BY <1>0, <2>1 DEF Ubica
  <2> QED  BY <2>1, <2>2, AtencionVuelve
<1>11. ~SegunEstado(t)
  BY SinSegunEstado DEF SegunEstado, EnPc
<1> QED
  BY <1>1, <1>2, <1>3, <1>4, <1>5, <1>6, <1>7, <1>8, <1>9, <1>10, <1>11, <1>12
  DEF HiloLargoPlazo, BuscarNulo, SegunEstadoAusente, SalirDeExecAusente,
      AvisarDesconocido, Cae

LEMMA CortoPlazoAtencion ==
  ASSUME Tipos, Vida, Atencion, NEW t \in Hilos, HiloCortoPlazo(t)
  PROVE  Atencion'
<1> PICK p : p = hilos[t].p
  OBVIOUS
<1> PICK g \in Hilo : g = hilos[t]
  BY TiposDeListas
<1>0. /\ estado \in [Pids -> Estados] /\ "BLOCKED" \in Colas /\ "EXEC" \in Colas
      /\ Ubica(t) /\ \A q \in Pids : Lugar(q)
  BY TiposDeListas DEF Vida, Colas
<1>1. CASE hilos' = hilos /\ UNCHANGED <<estado, cola_recurso, io>>
  BY <1>1, AtencionIgual
<1>2. g.pc \in {"pcp", "pcp_exec", "pcp_tomar", "pcp_prioridad"} => p = Nadie /\ p \notin Pids
  BY <1>0, NadieNoEsPid DEF Ubica, ConProceso, EnServicio, EnEspera, EnVuelta
<1>3. g.pc \in EnServicio => p \in Pids /\ EnLista(p, "EXEC") /\ estado[p] = "EXEC"
  <2> SUFFICES ASSUME g.pc \in EnServicio
               PROVE  p \in Pids /\ EnLista(p, "EXEC") /\ estado[p] = "EXEC"
    OBVIOUS
  <2>1. p \in Pids /\ EnLista(p, "EXEC")
    BY <1>0 DEF Ubica, EnServicio, SinProceso
  <2> QED  BY <1>0, <2>1 DEF Lugar
<1>4. CASE MirarReady(t) \/ TomarExec(t)
  <2>1. /\ g.pc \in {"pcp", "pcp_exec"} /\ UNCHANGED <<estado, cola_recurso, io>>
        /\ \/ Vuelve(t)
           \/ \E pc \in {"pcp_exec", "pcp_tomar"} : \E ms :
                \/ Pasa(t, [g EXCEPT !.pc = pc])
                \/ Pasa(t, [g EXCEPT !.pc = pc, !.tiene = ms])
    BY <1>4 DEF MirarReady, TomarExec, VistoReady, ReteniendoExec, EnPc
  <2>2. ASSUME NEW h, h.pc \in {"pcp_exec", "pcp_tomar"}, Pasa(t, h)
        PROVE  Atencion'
    <3>1. BloqueaA(h)
      BY <2>1 DEF BloqueaA
    <3> QED  BY <1>2, <2>1, <2>2, <3>1, AtencionLibre DEF Atiende
  <2>3. ASSUME NEW pc \in {"pcp_exec", "pcp_tomar"}, NEW ms,
               \/ Pasa(t, [g EXCEPT !.pc = pc])
               \/ Pasa(t, [g EXCEPT !.pc = pc, !.tiene = ms])
        PROVE  Atencion'
    <3>1. /\ [g EXCEPT !.pc = pc].pc = pc
          /\ [g EXCEPT !.pc = pc, !.tiene = ms].pc = pc
      BY DEF Hilo
    <3> PICK h : Pasa(t, h) /\ h.pc = pc
      BY <2>3, <3>1
    <3> QED  BY <2>2
  <2>4. CASE Vuelve(t)
    BY <1>2, <2>1, <2>4, AtencionVuelve
  <2> QED  BY <2>1, <2>3, <2>4
<1>5. CASE Tomar(t)
  <2>1. /\ g.pc \in {"pcp_tomar", "pcp_prioridad"} /\ Vuelve(t)
        /\ UNCHANGED <<cola_recurso, io>>
        /\ \/ estado' = estado
           \/ \E q : estado' = [estado EXCEPT ![q] = "EXEC"]
    BY <1>5 DEF Tomar, PuedeTomar, Despachar, EnPc
  <2>2. \A q \in Pids : estado'[q] = "BLOCKED" => estado[q] = "BLOCKED"
    BY <1>0, <2>1
  <2> QED  BY <1>2, <2>1, <2>2, AtencionVuelve
<1>6. CASE AtenderMotivo(t) \/ Reubicar(t)
  <2>1. /\ g.pc \in {"motivo", "reubicar"} /\ UNCHANGED <<estado, cola_recurso, io>>
        /\ \/ Sigue(t, "reubicar") \/ Sigue(t, "desalojar")
           \/ PasaYLanza(t, Reposo, Arranca("desalojar", p, Nadie))
           \/ Pasa(t, [g EXCEPT !.pc = "reubicar_ready", !.tiene = {"EXEC"}])
    BY <1>6 DEF AtenderMotivo, Reubicar, EnPc
  <2>2. p \in Pids /\ estado[p] = "EXEC"
    BY <1>3, <2>1 DEF EnServicio
  <2>3. ASSUME NEW h, h.pc \in {"reubicar", "desalojar", "reubicar_ready"}, Pasa(t, h)
        PROVE  Atencion'
    <3>1. BloqueaA(h)
      BY <2>1 DEF BloqueaA
    <3> QED  BY <2>1, <2>2, <2>3, <3>1, AtencionLibre DEF Atiende
  <2>4. ASSUME \/ Sigue(t, "reubicar") \/ Sigue(t, "desalojar")
               \/ Pasa(t, [g EXCEPT !.pc = "reubicar_ready", !.tiene = {"EXEC"}])
        PROVE  Atencion'
    <3>1. /\ [g EXCEPT !.pc = "reubicar"].pc = "reubicar"
          /\ [g EXCEPT !.pc = "desalojar"].pc = "desalojar"
          /\ [g EXCEPT !.pc = "reubicar_ready", !.tiene = {"EXEC"}].pc = "reubicar_ready"
      BY DEF Hilo
    <3> PICK h : Pasa(t, h) /\ h.pc \in {"reubicar", "desalojar", "reubicar_ready"}
      BY <2>4, <3>1 DEF Sigue
    <3> QED  BY <2>3
  <2>5. CASE PasaYLanza(t, Reposo, Arranca("desalojar", p, Nadie))
    <3> PICK n : n = Arranca("desalojar", p, Nadie)
      OBVIOUS
    <3> PICK d \in Desprendidos :
          /\ hilos[d].pc = "reposo"
          /\ hilos' = [hilos EXCEPT ![t] = Reposo, ![d] = n]
      BY <2>5 DEF PasaYLanza
    <3>1. d \in Hilos /\ hilos \in [Hilos -> Hilo] /\ d # t /\ n.pc = "desalojar"
      BY <2>1, TiposDeListas, ArrancaCampos DEF Hilos
    <3>2. hilos[d].p = Nadie
      BY <3>1, PcsAparte DEF Vida, Ubica, SinProceso
    <3>3. hilos'[t] = Reposo /\ Ajenos(t)
      BY <3>1, <3>2 DEF Ajenos, Atiende, Mandara
    <3>4. Limpia(t, Reposo) /\ BloqueaA(Reposo)
      BY <2>1, <2>2, ReposoLibre DEF Limpia, Atiende, Mandara, BloqueaA
    <3> QED  BY <2>1, <3>3, <3>4, AtencionSigue
  <2> QED  BY <2>1, <2>4, <2>5
<1>10. CASE TomarReady(t) \/ ReubicarReady(t)
  <2> PICK m : m = hilos[t].tiene \union {"READY"}
    OBVIOUS
  <2> PICK pc \in {"pcp_prioridad", "reubicar_prioridad"} :
        /\ Pasa(t, [g EXCEPT !.pc = pc, !.tiene = m])
        /\ g.pc = IF pc = "pcp_prioridad" THEN "pcp_tomar" ELSE "reubicar_ready"
        /\ UNCHANGED <<estado, cola_recurso, io>>
    BY <1>10 DEF TomarReady, ReubicarReady, EnPc
  <2> PICK h : h = [g EXCEPT !.pc = pc, !.tiene = m]
    OBVIOUS
  <2>1. h.pc = pc
    BY DEF Hilo
  <2>2. p \in Pids => estado[p] # "BLOCKED"
    BY <1>2, <1>3 DEF EnServicio
  <2>3. BloqueaA(h)
    BY DEF BloqueaA
  <2> QED  BY <2>1, <2>2, <2>3, AtencionLibre DEF Atiende
<1>7. CASE ReubicarAReady(t)
  <2>1. /\ g.pc = "reubicar_prioridad" /\ estado' = [estado EXCEPT ![p] = "READY"]
        /\ Pasa(t, LlamaPcp(t, {})) /\ UNCHANGED <<cola_recurso, io>>
    BY <1>7 DEF ReubicarAReady, Replanificar, EstadoReady, EnPc
  <2>2. p \in Pids /\ estado[p] = "EXEC"
    BY <1>3, <2>1 DEF EnServicio
  <2> QED  BY <1>0, <2>1, <2>2, AtencionVuelve
<1>8. CASE Analizar(t)
  <2> PICK l \in {"READY", "READY_PRIORIDAD"} :
        Pasa(t, [g EXCEPT !.pc = "transferir", !.l = l])
    BY <1>8 DEF Analizar, Destinos, DestinosVRR
  <2> PICK h : h = [g EXCEPT !.pc = "transferir", !.l = l]
    OBVIOUS
  <2>1. h.pc = "transferir" /\ h.l = l /\ h.p = p
    BY DEF Hilo
  <2>2. UNCHANGED <<estado, cola_recurso, io>> /\ Pasa(t, h)
    BY <1>8 DEF Analizar
  <2>3. Limpia(t, h) /\ BloqueaA(h)
    BY <2>1, <2>2 DEF Limpia, Mandara, Atiende, BloqueaA
  <2> QED  BY <2>2, <2>3, AtencionPasa
<1>9. CASE AgregarAReady(t)
  <2>1. /\ g.pc = "agregar" /\ g.l \in {"READY", "READY_PRIORIDAD"}
        /\ UNCHANGED <<estado, cola_recurso, io>>
        /\ \E ms : Pasa(t, LlamaPcp(t, ms))
    BY <1>9 DEF AgregarAReady, Agregar, EnPc
  <2>2. estado[p] \in {"READY", "READY_PRIORIDAD"}
    BY <1>0, <2>1 DEF Ubica
  <2> QED  BY <2>1, <2>2, AtencionVuelve
<1> QED
  BY <1>1, <1>4, <1>5, <1>6, <1>7, <1>8, <1>9, <1>10
  DEF HiloCortoPlazo, TomarSinTimer, ReubicarAusente, AnalizarNulo, Cae

\* Thread t takes from a queue whoever leaves it, and interfaces serve as before.
LEMMA AtencionToma ==
  ASSUME Tipos, Atencion, NEW t \in Hilos, NEW h, Pasa(t, h),
         hilos[t].p \notin Pids,
         UNCHANGED <<estado, io>>,
         \A q : EnCola(q) => EnCola(q)' \/ q = h.p,
         ~Atiende(h) /\ \A i \in Interfaces : ~Mandara(h, i)
  PROVE  Atencion'
<1>1. hilos'[t] = h /\ \A u \in Hilos \ {t} : hilos'[u] = hilos[u]
  BY PasaHilo
<1>2. ASSUME NEW p \in Pids, estado'[p] = "BLOCKED" PROVE Ficha(p)'
  <2>1. CASE EnCola(p)
    BY <1>1, <2>1 DEF Ficha
  <2>2. ASSUME NEW u \in Hilos, hilos[u].p = p PROVE Ficha(p)'
    <3>1. u # t
      BY <2>2
    <3> QED  BY <1>1, <2>2, <3>1 DEF Ficha
  <2> QED  BY <1>2, <2>1, <2>2 DEF Atencion, Ficha
<1>3. \A u \in Hilos : /\ Atiende(hilos'[u]) => Atiende(hilos[u])
                       /\ \A i \in Interfaces :
                            Mandara(hilos'[u], i) => Mandara(hilos[u], i)
  BY <1>1
<1>4. Interfaces \subseteq Hilos
  BY DEF Hilos
<1> QED
  BY <1>2, <1>3, <1>4 DEF Atencion, UnPedido, Atiende, Mandara

\* Thread t leaves its process in a queue, and interfaces serve as before.
LEMMA AtencionEntrega ==
  ASSUME Tipos, Atencion, NEW t \in Hilos, NEW h, Pasa(t, h),
         UNCHANGED <<estado, io>>,
         \A q : EnCola(q) \/ q = hilos[t].p => EnCola(q)',
         ~Atiende(h), h.pc \notin {"io_mandar", "transferir", "agregar"}
  PROVE  Atencion'
<1>1. hilos'[t] = h /\ \A u \in Hilos \ {t} : hilos'[u] = hilos[u]
  BY PasaHilo
<1>2. ASSUME NEW p \in Pids, estado'[p] = "BLOCKED" PROVE Ficha(p)'
  <2>1. CASE EnCola(p)
    BY <2>1 DEF Ficha
  <2>2. ASSUME NEW u \in Hilos, hilos[u].p = p PROVE Ficha(p)'
    BY <1>1, <2>2 DEF Ficha
  <2> QED  BY <1>2, <2>1, <2>2 DEF Atencion, Ficha
<1>3. \A u \in Hilos : /\ Atiende(hilos'[u]) => Atiende(hilos[u])
                       /\ \A i \in Interfaces :
                            Mandara(hilos'[u], i) => Mandara(hilos[u], i)
  BY <1>1 DEF Mandara
<1>4. Interfaces \subseteq Hilos
  BY DEF Hilos
<1> QED
  BY <1>2, <1>3, <1>4 DEF Atencion, UnPedido, Atiende, Mandara

LEMMA RecursosAtencion ==
  ASSUME Tipos, Vida, Atencion, NEW t \in Hilos, HiloRecursos(t)
  PROVE  Atencion'
<1> PICK p, r : p = hilos[t].p /\ r = hilos[t].r
  OBVIOUS
<1> PICK g \in Hilo : g = hilos[t]
  BY TiposDeListas
<1>0. Ubica(t) /\ \A q \in Pids : Lugar(q)
  BY DEF Vida
<1>1. ~AgregarDesconocido(t)
  BY <1>0 DEF AgregarDesconocido, Agregar, EnPc, Ubica
<1>2. CASE WaitBloquear(t)
  <2> PICK h : h = [g EXCEPT !.pc = "transferir", !.op = "wait", !.l = "BLOCKED"]
    OBVIOUS
  <2>1. Pasa(t, h) /\ UNCHANGED <<estado, cola_recurso, io>>
    BY <1>2 DEF WaitBloquear, ABlocked
  <2>2. h.pc = "transferir" /\ h.op = "wait" /\ h.p = p
    BY DEF Hilo
  <2>3. Limpia(t, h) /\ BloqueaA(h)
    BY <2>1, <2>2 DEF Limpia, Mandara, Atiende, BloqueaA
  <2> QED  BY <2>1, <2>3, AtencionPasa
<1>3. CASE WaitEncolar(t)
  <2>1. g.pc = "wait_encolar" /\ UNCHANGED <<estado, io>>
    BY <1>3 DEF WaitEncolar, EnPc
  <2>2. p \in Pids /\ r \in Recursos
    BY <1>0, <2>1 DEF Ubica, SinProceso, Tipos, HilosBien, Argumentos
  <2>3. CASE Sigue(t, "colgado") /\ cola_recurso' = cola_recurso
    <3> PICK h : h = [g EXCEPT !.pc = "colgado"]
      OBVIOUS
    <3>1. h.pc = "colgado" /\ h.p = p /\ Pasa(t, h)
      BY <2>3 DEF Hilo, Sigue
    <3>2. Limpia(t, h) /\ BloqueaA(h)
      BY <2>1, <3>1 DEF Limpia, Mandara, Atiende, BloqueaA
    <3> QED  BY <2>1, <2>3, <3>1, <3>2, AtencionPasa
  <2>4. CASE cola_recurso' = ColaConPedido(p, r) /\ Pasa(t, LlamaPcp(t, {}))
    <3> PICK s \in Seq(Pids) : s = cola_recurso[r]
      BY <2>2, TiposDeListas
    <3>1. /\ cola_recurso'[r] = Append(s, p)
          /\ \A x \in Recursos \ {r} : cola_recurso'[x] = cola_recurso[x]
      BY <2>2, <2>4, TiposDeListas DEF ColaConPedido
    <3>2. ~Contains(s, p) /\ SinRepetir(s)
      BY <2>2, DeHilo DEF EnCola, Vida, Ordenadas
    <3>3. \A x : Contains(Append(s, p), x) <=> Contains(s, x) \/ x = p
      BY <2>2, <3>2, AlFinal
    <3>4. \A q : EnCola(q) \/ q = p => EnCola(q)'
      BY <2>1, <2>2, <3>1, <3>3 DEF EnCola, EnIo
    <3>5. LlamaPcp(t, {}).pc = "pcp"
      BY PcpLibre
    <3> QED  BY <2>1, <2>4, <3>4, <3>5, AtencionEntrega DEF Atiende
  <2> QED  BY <1>3, <2>3, <2>4 DEF WaitEncolar
<1>4. CASE Asignar(t)
  <2>1. g.pc = "asignar" /\ UNCHANGED <<estado, io>>
    BY <1>4 DEF Asignar, EnPc
  <2>2. p = Nadie /\ r \in Recursos
    BY <1>0, <2>1, PcsAparte DEF Ubica, SinProceso, Tipos, HilosBien, Argumentos
  <2>3. CASE cola_recurso[r] = <<>>
    <3>1. Vuelve(t) /\ cola_recurso' = cola_recurso
      BY <1>4, <2>3 DEF Asignar
    <3> QED  BY <2>1, <2>2, <3>1, NadieNoEsPid, AtencionVuelve
  <2>4. CASE cola_recurso[r] # <<>>
    <3> PICK s \in Seq(Pids) : s = cola_recurso[r]
      BY <2>2, TiposDeListas
    <3> PICK h : h = [Leido(hilos[t], "asignar_resta", r) EXCEPT
                        !.p = Head(s), !.tiene = {r}]
      OBVIOUS
    <3>1. Pasa(t, h) /\ cola_recurso' = [cola_recurso EXCEPT ![r] = Tail(s)]
      BY <1>4, <2>4 DEF Asignar
    <3>2. h.pc = "asignar_resta" /\ h.p = Head(s)
      BY DEF Hilo, Leido
    <3>3. \A x : Contains(Tail(s), x) <=> Contains(s, x) /\ x # Head(s)
      BY <2>2, <2>4, Resto DEF Vida, Ordenadas
    <3>4. \A q : EnCola(q) => EnCola(q)' \/ q = h.p
      BY <2>1, <2>2, <3>1, <3>2, <3>3, TiposDeListas DEF EnCola, EnIo
    <3>5. ~Atiende(h) /\ \A i \in Interfaces : ~Mandara(h, i)
      BY <3>2 DEF Atiende, Mandara
    <3> QED  BY <2>1, <2>2, <3>1, <3>4, <3>5, NadieNoEsPid, AtencionToma
  <2> QED  BY <2>3, <2>4
<1>5. CASE Desbloquear(t)
  <2>1. g.pc = "desbloquear" /\ UNCHANGED <<estado, cola_recurso, io>>
    BY <1>5 DEF Desbloquear, EnPc
  <2>2. EnLista(p, "BLOCKED")
    BY <1>0, <2>1 DEF Ubica, EnEspera
  <2> PICK ms : Pasa(t, [g EXCEPT !.pc = "analizar", !.op = "asignar", !.tiene = ms])
    BY <1>5, <2>2 DEF Desbloquear
  <2> PICK h : h = [g EXCEPT !.pc = "analizar", !.op = "asignar", !.tiene = ms]
    OBVIOUS
  <2>3. h.pc = "analizar" /\ h.p = p
    BY DEF Hilo
  <2>4. Limpia(t, h) /\ BloqueaA(h)
    BY <2>1, <2>3 DEF Limpia, Mandara, Atiende, BloqueaA
  <2> QED  BY <2>1, <2>4, AtencionPasa
<1>6. CASE WaitLeer(t)
  <2> PICK h : h = Leido(g, "wait_resta", r)
    OBVIOUS
  <2>1. /\ g.pc = "wait_leer" /\ Pasa(t, h)
        /\ UNCHANGED <<estado, cola_recurso, io>>
    BY <1>6 DEF WaitLeer, EnPc
  <2>2. h.pc = "wait_resta"
    BY DEF Hilo, Leido
  <2>3. p \in Pids => estado[p] # "BLOCKED"
    BY <1>0, <2>1 DEF Ubica, EnServicio, Lugar, Colas
  <2>4. BloqueaA(h)
    BY <2>1 DEF BloqueaA
  <2> QED  BY <2>1, <2>2, <2>3, <2>4, AtencionLibre DEF Atiende
<1>7. CASE WaitRestar(t)
  <2>1. /\ g.pc = "wait_resta" /\ Vuelve(t)
        /\ UNCHANGED <<estado, cola_recurso, io>>
    BY <1>7 DEF WaitRestar, EnPc
  <2>2. p \in Pids => estado[p] # "BLOCKED"
    BY <1>0, <2>1 DEF Ubica, EnServicio, Lugar, Colas
  <2> QED  BY <2>1, <2>2, AtencionVuelve
<1>8. CASE SignalSumar(t)
  <2> PICK h : h = Arranca("asignar", Nadie, r)
    OBVIOUS
  <2>1. /\ g.pc = "signal_suma"
        /\ Vuelve(t) \/ Pasa(t, h)
        /\ UNCHANGED <<estado, cola_recurso, io>>
    BY <1>8 DEF SignalSumar, EnPc
  <2>2. p \in Pids => estado[p] # "BLOCKED"
    BY <1>0, <2>1 DEF Ubica, EnServicio, Lugar, Colas
  <2>3. h.pc = "asignar"
    BY ArrancaCampos
  <2>4. BloqueaA(h)
    BY <2>1 DEF BloqueaA
  <2>5. CASE Pasa(t, h)
    BY <2>1, <2>2, <2>3, <2>4, <2>5, AtencionLibre DEF Atiende
  <2> QED  BY <2>1, <2>2, <2>5, AtencionVuelve
<1>9. CASE AsignarRestar(t)
  <2> PICK h : h = [g EXCEPT !.pc = "desbloquear", !.n = 0]
    OBVIOUS
  <2>1. Pasa(t, h) /\ UNCHANGED <<estado, cola_recurso, io>>
    BY <1>9 DEF AsignarRestar
  <2>2. h.pc = "desbloquear" /\ h.p = p
    BY DEF Hilo
  <2>3. Limpia(t, h) /\ BloqueaA(h)
    BY <2>1, <2>2 DEF Limpia, Mandara, Atiende, BloqueaA
  <2> QED  BY <2>1, <2>3, AtencionPasa
<1> QED
  BY <1>1, <1>2, <1>3, <1>4, <1>5, <1>6, <1>7, <1>8, <1>9 DEF HiloRecursos

\* Thread t moves processes between its hands and the queues.
LEMMA AtencionMueve ==
  ASSUME Tipos, Atencion, NEW t \in Hilos, NEW h, Pasa(t, h), estado' = estado,
         \A q \in Pids : EnCola(q) \/ q = hilos[t].p => EnCola(q)' \/ q = h.p,
         UnPedido'
  PROVE  Atencion'
<1>1. hilos'[t] = h /\ \A u \in Hilos \ {t} : hilos'[u] = hilos[u]
  BY PasaHilo
<1>2. ASSUME NEW p \in Pids, estado'[p] = "BLOCKED" PROVE Ficha(p)'
  <2>1. CASE EnCola(p) \/ p = hilos[t].p
    BY <1>1, <2>1 DEF Ficha
  <2>2. ASSUME NEW u \in Hilos \ {t}, hilos[u].p = p PROVE Ficha(p)'
    BY <1>1, <2>2 DEF Ficha
  <2> QED  BY <1>2, <2>1, <2>2 DEF Atencion, Ficha
<1> QED  BY <1>2 DEF Atencion

\* Only what concerns interface i changes.
LEMMA UnPedidoDe ==
  ASSUME UnPedido, NEW i \in Interfaces, NEW t \in Hilos,
         \A u \in Hilos \ {t} : hilos'[u] = hilos[u],
         \A j \in Interfaces \ {i} : io'[j] = io[j],
         \A j \in Interfaces \ {i} : Mandara(hilos'[t], j) => Mandara(hilos[t], j),
         t \in Interfaces => t = i,
         io'[i].libre => io'[i].pedido = Nadie,
         Atiende(hilos'[i]) => io'[i].pedido = Nadie /\ ~io'[i].libre,
         \A u \in Hilos : Mandara(hilos'[u], i) => u = Despacho /\ io'[i].libre
  PROVE  UnPedido'
<1>1. ASSUME NEW j \in Interfaces, j # i
      PROVE  /\ io'[j].libre => io'[j].pedido = Nadie
             /\ Atiende(hilos'[j]) => io'[j].pedido = Nadie /\ ~io'[j].libre
             /\ \A u \in Hilos : Mandara(hilos'[u], j) => u = Despacho /\ io'[j].libre
  <2>1. io'[j] = io[j] /\ hilos'[j] = hilos[j]
    BY <1>1 DEF Hilos
  <2>2. \A u \in Hilos : Mandara(hilos'[u], j) => Mandara(hilos[u], j)
    BY <1>1
  <2> QED  BY <2>1, <2>2 DEF UnPedido
<1> QED  BY <1>1 DEF UnPedido, Atiende, Mandara

LEMMA HiloDespachoAtencion ==
  ASSUME Tipos, Vida, Atencion, NEW t \in Hilos, HiloDespacho(t)
  PROVE  Atencion'
<1> PICK p, i : p = hilos[t].p /\ i = hilos[t].r
  OBVIOUS
<1> PICK g \in Hilo : g = hilos[t]
  BY TiposDeListas
<1>0. Ubica(t) /\ \A q \in Pids : Lugar(q)
  BY DEF Vida
<1>1. CASE AgregarABlocked(t)
  <2> PICK pc \in {"wait_encolar", "io_mandar", "io_encolar"} :
        /\ Sigue(t, pc) /\ UNCHANGED <<estado, cola_recurso, io>>
        /\ pc = "io_mandar" => g.op = "io_libre"
    BY <1>1 DEF AgregarABlocked
  <2> PICK h : h = [g EXCEPT !.pc = pc]
    OBVIOUS
  <2>1. h.pc = pc /\ h.p = p /\ h.r = g.r /\ Pasa(t, h)
    BY DEF Hilo, Sigue
  <2>2. g.pc = "agregar" /\ g.l = "BLOCKED"
    BY <1>1 DEF AgregarABlocked, Agregar, EnPc
  <2>3. Limpia(t, h) /\ BloqueaA(h)
    BY <2>1, <2>2 DEF Limpia, Mandara, Atiende, BloqueaA
  <2> QED  BY <2>1, <2>3, AtencionPasa
<1>2. CASE MandarIO(t)
  <2>1. /\ g.pc = "io_mandar" /\ UNCHANGED <<estado, cola_recurso>>
        /\ Pasa(t, LlamaPcp(t, {}))
        /\ io' = [io EXCEPT ![i].libre = FALSE, ![i].pedido = p]
    BY <1>2 DEF MandarIO, EnPc
  <2>2. p \in Pids /\ i \in Interfaces
    BY <1>0, <2>1 DEF Ubica, SinProceso, Tipos, HilosBien, Argumentos
  <2>3. t = Despacho /\ io[i].libre /\ io[i].pedido = Nadie
    BY <2>1, <2>2 DEF Mandara, Atencion, UnPedido
  <2>4. /\ io'[i].pedido = p /\ io'[i].espera = io[i].espera /\ ~io'[i].libre
        /\ \A j \in Interfaces \ {i} : io'[j] = io[j]
    BY <2>1, <2>2, TiposDeListas DEF Instancia
  <2>5. \A q \in Pids : EnCola(q) \/ q = p => EnCola(q)'
    BY <2>1, <2>2, <2>3, <2>4, NadieNoEsPid DEF EnCola, EnIo
  <2> PICK h : h = LlamaPcp(t, {})
    OBVIOUS
  <2>6. hilos'[t] = h /\ h.pc = "pcp" /\ \A u \in Hilos \ {t} : hilos'[u] = hilos[u]
    BY <2>1, PasaHilo, PcpLibre
  <2>7. i \in Hilos /\ t \notin Interfaces
    BY <2>2, <2>3, KernelAssumption DEF Hilos
  <2>8. ~Atiende(hilos'[i])
    <3>1. ~Atiende(hilos[i])
      BY <2>2, <2>3 DEF Atencion, UnPedido
    <3> QED  BY <2>2, <2>6, <2>7, <3>1
  <2>9. \A u \in Hilos : ~Mandara(hilos'[u], i)
    BY <2>2, <2>3, <2>6 DEF Atencion, UnPedido, Mandara
  <2>10. \A j \in Interfaces : ~Mandara(hilos'[t], j)
    BY <2>6 DEF Mandara
  <2>11. UnPedido'
    BY <2>2, <2>4, <2>6, <2>7, <2>8, <2>9, <2>10, UnPedidoDe DEF Atencion
  <2> QED  BY <2>1, <2>5, <2>11, AtencionMueve
<1>3. CASE EncolarIO(t)
  <2>1. /\ g.pc = "io_encolar" /\ UNCHANGED <<estado, cola_recurso>>
        /\ Pasa(t, Reposo)
        /\ io' = [io EXCEPT ![i].espera = Append(@, p)]
    BY <1>3 DEF EncolarIO, EnPc, Vuelve
  <2>2. p \in Pids /\ i \in Interfaces
    BY <1>0, <2>1 DEF Ubica, SinProceso, Tipos, HilosBien, Argumentos
  <2> PICK s \in Seq(Pids) : s = io[i].espera
    BY <2>2, TiposDeListas DEF Instancia
  <2>3. /\ io'[i].pedido = io[i].pedido /\ io'[i].espera = Append(s, p)
        /\ io'[i].libre = io[i].libre
        /\ \A j \in Interfaces \ {i} : io'[j] = io[j]
    BY <2>1, <2>2, TiposDeListas DEF Instancia
  <2>4. ~Contains(s, p) /\ SinRepetir(s)
    BY <2>2, DeHilo DEF EnCola, EnIo, Vida, Ordenadas
  <2>5. \A x : Contains(Append(s, p), x) <=> Contains(s, x) \/ x = p
    BY <2>2, <2>4, AlFinal
  <2>6. \A q \in Pids : EnCola(q) \/ q = p => EnCola(q)'
    BY <2>1, <2>2, <2>3, <2>5 DEF EnCola, EnIo
  <2>7. hilos'[t] = Reposo /\ \A u \in Hilos \ {t} : hilos'[u] = hilos[u]
    BY <2>1, PasaHilo
  <2>8. UnPedido'
    <3>1. \A u \in Hilos : /\ Atiende(hilos'[u]) => Atiende(hilos[u])
                           /\ \A j \in Interfaces :
                                Mandara(hilos'[u], j) => Mandara(hilos[u], j)
      BY <2>7, ReposoLibre DEF Atiende, Mandara
    <3>2. \A j \in Interfaces : /\ io'[j].pedido = io[j].pedido
                                /\ io'[j].libre = io[j].libre
      BY <2>3
    <3>3. Interfaces \subseteq Hilos
      BY DEF Hilos
    <3> QED  BY <3>1, <3>2, <3>3 DEF Atencion, UnPedido, Atiende, Mandara
  <2> QED  BY <2>1, <2>6, <2>8, AtencionMueve
<1> QED  BY <1>1, <1>2, <1>3 DEF HiloDespacho

LEMMA InterfazAtencion ==
  ASSUME CasosPrevistos, Tipos, Vida, Atencion, NEW i \in Interfaces, HiloInterfaz(i)
  PROVE  Atencion'
<1>0. i \in Hilos /\ i # Despacho /\ Ubica(i) /\ \A q \in Pids : Lugar(q)
  BY KernelAssumption DEF Vida, Hilos
<1> PICK g \in Hilo : g = hilos[i]
  BY <1>0, TiposDeListas
<1>1. \A h, j : Mandara(h, j) => h.r = j
  BY DEF Mandara
<1>2. ASSUME FinEntradaSalida(i) PROVE Atencion'
  <2> PICK p : p = io[i].pedido
    OBVIOUS
  <2> PICK h : h = [Arranca("buscar", p, Nadie) EXCEPT !.op = "fin", !.l = "NEW"]
    OBVIOUS
  <2>1. /\ g.pc = "reposo" /\ UNCHANGED <<estado, cola_recurso>>
        /\ io' = [io EXCEPT ![i].pedido = Nadie] /\ p # Nadie /\ Pasa(i, h)
    BY <1>2 DEF FinEntradaSalida, EnPc, CasosPrevistos
  <2>2. h.pc = "buscar" /\ h.p = p
    BY DEF Arranca, Reposo
  <2>3. ~io[i].libre /\ hilos[i].p = Nadie
    BY <1>0, <2>1, PcsAparte DEF Atencion, UnPedido, Ubica, SinProceso
  <2>4. /\ io'[i].pedido = Nadie /\ io'[i].espera = io[i].espera /\ ~io'[i].libre
        /\ \A j \in Interfaces \ {i} : io'[j] = io[j]
    BY <2>1, <2>3, TiposDeListas DEF Instancia
  <2>5. \A q \in Pids : EnCola(q) \/ q = hilos[i].p => EnCola(q)' \/ q = h.p
    BY <2>1, <2>2, <2>3, <2>4, NadieNoEsPid DEF EnCola, EnIo
  <2>6. hilos'[i] = h /\ \A u \in Hilos \ {i} : hilos'[u] = hilos[u]
    BY <1>0, <2>1, PasaHilo
  <2>7. \A j \in Interfaces : ~Mandara(hilos'[i], j)
    BY <2>2, <2>6 DEF Mandara
  <2>8. \A u \in Hilos : ~Mandara(hilos'[u], i)
    BY <2>3, <2>6, <2>7 DEF Atencion, UnPedido
  <2>9. UnPedido'
    BY <1>0, <2>4, <2>6, <2>7, <2>8, UnPedidoDe DEF Atencion
  <2> QED  BY <1>0, <2>1, <2>5, <2>9, AtencionMueve
<1>3. ASSUME SiguienteIO(i) PROVE Atencion'
  <2>1. g.pc = "io_siguiente" /\ UNCHANGED <<estado, cola_recurso>>
    BY <1>3 DEF SiguienteIO, EnPc
  <2>2. io[i].pedido = Nadie /\ ~io[i].libre
    BY <2>1 DEF Atencion, UnPedido, Atiende
  <2>3. CASE io[i].espera = <<>>
    <3> PICK h : h = [g EXCEPT !.pc = "io_liberar"]
      OBVIOUS
    <3>1. Pasa(i, h) /\ io' = io
      BY <1>3, <2>3 DEF SiguienteIO, Sigue
    <3>2. h.pc = "io_liberar" /\ h.p = g.p
      BY DEF Hilo
    <3>3. Limpia(i, h) /\ BloqueaA(h)
      BY <2>1, <3>2 DEF Limpia, Mandara, Atiende, BloqueaA
    <3> QED  BY <1>0, <2>1, <3>1, <3>3, AtencionPasa
  <2>4. CASE io[i].espera # <<>>
    <3> PICK s \in Seq(Pids) : s = io[i].espera
      BY TiposDeListas DEF Instancia
    <3> PICK h : h = [g EXCEPT !.pc = "analizar"]
      OBVIOUS
    <3>1. Pasa(i, h) /\ io' = [io EXCEPT ![i].espera = Tail(s), ![i].pedido = Head(s)]
      BY <1>3, <2>4 DEF SiguienteIO, Sigue, Restantes
    <3>2. h.pc = "analizar" /\ h.p = g.p
      BY DEF Hilo
    <3>3. \A x : Contains(Tail(s), x) <=> Contains(s, x) /\ x # Head(s)
      BY <2>4, Resto DEF Vida, Ordenadas
    <3>4. /\ io'[i].pedido = Head(s) /\ io'[i].espera = Tail(s) /\ ~io'[i].libre
          /\ \A j \in Interfaces \ {i} : io'[j] = io[j]
      BY <2>2, <3>1, TiposDeListas DEF Instancia
    <3>5. \A q \in Pids : EnCola(q) \/ q = g.p => EnCola(q)' \/ q = h.p
      BY <2>1, <2>2, <3>2, <3>3, <3>4, NadieNoEsPid DEF EnCola, EnIo
    <3>6. hilos'[i] = h /\ \A u \in Hilos \ {i} : hilos'[u] = hilos[u]
      BY <1>0, <3>1, PasaHilo
    <3>7. \A j \in Interfaces : ~Mandara(hilos'[i], j)
      BY <3>2, <3>6 DEF Mandara
    <3>8. /\ \A u \in Hilos : ~Mandara(hilos'[u], i)
          /\ ~Atiende(hilos'[i])
      BY <2>2, <3>2, <3>6, <3>7 DEF Atencion, UnPedido, Atiende
    <3>9. UnPedido'
      BY <1>0, <3>4, <3>6, <3>7, <3>8, UnPedidoDe DEF Atencion
    <3> QED  BY <1>0, <2>1, <3>1, <3>5, <3>9, AtencionMueve
  <2> QED  BY <2>3, <2>4
<1>4. ASSUME LiberarIO(i) PROVE Atencion'
  <2> PICK h : h = [g EXCEPT !.pc = "analizar"]
    OBVIOUS
  <2>1. /\ g.pc = "io_liberar" /\ UNCHANGED <<estado, cola_recurso>>
        /\ Pasa(i, h) /\ io' = [io EXCEPT ![i].libre = TRUE]
    BY <1>4 DEF LiberarIO, EnPc, Sigue
  <2>2. h.pc = "analizar" /\ h.p = g.p
    BY DEF Hilo
  <2>3. io[i].pedido = Nadie /\ ~io[i].libre
    BY <2>1 DEF Atencion, UnPedido, Atiende
  <2>4. /\ io'[i].pedido = Nadie /\ io'[i].espera = io[i].espera
        /\ \A j \in Interfaces \ {i} : io'[j] = io[j]
    BY <2>1, <2>3, TiposDeListas DEF Instancia
  <2>5. \A q \in Pids : EnCola(q) \/ q = g.p => EnCola(q)' \/ q = h.p
    BY <2>1, <2>2, <2>3, <2>4 DEF EnCola, EnIo
  <2>6. hilos'[i] = h /\ \A u \in Hilos \ {i} : hilos'[u] = hilos[u]
    BY <1>0, <2>1, PasaHilo
  <2>7. \A j \in Interfaces : ~Mandara(hilos'[i], j)
    BY <2>2, <2>6 DEF Mandara
  <2>8. /\ \A u \in Hilos : ~Mandara(hilos'[u], i)
        /\ ~Atiende(hilos'[i])
    BY <2>2, <2>3, <2>6, <2>7 DEF Atencion, UnPedido, Atiende
  <2>9. UnPedido'
    BY <1>0, <2>4, <2>6, <2>7, <2>8, UnPedidoDe DEF Atencion
  <2> QED  BY <1>0, <2>1, <2>5, <2>9, AtencionMueve
<1>5. ASSUME SiguienteIOLiberada(i) PROVE Atencion'
  BY <1>5, AtencionIgual DEF SiguienteIOLiberada, Cae
<1> QED  BY <1>2, <1>3, <1>4, <1>5 DEF HiloInterfaz

LEMMA RecibirAtencion ==
  ASSUME Tipos, Vida, Cauces, Atencion, RecibirDelCpu
  PROVE  Atencion'
<1> PICK m : m = Actual
  OBVIOUS
<1> PICK p, x : p = m.p /\ x = m.x
  OBVIOUS
<1>1. CASE UNCHANGED <<estado, cola_recurso, io, hilos>>
  BY <1>1, AtencionIgual
<1>2. CASE hilos' # hilos
  <2>1. /\ UNCHANGED <<estado, cola_recurso, io>> /\ HayMensaje
        /\ ~RecibirAusente /\ ~RecibirInstruccionNulo /\ ~RecibirFinalizado
        /\ ~RecibirInadmisibleSinIniciar
    BY <1>2
    DEF RecibirDelCpu, RecibirAusente, RecibirFinalizado, RecibirInstruccion,
        RecibirInstruccionNulo,
         RecibirInadmisibleSinIniciar, RecibirDesalojo, RecibirFin, AtenderWait,
        WaitConcedido, WaitNegado, WaitDesconocido, AtenderSignal,
        SignalAceptado, SignalRechazado, AtenderIO, AtenderInadmisible,
        AtenderDesconocida, Cae, Sirve, Cauces
  <2>2. /\ m \in Previstos /\ p \in Pids /\ hilos[Despacho].pc = "reposo"
        /\ Despacho \in Hilos
    BY <2>1, AlRecibir
  <2>3. hilos[Despacho].p = Nadie /\ hilos[Despacho].p \notin Pids
    BY <2>2, PcsAparte, NadieNoEsPid DEF Vida, Ubica, SinProceso
  <2>4. \A h : BloqueaA(h)
    BY <2>1 DEF BloqueaA
  <2>5. ASSUME NEW h, Pasa(Despacho, h),
               h.pc \in {"wait_leer", "wait_bloquear", "plp_exit", "signal_suma",
                         "motivo"}
        PROVE  Atencion'
    BY <2>1, <2>2, <2>3, <2>4, <2>5, AtencionLibre DEF Atiende
  <2>6. CASE Vuelve(Despacho)
    BY <2>1, <2>2, <2>3, <2>6, AtencionVuelve
  <2>7. ASSUME NEW pc \in {"wait_leer", "wait_bloquear", "plp_exit"},
               NEW q, NEW r, Pasa(Despacho, Arranca(pc, q, r))
        PROVE  Atencion'
    <3> PICK h : h = Arranca(pc, q, r)
      OBVIOUS
    <3>1. h.pc = pc
      BY ArrancaCampos
    <3> QED  BY <2>5, <2>7, <3>1
  <2>8. CASE RecibirDesalojo
    <3> PICK h : h = [Arranca("motivo", m.p, Nadie) EXCEPT !.op = m.x]
      OBVIOUS
    <3>1. Pasa(Despacho, h) /\ h.pc = "motivo"
      BY <2>8 DEF RecibirDesalojo, Arranca, Reposo
    <3> QED  BY <2>5, <3>1
  <2>9. CASE RecibirFin
    BY <2>7, <2>9 DEF RecibirFin
  <2>10. CASE RecibirInstruccion
    <3>1. CASE m.t = "WAIT" /\ AtenderWait(p, x)
      <4>1. x # Nadie
        BY <2>2, <3>1 DEF Previstos
      <4> QED
        BY <2>6, <2>7, <3>1, <4>1
        DEF AtenderWait, WaitConcedido, WaitNegado, WaitDesconocido
    <3>2. CASE m.t = "SIGNAL" /\ AtenderSignal(p, x)
      <4>1. CASE SignalAceptado(p, x)
        <5> PICK h : h = Leido(Arranca("signal_suma", p, x), "signal_suma", x)
          OBVIOUS
        <5>1. Pasa(Despacho, h) /\ h.pc = "signal_suma"
          BY <4>1 DEF SignalAceptado, Leido, Arranca, Reposo
        <5> QED  BY <2>5, <5>1
      <4>2. CASE SignalRechazado(p, x)
        BY <2>7, <4>2 DEF SignalRechazado
      <4> QED  BY <3>2, <4>1, <4>2 DEF AtenderSignal
    <3>3. CASE m.t = "IO" /\ AtenderIO(p, x)
      <4> PICK op \in {"io_libre", "io_ocupada"} :
            /\ Pasa(Despacho, [Arranca("transferir", p, x) EXCEPT !.l = "BLOCKED",
                                                                !.op = op])
            /\ op = "io_libre" => io[x].libre
        BY <3>3 DEF AtenderIO
      <4> PICK h : h = [Arranca("transferir", p, x) EXCEPT !.l = "BLOCKED", !.op = op]
        OBVIOUS
      <4>1. /\ h.pc = "transferir" /\ h.p = p /\ h.r = x /\ h.l = "BLOCKED"
            /\ h.op = op
        BY DEF Arranca, Reposo
      <4>2. Limpia(Despacho, h)
        BY <2>3, <4>1 DEF Limpia, Mandara, Atiende
      <4> QED  BY <2>1, <2>2, <2>4, <4>2, AtencionPasa
    <3>4. CASE m.t = "IO_INADMISIBLE" /\ AtenderInadmisible(p, x)
      <4>1. x = "GENERICA"
        BY <2>2, <3>4 DEF Previstos, Pedido
      <4> QED  BY <2>7, <3>4, <4>1 DEF AtenderInadmisible
    <3>5. CASE m.t = "IO_DESCONOCIDA" /\ AtenderDesconocida(x)
      BY <2>6, <3>5 DEF AtenderDesconocida
    <3> QED  BY <2>10, <3>1, <3>2, <3>3, <3>4, <3>5 DEF RecibirInstruccion
  <2> QED  BY <2>1, <2>8, <2>9, <2>10 DEF RecibirDelCpu
<1>3. UNCHANGED <<estado, cola_recurso, io>>
  BY DEF RecibirDelCpu, RecibirAusente, RecibirFinalizado, RecibirInstruccion,
         RecibirInstruccionNulo,
         RecibirInadmisibleSinIniciar, RecibirDesalojo, RecibirFin, AtenderWait,
         WaitConcedido, WaitNegado, WaitDesconocido, AtenderSignal,
         SignalAceptado, SignalRechazado, AtenderIO, AtenderInadmisible,
         AtenderDesconocida, Cae
<1> QED  BY <1>1, <1>2, <1>3

LEMMA NextAtencion ==
  ASSUME CasosPrevistos, VInv, Atencion, [Next]_vars
  PROVE  Atencion'
<1>1. Tipos /\ Vida /\ Cauces
  BY DEF VInv, IInv
<1>2. CASE \E t \in Hilos : HilosDelKernel(t)
  BY <1>1, <1>2, LargoPlazoAtencion, CortoPlazoAtencion, RecursosAtencion,
     HiloDespachoAtencion DEF HilosDelKernel
<1>3. CASE Consola
  <2> PICK p \in Pids : IniciarProceso(p)
    BY <1>3 DEF Consola, FinalizarProceso, CasosPrevistos
  <2> PICK n : n = Arranca("nuevo", p, Nadie)
    OBVIOUS
  <2>1. /\ Lanza(Arranca("nuevo", p, Nadie))
        /\ UNCHANGED <<estado, cola_recurso, io>>
    BY DEF IniciarProceso, planVars, recVars
  <2>2. ~Atiende(n) /\ n.pc \notin {"io_mandar", "transferir", "agregar"}
    BY ArrancaCampos DEF Atiende
  <2>3. Lanza(n) /\ UNCHANGED <<estado, cola_recurso, io>>
    BY <2>1
  <2> QED  BY ONLY <1>1, <2>2, <2>3, Atencion, AtencionLanza
<1>4. CASE Interrupciones \/ CpuEjecuta \/ UNCHANGED vars
  <2>1. UNCHANGED <<estado, cola_recurso, io, hilos>>
    BY <1>4
    DEF Interrupciones, VenceQuantum, Interrumpir, InterrumpirNulo, Cae,
        CpuEjecuta, CpuRecibe, CpuEmpieza, CpuInterrupcion, CpuPide,
        CpuRespondido, CpuExit, CpuSinMemoria, CpuVeInterrupcion, CpuSale,
        Desaloja, vars
  <2> QED  BY <2>1, AtencionIgual
<1> QED
  BY <1>1, <1>2, <1>3, <1>4, InterfazAtencion, RecibirAtencion DEF Next, Terminado

LEMMA SpecAtencion == CasosPrevistos => (Spec => [](VInv /\ Atencion))
<1> SUFFICES ASSUME CasosPrevistos PROVE Spec => [](VInv /\ Atencion)
  OBVIOUS
<1>1. Init => Atencion
  <2> SUFFICES ASSUME Init PROVE Atencion
    OBVIOUS
  <2>1. /\ \A p \in Pids : estado[p] = "NINGUNO"
        /\ \A i \in Interfaces : io[i].pedido = Nadie
    BY DEF Init
  <2>2. \A t \in Hilos : hilos[t].pc = "reposo"
    BY DEF Init, Reposo
  <2>3. \A i \in Interfaces : hilos[i].pc = "reposo"
    BY <2>2 DEF Hilos
  <2>4. UnPedido
    BY <2>1, <2>2, <2>3 DEF UnPedido, Atiende, Mandara
  <2> QED  BY <2>1, <2>4 DEF Atencion
<1>2. VInv /\ Atencion /\ [Next]_vars => (VInv /\ Atencion)'
  <2> SUFFICES ASSUME VInv, Atencion, [Next]_vars PROVE VInv' /\ Atencion'
    OBVIOUS
  <2> QED  BY NextVInv, NextAtencion
<1>3. Init => VInv
  BY InitIInv, InitVida DEF VInv
<1> QED  BY <1>1, <1>2, <1>3, PTL DEF Spec

\* No process is forgotten in BLOCKED: it is in the queue of a resource, with an
\* interface or in its queue, or some thread has it in hand.  That the interface
\* that has it queued will serve it is another matter: MCKernel_BloqueadoConMotivo.
BloqueadoEnAlgunLado ==
  \A p \in Pids : estado[p] = "BLOCKED" => EnCola(p) \/ EnTransito(p)

\* No interface is sent a request while it works on another, though `libre' is
\* tested by the dispatch thread, changed by it after two transfers, and set again
\* by the thread of the interface, with no mutex (atender_io_gen_sleep and the
\* others of kernel_cpu_dispatch.c, entrada_salida.c): the request of neither
\* process is lost.
PedidosDeAUno ==
  \A t \in Hilos : hilos[t].pc = "io_mandar" => io[hilos[t].r].pedido = Nadie

\* Both hold along every interleaving of the planners, the dispatch thread, the
\* threads of the interfaces and the console: the moves of a process between
\* BLOCKED, the queues and the hands of a thread leave nobody out.
THEOREM KernelBloqueados ==
  CasosPrevistos => (Spec => [](BloqueadoEnAlgunLado /\ PedidosDeAUno))
<1>1. ASSUME VInv, Atencion PROVE BloqueadoEnAlgunLado
  <2> SUFFICES ASSUME NEW p \in Pids, estado[p] = "BLOCKED", ~EnCola(p)
               PROVE  EnTransito(p)
    BY DEF BloqueadoEnAlgunLado
  <2> PICK t \in Hilos : hilos[t].p = p
    BY <1>1 DEF Atencion, Ficha
  <2>1. hilos[t].pc # "reposo"
    BY <1>1, PcsAparte, NadieNoEsPid DEF VInv, Vida, Ubica, SinProceso
  <2> QED  BY <2>1 DEF EnTransito, Ocupado
<1>2. ASSUME VInv, Atencion PROVE PedidosDeAUno
  <2> SUFFICES ASSUME NEW t \in Hilos, hilos[t].pc = "io_mandar"
               PROVE  io[hilos[t].r].pedido = Nadie
    BY DEF PedidosDeAUno
  <2>1. hilos[t].r \in Interfaces
    BY <1>2 DEF VInv, IInv, Tipos, HilosBien, Argumentos
  <2> QED  BY <1>2, <2>1 DEF Atencion, UnPedido, Mandara
<1> QED  BY <1>1, <1>2, SpecAtencion, PTL

\* A process in BLOCKED has somebody to bring it back, in a system with
\* resources only (with interfaces the wakeup may be lost): no WAIT, SIGNAL or
\* hand-over of an instance leaves it in lista_blocked and in no queue.
THEOREM KernelBloqueadoConMotivo ==
  CasosPrevistos /\ Interfaces = {} => (Spec => []BloqueadoConMotivo)
<1> SUFFICES ASSUME CasosPrevistos, Interfaces = {}
             PROVE  Spec => []BloqueadoConMotivo
  OBVIOUS
<1>1. BloqueadoEnAlgunLado /\ VInv => BloqueadoConMotivo
  <2> SUFFICES ASSUME BloqueadoEnAlgunLado, VInv, NEW p \in Pids, EnLista(p, "BLOCKED")
               PROVE  EnTransito(p) \/ \E r \in Recursos : Contains(cola_recurso[r], p)
    BY DEF BloqueadoConMotivo
  <2>1. estado[p] = "BLOCKED"
    BY DEF VInv, Vida, Lugar, Colas
  <2> QED  BY <2>1 DEF BloqueadoEnAlgunLado, EnCola
<1> QED  BY <1>1, KernelBloqueados, SpecVInv, PTL

-----------------------------------------------------------------------------
(* Whose turn it is *)

\* What the CPU has left to do for the process it has given up sends nothing to
\* the kernel; q is what follows in the dispatch socket.
Cerrando(q) ==
  /\ cpu.desalojar = ""
  /\ \/ cpu.modo = "libre" /\ ~cpu.negada /\ cpu.rta = 0 /\ cpuq = q
     \/ cpu.modo = "sale" /\ cpu.rta = 0 /\ cpuq = q
     \/ /\ cpu.modo = "espera" /\ ~cpu.negada /\ cpu.rta = 0
        /\ cpuq # <<>> /\ Head(cpuq) = RTA("-1") /\ Tail(cpuq) = q
     \/ cpu.modo = "espera" /\ cpu.negada /\ cpu.rta = 1 /\ cpuq = q

\* The CPU has nothing more to do for anybody, nor the kernel to hear from it.
Vacante == Cerrando(<<>>) /\ cpu.pendientes = 0 /\ canal = <<>>

\* p has been sent to the CPU ...
Enviado(p) ==
  Cerrando(<<EJECUTAR(p)>>) /\ cpu.pendientes = 0 /\ canal = <<>>

\* ... or is the context of its next loop ...
Llegado(p) ==
  Cerrando(<<>>) /\ cpu.pendientes = 1 /\ cpu.ctx = p /\ canal = <<>>

Pidio(p, ts) ==
  canal # <<>> /\ Tail(canal) = <<>> /\ Actual.p = p /\ Actual.t \in ts

\* ... or of this one, which executes, waits for the answer to a system call or
\* has come to the end of p ...
Ejecutando(p) ==
  /\ cpu.ctx = p /\ cpu.pendientes = 0 /\ ~cpu.negada
  /\ \/ /\ cpu.modo = "ejecuta" /\ cpu.desalojar = "" /\ cpu.rta = 0
        /\ cpuq = <<>> /\ canal = <<>>
     \/ /\ cpu.modo = "sale" /\ cpu.desalojar # "" /\ cpu.rta = 0
        /\ cpuq = <<>> /\ canal = <<>>
     \/ /\ cpu.modo = "espera" /\ cpu.desalojar = "" /\ cpu.rta = 0
        /\ cpuq = <<>> /\ Pidio(p, {"WAIT", "SIGNAL"})
     \/ /\ cpu.modo = "espera" /\ cpu.desalojar = "" /\ canal = <<>>
        /\ \/ cpu.rta = 0 /\ cpuq = <<RTA("1")>>
           \/ cpu.rta = 1 /\ cpuq = <<>>

Finales == {"IO", "IO_INADMISIBLE", "IO_DESCONOCIDA", "ATENDER_EXIT",
            "ATENDER_OUT_OF_MEMORY"}

\* ... or its last message is on its way to the kernel.
Entregado(p) ==
  /\ Cerrando(<<>>) /\ cpu.modo # "espera" /\ cpu.pendientes = 0
  /\ Pidio(p, Finales)

Tiene(p) == Enviado(p) \/ Llegado(p) \/ Ejecutando(p) \/ Entregado(p)

\* The CPU waits for the answer to a WAIT or a SIGNAL of p that was heard ...
Aguarda(p) ==
  /\ cpu.ctx = p /\ cpu.pendientes = 0 /\ ~cpu.negada /\ cpu.modo = "espera"
  /\ cpu.desalojar = "" /\ cpu.rta = 0 /\ cpuq = <<>> /\ canal = <<>>

\* ... and that the dispatch thread grants, to go on with p afterwards.
Contesta == {"wait_leer", "wait_resta", "signal_suma"}

Contestando == hilos[Despacho].pc \in Contesta

\* In its other services the CPU is done with the process.
Sirviendo == hilos[Despacho].pc \in EnServicio \ Contesta

Turno ==
  \/ ~Contestando /\ Vacante
  \/ /\ ~Contestando /\ ~Sirviendo
     /\ \E p \in Pids : lista["EXEC"] = <<p>> /\ Tiene(p)
  \/ Contestando /\ \E p \in Pids : lista["EXEC"] = <<p>> /\ Aguarda(p)

\* Nobody has been told to interrupt, and nobody is.
SinInterrumpir == SinAvisos /\ irqs = <<>> /\ cpu.irq = ""

LEMMA TurnoVacante ==
  ASSUME Turno, Sirviendo \/ lista["EXEC"] = <<>>
  PROVE  Vacante /\ ~Contestando
<1>1. ASSUME NEW p PROVE lista["EXEC"] = <<p>> => lista["EXEC"] # <<>>
  OBVIOUS
<1>2. Sirviendo => ~Contestando
  BY DEF Sirviendo, Contestando
<1> QED  BY <1>1, <1>2 DEF Turno

LEMMA VacanteTurno == ASSUME Vacante', ~Contestando' PROVE Turno'
  BY DEF Turno

LEMMA TieneTurno ==
  ASSUME NEW p \in Pids, lista'["EXEC"] = <<p>>, ~Sirviendo', ~Contestando',
         Tiene(p)'
  PROVE  Turno'
BY DEF Turno

LEMMA AguardaTurno ==
  ASSUME NEW p \in Pids, lista'["EXEC"] = <<p>>, Contestando', Aguarda(p)'
  PROVE  Turno'
BY DEF Turno

\* A step that leaves the CPU and its sockets alone, and EXEC too unless it is
\* that of the dispatch thread.
NoToca ==
  /\ UNCHANGED <<cpu, cpuq, canal>>
  /\ Contestando' <=> Contestando
  /\ \/ Sirviendo
     \/ lista'["EXEC"] = lista["EXEC"] /\ ~Sirviendo'

LEMMA TurnoNoToca ==
  ASSUME Turno, NoToca
  PROVE  Turno'
<1>1. UNCHANGED <<cpu, cpuq, canal>>
  BY DEF NoToca
<1>2. Vacante => Vacante'
  BY <1>1 DEF Vacante, Cerrando
<1>3. ASSUME NEW p, Tiene(p) PROVE Tiene(p)'
  BY <1>1, <1>3 DEF Tiene, Enviado, Llegado, Ejecutando, Entregado, Pidio, Cerrando,
                    Actual
<1>6. ASSUME NEW p, Aguarda(p) PROVE Aguarda(p)'
  BY <1>1, <1>6 DEF Aguarda
<1>7. Contestando' <=> Contestando
  BY DEF NoToca
<1>4. CASE Sirviendo
  BY <1>2, <1>4, <1>7, TurnoVacante, VacanteTurno
<1>5. CASE lista'["EXEC"] = lista["EXEC"] /\ ~Sirviendo'
  <2>1. CASE ~Contestando /\ Vacante
    BY <1>2, <1>7, <2>1, VacanteTurno
  <2>2. ASSUME NEW p \in Pids, ~Contestando, lista["EXEC"] = <<p>>, Tiene(p)
        PROVE  Turno'
    BY <1>3, <1>5, <1>7, <2>2, TieneTurno
  <2>3. ASSUME NEW p \in Pids, Contestando, lista["EXEC"] = <<p>>, Aguarda(p)
        PROVE  Turno'
    BY <1>5, <1>6, <1>7, <2>3, AguardaTurno
  <2> QED  BY <2>1, <2>2, <2>3 DEF Turno
<1> QED  BY <1>4, <1>5 DEF NoToca

\* The thread serves, so it is that of the dispatch socket ...
LEMMA NoTocaSirve ==
  ASSUME Tipos, Vida, NEW t \in Hilos, hilos[t].pc \in EnServicio \ Contesta,
         NEW h, Pasa(t, h), h.pc \notin Contesta, UNCHANGED <<cpu, cpuq, canal>>
  PROVE  NoToca
<1>1. t = Despacho /\ hilos'[t] = h
  BY PasaHilo DEF Vida, Ubica
<1> QED  BY <1>1 DEF NoToca, Sirviendo, Contestando

\* ... or does not go on to serve.
LEMMA NoTocaPasa ==
  ASSUME Tipos, NEW t \in Hilos, hilos[t].pc \notin Contesta,
         NEW h, Pasa(t, h), h.pc \notin EnServicio,
         lista'["EXEC"] = lista["EXEC"], UNCHANGED <<cpu, cpuq, canal>>
  PROVE  NoToca
<1>1. hilos'[t] = h /\ \A u \in Hilos \ {t} : hilos'[u] = hilos[u]
  BY PasaHilo
<1>2. Sirviendo' => Sirviendo
  BY <1>1, DespachoEsHilo DEF Sirviendo
<1>3. h.pc \notin Contesta
  BY DEF Contesta, EnServicio
<1>4. Contestando' <=> Contestando
  BY <1>1, <1>3, DespachoEsHilo DEF Contestando
<1> QED  BY <1>2, <1>4 DEF NoToca

LEMMA NoTocaLanza ==
  ASSUME Tipos, NEW t \in Hilos, NEW h, NEW n, PasaYLanza(t, h, n),
         hilos[t].pc \notin Contesta, h.pc \notin EnServicio,
         lista'["EXEC"] = lista["EXEC"], UNCHANGED <<cpu, cpuq, canal>>
  PROVE  NoToca
<1>1. PICK d \in Desprendidos : hilos' = [hilos EXCEPT ![t] = h, ![d] = n]
  BY DEF PasaYLanza
<1>2. d # Despacho /\ Despacho \in Hilos /\ hilos \in [Hilos -> Hilo]
  BY KernelAssumption, TiposDeListas, DespachoEsHilo
<1>3. \/ hilos'[Despacho] = hilos[Despacho]
      \/ t = Despacho /\ hilos'[Despacho] = h
  BY <1>1, <1>2
<1>4. Sirviendo' => Sirviendo
  BY <1>3 DEF Sirviendo
<1>5. h.pc \notin Contesta
  BY DEF Contesta, EnServicio
<1>6. Contestando' <=> Contestando
  BY <1>3, <1>5 DEF Contestando
<1> QED  BY <1>4, <1>6 DEF NoToca

LEMMA NoTocaIgual ==
  ASSUME UNCHANGED <<cpu, cpuq, canal>>, lista'["EXEC"] = lista["EXEC"],
         hilos'[Despacho] = hilos[Despacho]
  PROVE  NoToca
BY DEF NoToca, Sirviendo, Contestando

LEMMA LargoPlazoNoToca ==
  ASSUME Tipos, Vida, NEW t \in Hilos, HiloLargoPlazo(t)
  PROVE  NoToca
<1> PICK g \in Hilo : g = hilos[t]
  BY TiposDeListas
<1> PICK p, l : p = g.p /\ l = g.l
  OBVIOUS
<1>1. UNCHANGED <<cpu, cpuq, canal>>
  BY DEF HiloLargoPlazo, Nuevo, TomarNew, TomarCupo, PasarAReady, Buscar, BuscarNulo,
    SegunEstado, SegunEstadoAusente, SalirDeExec, SalirDeExecAusente,
    LiberarRecurso, LiberarSumar, AvisarMemoria, AvisarDesconocido, Transferir,
    AgregarAExit, Cae
<1>0. g.pc \notin Contesta
  BY DEF HiloLargoPlazo, Nuevo, TomarNew, TomarCupo, PasarAReady, Buscar, BuscarNulo,
    SegunEstado, SegunEstadoAusente, SalirDeExec, SalirDeExecAusente,
    LiberarRecurso, LiberarSumar, AvisarMemoria, AvisarDesconocido, Transferir,
    AgregarAExit, Agregar, EnPc, Contesta
<1>2. ASSUME NEW h, Pasa(t, h), h.pc \notin EnServicio,
             lista'["EXEC"] = lista["EXEC"]
      PROVE  NoToca
  BY <1>0, <1>1, <1>2, NoTocaPasa
<1>3. /\ Reposo.pc = "reposo" /\ LlamaPcp(t, {}).pc = "pcp"
      /\ Arranca("plp", Nadie, Nadie).pc = "plp"
  BY ReposoLibre, PcpLibre, ArrancaCampos
<1>4. lista \in [Colas -> Seq(Pids)]
  BY TiposDeListas
<1>5. CASE Nuevo(t)
  <2>1. lista'["EXEC"] = lista["EXEC"]
    BY <1>4, <1>5 DEF Nuevo, Colas
  <2> QED  BY <1>2, <1>3, <1>5, <2>1 DEF Nuevo, EnServicio
<1>6. CASE TomarNew(t)
  <2>1. [g EXCEPT !.pc = "plp_cupo", !.tiene = {"NEW"}].pc = "plp_cupo"
    BY DEF Hilo
  <2> QED  BY <1>2, <1>6, <2>1 DEF TomarNew, EnServicio
<1>7. CASE TomarCupo(t)
  <2>1. lista'["EXEC"] = lista["EXEC"]
    BY <1>4, <1>7 DEF TomarCupo, Colas
  <2>2. ASSUME NEW q PROVE [g EXCEPT !.pc = "plp_ready", !.p = q].pc = "plp_ready"
    BY DEF Hilo
  <2>3. \E h : Pasa(t, h) /\ h.pc \in {"pcp", "plp_ready"}
    BY <1>3, <1>7, <2>2 DEF TomarCupo
  <2> QED  BY <1>2, <2>1, <2>3 DEF EnServicio
<1>8. CASE PasarAReady(t)
  <2>1. lista'["EXEC"] = lista["EXEC"]
    BY <1>4, <1>8 DEF PasarAReady, Colas
  <2> QED  BY <1>2, <1>3, <1>8, <2>1 DEF PasarAReady, EnServicio
<1>9. CASE Buscar(t)
  <2>1. \/ lista' = lista
        \/ l \in {"NEW", "READY", "BLOCKED"} /\ lista' = [lista EXCEPT ![l] = Sin(@, p)]
    BY <1>9 DEF Buscar
  <2>2. lista'["EXEC"] = lista["EXEC"]
    BY <1>4, <2>1 DEF Colas
  <2>3. g.pc = "buscar" /\ g.op = "fin"
    BY <1>9 DEF Buscar, EnPc, Vida, Ubica
  <2>4. ASSUME NEW q
        PROVE  /\ [g EXCEPT !.pc = "io_siguiente", !.p = q, !.l = ""].pc = "io_siguiente"
               /\ [g EXCEPT !.l = q].pc = "buscar"
    BY <2>3 DEF Hilo
  <2>5. \/ \E q : Pasa(t, [g EXCEPT !.pc = "io_siguiente", !.p = q, !.l = ""])
        \/ Pasa(t, [g EXCEPT !.l = Siguiente[l]])
    BY <1>9, <2>3 DEF Buscar, Encontrado
  <2>6. \E h : Pasa(t, h) /\ h.pc \in {"io_siguiente", "buscar"}
    BY <2>4, <2>5
  <2> QED  BY <1>2, <2>2, <2>6 DEF EnServicio
<1>10. CASE SalirDeExec(t)
  <2> PICK rs : rs = recursos_pcb[p]
    OBVIOUS
  <2> PICK h : h = [g EXCEPT !.pc = IF rs = <<>> THEN "avisar" ELSE "liberar",
                             !.op = "plp_exit", !.rs = rs, !.tiene = {"EXEC"}]
    OBVIOUS
  <2>1. hilos[t].pc = "plp_exit"
    BY <1>10, SinSegunEstado DEF SalirDeExec, EnPc
  <2>2. Pasa(t, h)
    BY <1>10, <2>1 DEF SalirDeExec, Terminar, EnPc
  <2>3. h.pc \in {"avisar", "liberar"}
    BY DEF Hilo
  <2> QED  BY <1>1, <2>1, <2>2, <2>3, NoTocaSirve DEF EnServicio, Contesta
<1>11. CASE LiberarRecurso(t) \/ LiberarSumar(t)
  <2> PICK o : o = OtroRecurso(g)
    OBVIOUS
  <2> PICK r, n, k : /\ r = Head(g.rs) /\ n = Arranca("asignar", Nadie, Head(g.rs))
                    /\ k = instancias[Head(g.rs)]
    OBVIOUS
  <2> PICK h1, h2 : /\ h1 = [g EXCEPT !.pc = "liberar_suma", !.n = k,
                                     !.tiene = @ \union {r}]
                    /\ h2 = [o EXCEPT !.n = 0, !.tiene = @ \ {r}]
    OBVIOUS
  <2>1. o.pc \in {"avisar", "liberar"} /\ h2.pc = o.pc
    BY DEF Hilo, OtroRecurso
  <2>2. h1.pc = "liberar_suma"
    BY DEF Hilo
  <2>3. lista' = lista /\ (Pasa(t, o) \/ Pasa(t, h1) \/ PasaYLanza(t, h2, n))
    BY <1>11 DEF LiberarRecurso, LiberarSumar
  <2>4. o.pc \notin EnServicio /\ h1.pc \notin EnServicio /\ h2.pc \notin EnServicio
    BY <2>1, <2>2 DEF EnServicio
  <2> QED  BY <1>0, <1>1, <1>2, <2>3, <2>4, NoTocaLanza
<1>12. CASE AvisarMemoria(t)
  <2>1. [g EXCEPT !.pc = "transferir", !.l = "EXIT"].pc = "transferir"
    BY DEF Hilo
  <2> QED  BY <1>2, <1>12, <2>1 DEF AvisarMemoria, EnServicio
<1>13. CASE Transferir(t)
  <2> PICK pc \in {"agregar", "colgado"} : Sigue(t, pc)
    BY <1>13 DEF Transferir
  <2>1. [g EXCEPT !.pc = pc].pc = pc
    BY DEF Hilo
  <2> QED  BY <1>2, <1>13, <2>1 DEF Transferir, Sigue, EnServicio
<1>14. CASE AgregarAExit(t)
  <2>1. lista'["EXEC"] = lista["EXEC"]
    BY <1>4, <1>14 DEF AgregarAExit, Agregar, Colas
  <2> QED  BY <1>2, <1>3, <1>14, <2>1 DEF AgregarAExit, Vuelve, EnServicio
<1>15. CASE BuscarNulo(t) \/ SegunEstadoAusente(t) \/ SalirDeExecAusente(t)
              \/ AvisarDesconocido(t)
  BY <1>1, <1>15, NoTocaIgual
  DEF BuscarNulo, SegunEstadoAusente, SalirDeExecAusente, AvisarDesconocido, Cae
<1>16. ~SegunEstado(t)
  BY SinSegunEstado DEF SegunEstado, EnPc
<1> QED
  BY <1>5, <1>6, <1>7, <1>8, <1>9, <1>10, <1>11, <1>12, <1>13, <1>14, <1>15, <1>16
  DEF HiloLargoPlazo

LEMMA CortoPlazoNoToca ==
  ASSUME Tipos, Vida, Cauces, NEW t \in Hilos, HiloCortoPlazo(t), ~Tomar(t)
  PROVE  NoToca
<1> PICK g \in Hilo : g = hilos[t]
  BY TiposDeListas
<1>1. UNCHANGED <<cpu, cpuq, canal>>
  BY DEF HiloCortoPlazo, MirarReady, TomarExec, TomarReady, TomarSinTimer, AtenderMotivo,
    Reubicar, ReubicarReady, ReubicarAReady, ReubicarAusente, Analizar,
    AnalizarNulo, AgregarAReady, Cae
<1>0. g.pc \notin Contesta
  BY DEF HiloCortoPlazo, MirarReady, TomarExec, TomarReady, TomarSinTimer,
    PuedeTomar, AtenderMotivo, Reubicar, ReubicarReady, ReubicarAReady,
    ReubicarAusente, Analizar, AnalizarNulo, AgregarAReady, Agregar, EnPc, Contesta
<1>2. ASSUME NEW h, Pasa(t, h), h.pc \notin EnServicio,
             lista'["EXEC"] = lista["EXEC"]
      PROVE  NoToca
  BY <1>0, <1>1, <1>2, NoTocaPasa
<1>3. Reposo.pc = "reposo" /\ \A ms : LlamaPcp(t, ms).pc = "pcp"
  BY ReposoLibre, PcpLibre
<1>4. lista \in [Colas -> Seq(Pids)]
  BY TiposDeListas
<1>5. CASE MirarReady(t)
  <2>1. [g EXCEPT !.pc = "pcp_exec"].pc = "pcp_exec"
    BY DEF Hilo
  <2> QED  BY <1>2, <1>3, <1>5, <2>1 DEF MirarReady, VistoReady, Vuelve, EnServicio
<1>6. CASE TomarExec(t)
  <2>1. ReteniendoExec(t).pc = "pcp_tomar"
    BY DEF ReteniendoExec, Hilo
  <2> QED  BY <1>2, <1>3, <1>6, <2>1 DEF TomarExec, Vuelve, EnServicio
<1>11. CASE TomarReady(t)
  <2> PICK h : h = [g EXCEPT !.pc = "pcp_prioridad", !.tiene = @ \union {"READY"}]
    OBVIOUS
  <2>1. h.pc = "pcp_prioridad"
    BY DEF Hilo
  <2> QED  BY <1>2, <1>11, <2>1 DEF TomarReady, EnServicio
<1>7. CASE AtenderMotivo(t) \/ Reubicar(t) \/ ReubicarReady(t) \/ ReubicarAReady(t)
  <2>1. ASSUME NEW pc, NEW ms
        PROVE  [g EXCEPT !.pc = pc].pc = pc /\ [g EXCEPT !.pc = pc, !.tiene = ms].pc = pc
    BY DEF Hilo
  <2>2. g.pc \in {"motivo", "reubicar", "reubicar_ready", "reubicar_prioridad"}
    BY <1>7 DEF AtenderMotivo, Reubicar, ReubicarReady, ReubicarAReady, EnPc
  <2>3. ASSUME NEW h, Pasa(t, h),
               h.pc \in {"desalojar", "reubicar", "reubicar_ready",
                         "reubicar_prioridad", "pcp"}
        PROVE  NoToca
    BY <1>1, <2>2, <2>3, NoTocaSirve DEF EnServicio, Contesta
  <2>4. CASE AtenderMotivo(t)
    <3>1. \/ Pasa(t, [g EXCEPT !.pc = "desalojar"])
          \/ Pasa(t, [g EXCEPT !.pc = "reubicar"])
      BY <2>4 DEF AtenderMotivo, Sigue, Cauces
    <3> QED  BY <2>1, <2>3, <3>1
  <2>5. CASE Reubicar(t)
    <3> PICK h : h = [g EXCEPT !.pc = "reubicar_ready", !.tiene = {"EXEC"}]
      OBVIOUS
    <3>1. Pasa(t, h) /\ h.pc = "reubicar_ready"
      BY <2>1, <2>5 DEF Reubicar
    <3> QED  BY <2>3, <3>1
  <2>6. CASE ReubicarReady(t)
    <3> PICK ms : ms = g.tiene \union {"READY"}
      OBVIOUS
    <3> PICK h : h = [g EXCEPT !.pc = "reubicar_prioridad", !.tiene = ms]
      OBVIOUS
    <3>1. h.pc = "reubicar_prioridad"
      BY DEF Hilo
    <3>2. Pasa(t, h)
      BY <2>6 DEF ReubicarReady
    <3> QED  BY <2>3, <3>1, <3>2
  <2>7. CASE ReubicarAReady(t)
    BY <1>3, <2>3, <2>7 DEF ReubicarAReady, Replanificar
  <2> QED  BY <1>7, <2>4, <2>5, <2>6, <2>7
<1>8. CASE Analizar(t)
  <2>1. ASSUME NEW l PROVE [g EXCEPT !.pc = "transferir", !.l = l].pc = "transferir"
    BY DEF Hilo
  <2>2. \E l : Pasa(t, [g EXCEPT !.pc = "transferir", !.l = l])
    BY <1>8 DEF Analizar
  <2> QED  BY <1>2, <1>8, <2>1, <2>2 DEF Analizar, EnServicio
<1>9. CASE AgregarAReady(t)
  <2>1. lista'["EXEC"] = lista["EXEC"]
    BY <1>4, <1>9 DEF AgregarAReady, Agregar, Colas
  <2> QED  BY <1>2, <1>3, <1>9, <2>1 DEF AgregarAReady, EnServicio
<1>10. CASE TomarSinTimer(t) \/ ReubicarAusente(t) \/ AnalizarNulo(t)
  BY <1>1, <1>10, NoTocaIgual DEF TomarSinTimer, ReubicarAusente, AnalizarNulo, Cae
<1> QED
  BY <1>5, <1>6, <1>7, <1>8, <1>9, <1>10, <1>11 DEF HiloCortoPlazo

\* All but the steps that answer the CPU.
LEMMA ServiciosNoTocan ==
  ASSUME Tipos, Vida, NEW t \in Hilos, HiloRecursos(t) \/ HiloDespacho(t),
         ~WaitRestar(t), ~SignalSumar(t)
  PROVE  NoToca
<1> PICK g \in Hilo : g = hilos[t]
  BY TiposDeListas
<1>0. ~AgregarDesconocido(t)
  BY DEF AgregarDesconocido, Agregar, EnPc, Vida, Ubica
<1>1. UNCHANGED <<cpu, cpuq, canal>>
  BY <1>0 DEF HiloRecursos, HiloDespacho, WaitLeer, WaitBloquear, WaitEncolar,
    Asignar, AsignarRestar, Desbloquear, AgregarABlocked, MandarIO, EncolarIO
<1>2. ASSUME NEW h, Pasa(t, h), g.pc \notin Contesta, h.pc \notin EnServicio,
             lista'["EXEC"] = lista["EXEC"]
      PROVE  NoToca
  BY <1>1, <1>2, NoTocaPasa
<1>3. Reposo.pc = "reposo" /\ \A ms : LlamaPcp(t, ms).pc = "pcp"
  BY ReposoLibre, PcpLibre
<1>4. lista \in [Colas -> Seq(Pids)]
  BY TiposDeListas
<1>5. CASE WaitBloquear(t)
  <2>1. ABlocked(t).pc = "transferir"
    BY DEF ABlocked, Hilo
  <2>2. g.pc = "wait_bloquear" /\ Pasa(t, ABlocked(t))
    BY <1>5 DEF WaitBloquear, EnPc
  <2> QED  BY <1>1, <2>1, <2>2, NoTocaSirve DEF EnServicio, Contesta
<1>6. CASE WaitEncolar(t)
  <2>1. [g EXCEPT !.pc = "colgado"].pc = "colgado"
    BY DEF Hilo
  <2> QED  BY <1>2, <1>3, <1>6, <2>1 DEF WaitEncolar, Sigue, EnPc, EnServicio, Contesta
<1>7. CASE Asignar(t)
  <2> PICK r : r = g.r
    OBVIOUS
  <2> PICK a, q : a = Leido(g, "asignar_resta", r) /\ q = Head(cola_recurso[r])
    OBVIOUS
  <2>1. [a EXCEPT !.p = q, !.tiene = {r}].pc = "asignar_resta"
    BY DEF Hilo, Leido
  <2>2. Pasa(t, Reposo) \/ Pasa(t, [a EXCEPT !.p = q, !.tiene = {r}])
    BY <1>7 DEF Asignar, Vuelve
  <2> QED  BY <1>2, <1>3, <1>7, <2>1, <2>2 DEF Asignar, EnPc, EnServicio, Contesta
<1>11. CASE AsignarRestar(t)
  <2> PICK h : h = [g EXCEPT !.pc = "desbloquear", !.n = 0]
    OBVIOUS
  <2>1. h.pc = "desbloquear"
    BY DEF Hilo
  <2> QED  BY <1>2, <1>11, <2>1 DEF AsignarRestar, EnPc, EnServicio, Contesta
<1>12. CASE WaitLeer(t)
  <2> PICK h : h = Leido(g, "wait_resta", g.r)
    OBVIOUS
  <2>1. h.pc = "wait_resta"
    BY DEF Hilo, Leido
  <2>2. g.pc = "wait_leer" /\ Pasa(t, h) /\ lista' = lista
    BY <1>12 DEF WaitLeer, EnPc
  <2>3. t = Despacho /\ hilos'[t] = h
    BY <2>2, PasaHilo DEF Vida, Ubica, EnServicio
  <2>4. Contestando /\ Contestando' /\ ~Sirviendo'
    BY <2>1, <2>2, <2>3 DEF Contestando, Sirviendo, Contesta
  <2> QED  BY <1>1, <2>2, <2>4 DEF NoToca
<1>8. CASE Desbloquear(t)
  <2> PICK h : h = [g EXCEPT !.pc = "analizar", !.op = "asignar",
                             !.tiene = @ \union {"BLOCKED"}]
    OBVIOUS
  <2>1. h.pc = "analizar"
    BY DEF Hilo
  <2>2. Pasa(t, h) \/ \E ms : Pasa(t, LlamaPcp(t, ms))
    BY <1>8 DEF Desbloquear
  <2>3. lista' = lista \/ \E p : lista' = [lista EXCEPT !["BLOCKED"] = Sin(@, p)]
    BY <1>8 DEF Desbloquear
  <2>4. lista'["EXEC"] = lista["EXEC"]
    BY <1>4, <2>3 DEF Colas
  <2>5. g.pc = "desbloquear"
    BY <1>8 DEF Desbloquear, EnPc
  <2> QED  BY <1>2, <1>3, <2>1, <2>2, <2>4, <2>5 DEF EnServicio, Contesta
<1>9. CASE AgregarABlocked(t)
  <2>1. ASSUME NEW pc PROVE [g EXCEPT !.pc = pc].pc = pc
    BY DEF Hilo
  <2>2. \E pc \in {"wait_encolar", "io_mandar", "io_encolar"} :
          Pasa(t, [g EXCEPT !.pc = pc])
    BY <1>9 DEF AgregarABlocked, Sigue
  <2>3. lista'["EXEC"] = lista["EXEC"]
    BY <1>4, <1>9 DEF AgregarABlocked, Agregar, Colas
  <2>4. g.pc = "agregar"
    BY <1>9 DEF AgregarABlocked, Agregar, EnPc
  <2> QED  BY <1>2, <2>1, <2>2, <2>3, <2>4 DEF EnServicio, Contesta
<1>10. CASE MandarIO(t) \/ EncolarIO(t)
  BY <1>2, <1>3, <1>10 DEF MandarIO, EncolarIO, Vuelve, EnPc, EnServicio, Contesta
<1> QED
  BY <1>0, <1>5, <1>6, <1>7, <1>8, <1>9, <1>10, <1>11, <1>12
  DEF HiloRecursos, HiloDespacho

\* The answer to a WAIT or a SIGNAL gives the turn back to the process.
LEMMA ContestarTurno ==
  ASSUME Tipos, Vida, Turno, NEW t \in Hilos, WaitRestar(t) \/ SignalSumar(t)
  PROVE  Turno'
<1> PICK a : a = Arranca("asignar", Nadie, hilos[t].r)
  OBVIOUS
<1>1. /\ hilos[t].pc \in Contesta /\ cpuq' = Append(cpuq, RTA("1"))
      /\ UNCHANGED <<lista, cpu, canal>> /\ (Pasa(t, a) \/ Vuelve(t))
  BY DEF WaitRestar, SignalSumar, EnPc, Contesta
<1>2. a.pc = "asignar" /\ Reposo.pc = "reposo"
  BY ArrancaCampos, ReposoLibre
<1> PICK h : Pasa(t, h) /\ h.pc \in {"asignar", "reposo"}
  BY <1>1, <1>2 DEF Vuelve
<1>3. t = Despacho /\ hilos'[t] = h
  BY <1>1, PasaHilo DEF Vida, Ubica, EnServicio, Contesta
<1>4. Contestando /\ ~Contestando' /\ ~Sirviendo'
  BY <1>1, <1>3 DEF Contestando, Sirviendo, Contesta, EnServicio
<1> PICK p \in Pids : lista["EXEC"] = <<p>> /\ Aguarda(p)
  BY <1>4 DEF Turno
<1>5. RTA("1")' = RTA("1") /\ cpuq' = <<RTA("1")>>
  <2> PICK e : e = RTA("1")
    OBVIOUS
  <2>1. cpuq = <<>> /\ cpuq' = Append(cpuq, e)
    BY <1>1 DEF Aguarda
  <2>2. RTA("1")' = e
    BY DEF RTA
  <2> QED  BY <2>1, <2>2
<1>6. Ejecutando(p)'
  BY <1>1, <1>5 DEF Aguarda, Ejecutando
<1> QED  BY <1>1, <1>4, <1>6, TieneTurno DEF Tiene

LEMMA OtrosNoTocan ==
  ASSUME Tipos, Vida, SinAvisos, CasosPrevistos, SinQuantum,
         \/ \E i \in Interfaces : HiloInterfaz(i)
         \/ Consola
         \/ Interrupciones
         \/ UNCHANGED vars
  PROVE  NoToca
<1>1. CASE \E i \in Interfaces : HiloInterfaz(i)
  <2> PICK i \in Interfaces : HiloInterfaz(i)
    BY <1>1
  <2>1. hilos' = hilos \/ \E h : Pasa(i, h)
    BY DEF HiloInterfaz, FinEntradaSalida, SiguienteIO, SiguienteIOLiberada,
           LiberarIO, Sigue, Cae
  <2>2. i \in Hilos /\ Despacho \in Hilos /\ i # Despacho
    BY KernelAssumption DEF Hilos
  <2>3. hilos'[Despacho] = hilos[Despacho]
    BY <2>1, <2>2, PasaHilo
  <2>4. UNCHANGED <<cpu, cpuq, canal, lista>>
    BY DEF HiloInterfaz, FinEntradaSalida, SiguienteIO, SiguienteIOLiberada,
           LiberarIO, Cae
  <2> QED  BY <2>3, <2>4, NoTocaIgual
<1>2. CASE Consola
  <2>1. UNCHANGED <<cpu, cpuq, canal, lista>> /\ \E n : Lanza(n)
    BY <1>2 DEF Consola, IniciarProceso, FinalizarProceso
  <2> PICK n, d : d \in Desprendidos /\ hilos' = [hilos EXCEPT ![d] = n]
    BY <2>1 DEF Lanza
  <2>2. d # Despacho /\ Despacho \in Hilos /\ hilos \in [Hilos -> Hilo]
    BY KernelAssumption, TiposDeListas, DespachoEsHilo
  <2> QED  BY <2>1, <2>2, NoTocaIgual
<1>3. CASE Interrupciones
  <2>1. UNCHANGED <<cpu, cpuq, canal, lista, hilos>>
    BY <1>3 DEF Interrupciones, VenceQuantum, Interrumpir, InterrumpirNulo, Cae
  <2> QED  BY <2>1, NoTocaIgual
<1>4. CASE UNCHANGED vars
  BY <1>4, NoTocaIgual DEF vars
<1> QED  BY <1>1, <1>2, <1>3, <1>4

LEMMA DetrasDelUnico ==
  ASSUME NEW S, NEW s \in Seq(S), NEW e \in S, s # <<>>, Tail(s) = <<>>
  PROVE  /\ Append(s, e) # <<>> /\ Head(Append(s, e)) = Head(s)
         /\ Tail(Append(s, e)) = <<e>>
<1>1. /\ Head(Append(s, e)) = Head(s)
      /\ Tail(Append(s, e)) = Append(<<>>, e)
  BY HeadTailAppend
<1>2. Append(<<>>, e) = <<e>> /\ Append(s, e) # <<>>
  OBVIOUS
<1> QED  BY <1>1, <1>2

\* The one that finds EXEC empty fills it and tells the CPU, with the mutex of
\* EXEC kept in between.
LEMMA TomarTurno ==
  ASSUME SinQuantum, IInv, Vida, Turno, NEW t \in Hilos, Tomar(t)
  PROVE  Turno'
<1>1. /\ Tipos /\ lista["EXEC"] = <<>>
      /\ UNCHANGED <<cpu, canal>> /\ hilos'[t] = Reposo
      /\ \A u \in Hilos \ {t} : hilos'[u] = hilos[u]
  BY PasaHilo
  DEF IInv, TomaConExec, Tomando, Tomar, PuedeTomar, EnPc, SinQuantum, Vuelve
<1>2. ~Sirviendo
  <2>1. ~EnLista(hilos[Despacho].p, "EXEC")
    BY <1>1, NadaEnVacia DEF EnLista
  <2> QED  BY <2>1, DespachoEsHilo DEF Sirviendo, Vida, Ubica
<1>4. Vacante /\ ~Contestando
  BY <1>1, TurnoVacante
<1>3. ~Sirviendo' /\ ~Contestando'
  BY <1>1, <1>2, <1>4, ReposoLibre, DespachoEsHilo
  DEF Sirviendo, Contestando, EnServicio, Contesta
<1>5. CASE UNCHANGED <<planVars, cpuq>>
  BY <1>1, <1>3, <1>4, <1>5, VacanteTurno DEF Vacante, Cerrando
<1>6. CASE lista[Origen] # <<>> /\ Despachar(Origen)
  <2>1. Origen = "READY" /\ "READY" \in Colas /\ "EXEC" \in Colas
    BY DEF Origen, SinQuantum, Colas
  <2> PICK p : p = Head(lista["READY"])
    OBVIOUS
  <2>2. /\ lista' = [lista EXCEPT !["READY"] = Tail(@), !["EXEC"] = Append(@, p)]
        /\ cpuq' = Append(cpuq, EJECUTAR(p)) /\ lista["READY"] # <<>>
    BY <1>6, <2>1 DEF Despachar
  <2>3. lista["READY"] \in Seq(Pids) /\ lista \in [Colas -> Seq(Pids)]
    BY <1>1, <2>1, TiposDeListas
  <2>4. p \in Pids
    BY <2>2, <2>3
  <2>5. lista'["EXEC"] = <<p>>
    BY <1>1, <2>1, <2>2, <2>3
  <2>6. Enviado(p)'
    <3> PICK e : e = EJECUTAR(p)
      OBVIOUS
    <3>1. EJECUTAR(p)' = e /\ RTA("-1")' = RTA("-1")
      BY DEF EJECUTAR, RTA
    <3>2. cpuq = <<>> => cpuq' = <<e>>
      BY <2>2
    <3>3. cpuq # <<>> /\ Tail(cpuq) = <<>> =>
            cpuq' # <<>> /\ Head(cpuq') = Head(cpuq) /\ Tail(cpuq') = <<e>>
      <4>1. cpuq \in Seq(Mensaje) /\ e \in Mensaje
        BY <1>1, <2>4 DEF Tipos, TypeOK, EJECUTAR, Mensaje
      <4> QED  BY <2>2, <4>1, DetrasDelUnico
    <3> QED  BY <1>1, <1>4, <3>1, <3>2, <3>3 DEF Vacante, Enviado, Cerrando
  <2> QED  BY <1>3, <2>4, <2>5, <2>6, TieneTurno DEF Tiene
<1> QED  BY <1>5, <1>6 DEF Tomar

\* A message that has come is of the process in EXEC, and the last of it or
\* one the CPU waits for.
LEMMA AlRecibirTurno ==
  ASSUME Tipos, Vida, Cauces, Turno, HayMensaje
  PROVE  /\ ~Sirviendo /\ Tail(canal) = <<>> /\ Presente
         /\ \/ /\ Ejecutando(Actual.p) /\ Actual.t \in {"WAIT", "SIGNAL"}
               /\ cpu.modo = "espera" /\ cpu.rta = 0 /\ cpuq = <<>>
            \/ Cerrando(<<>>) /\ cpu.pendientes = 0 /\ Actual.t \in Finales
         /\ lista["EXEC"] = <<Actual.p>> /\ Actual.p \in Pids
<1>1. canal # <<>> /\ ~Vacante /\ ~Contestando
  BY DEF HayMensaje, Vacante, EnPc, Contestando, Contesta
<1> PICK p \in Pids : ~Sirviendo /\ lista["EXEC"] = <<p>> /\ Tiene(p)
  BY <1>1 DEF Turno
<1>2. Ejecutando(p) \/ Entregado(p)
  BY <1>1 DEF Tiene, Enviado, Llegado
<1>3. Tail(canal) = <<>> /\ Actual.p = p
  BY <1>1, <1>2 DEF Ejecutando, Entregado, Pidio
<1>4. EnLista(p, "EXEC")
  BY DEF EnLista, Contains
<1>5. CASE Ejecutando(p)
  BY <1>1, <1>3, <1>4, <1>5 DEF Ejecutando, Pidio, Presente
<1>6. CASE Entregado(p)
  BY <1>3, <1>4, <1>6 DEF Entregado, Pidio, Presente
<1> QED  BY <1>2, <1>5, <1>6

LEMMA RecibirTurno ==
  ASSUME CasosPrevistos, Tipos, Vida, Cauces, Turno, RecibirDelCpu
  PROVE  Turno'
<1> PICK p, x : p = Actual.p /\ x = Actual.x
  OBVIOUS
<1>1. CASE RecibirInstruccionNulo \/ RecibirInadmisibleSinIniciar
  <2>1. NoToca
    BY <1>1, NoTocaIgual
    DEF RecibirInstruccionNulo, RecibirInadmisibleSinIniciar, Cae
  <2> QED  BY <2>1, TurnoNoToca
<1>2. HayMensaje
  BY DEF RecibirDelCpu, RecibirAusente, RecibirFinalizado, RecibirInstruccion,
         RecibirInstruccionNulo,
         RecibirInadmisibleSinIniciar, RecibirDesalojo, RecibirFin, Sirve
<1>3. /\ ~Sirviendo /\ Tail(canal) = <<>> /\ Presente
      /\ lista["EXEC"] = <<p>> /\ p \in Pids
  BY <1>2, AlRecibirTurno
<1>4. \/ /\ Ejecutando(p) /\ Actual.t \in {"WAIT", "SIGNAL"}
         /\ cpu.modo = "espera" /\ cpu.rta = 0 /\ cpuq = <<>>
      \/ Cerrando(<<>>) /\ cpu.pendientes = 0 /\ Actual.t \in Finales
  BY <1>2, AlRecibirTurno
<1>5. Actual \in Previstos /\ flag_finalizar = {} /\ Despacho \in Hilos
  BY <1>2, AlRecibir DEF Cauces
<1>6. ASSUME Ejecutando(p), cpuq = <<>>, canal' = <<>>, UNCHANGED cpu,
             cpu.modo = "espera", cpu.rta = 0, ~Contestando',
             cpuq' = Append(cpuq, RTA("-1"))
      PROVE  Turno'
  <2> PICK e : e = RTA("-1")
    OBVIOUS
  <2>1. RTA("-1")' = e /\ cpuq' = <<e>>
    BY <1>6 DEF RTA
  <2>2. cpuq' # <<>> /\ Head(cpuq') = e /\ Tail(cpuq') = <<>>
    BY <2>1
  <2>3. cpu.desalojar = "" /\ ~cpu.negada /\ cpu.pendientes = 0
    BY <1>6 DEF Ejecutando
  <2>4. Cerrando(<<>>)'
    BY <1>6, <2>1, <2>2, <2>3 DEF Cerrando
  <2> QED  BY <1>6, <2>3, <2>4, VacanteTurno DEF Vacante
<1>7. ASSUME Ejecutando(p), cpuq = <<>>, canal' = <<>>, UNCHANGED <<cpu, cpuq, lista>>,
             cpu.modo = "espera", cpu.rta = 0, Contestando'
      PROVE  Turno'
  <2>1. Aguarda(p)'
    BY <1>7 DEF Ejecutando, Aguarda
  <2> QED  BY <1>3, <1>7, <2>1, AguardaTurno
<1>8. ASSUME Cerrando(<<>>), cpu.pendientes = 0, canal' = <<>>, UNCHANGED <<cpu, cpuq>>,
             ~Contestando'
      PROVE  Turno'
  <2>1. Vacante'
    BY <1>8 DEF Vacante, Cerrando
  <2> QED  BY <1>8, <2>1, VacanteTurno
<1>15. ASSUME NEW h, Pasa(Despacho, h)
       PROVE  Contestando' <=> h.pc \in Contesta
  <2>1. hilos'[Despacho] = h
    BY <1>5, <1>15, PasaHilo
  <2> QED  BY <2>1 DEF Contestando
<1>16. \A pc, q, r : Arranca(pc, q, r).pc = pc
  BY ArrancaCampos
<1>9. CASE RecibirInstruccion /\ Actual.t = "WAIT"
  <2>1. /\ Ejecutando(p) /\ cpu.modo = "espera" /\ cpu.rta = 0 /\ cpuq = <<>>
        /\ canal' = <<>> /\ UNCHANGED cpu /\ AtenderWait(p, x) /\ x # Nadie
    BY <1>3, <1>4, <1>5, <1>9 DEF RecibirInstruccion, Recibido, Finales, Previstos
  <2>2. CASE WaitConcedido(p, x)
    <3>1. Pasa(Despacho, Arranca("wait_leer", p, x)) /\ UNCHANGED <<cpuq, lista>>
      BY <2>2 DEF WaitConcedido
    <3>2. Contestando'
      BY <1>15, <1>16, <3>1 DEF Contesta
    <3> QED  BY <1>7, <2>1, <3>1, <3>2
  <2>3. CASE WaitNegado(p, x)
    <3>1. ~Contestando'
      BY <1>15, <1>16, <2>3 DEF WaitNegado, Contesta
    <3> QED  BY <1>6, <2>1, <2>3, <3>1 DEF WaitNegado
  <2> QED  BY <2>1, <2>2, <2>3 DEF AtenderWait, WaitDesconocido
<1>10. CASE RecibirInstruccion /\ Actual.t = "SIGNAL"
  <2>1. /\ Ejecutando(p) /\ cpu.modo = "espera" /\ cpu.rta = 0 /\ cpuq = <<>>
        /\ canal' = <<>> /\ UNCHANGED cpu /\ AtenderSignal(p, x)
    BY <1>3, <1>4, <1>10 DEF RecibirInstruccion, Recibido, Finales
  <2>2. CASE SignalAceptado(p, x)
    <3> PICK h : h = Leido(Arranca("signal_suma", p, x), "signal_suma", x)
      OBVIOUS
    <3>1. Pasa(Despacho, h) /\ UNCHANGED <<cpuq, lista>>
      BY <2>2 DEF SignalAceptado
    <3>2. h.pc = "signal_suma"
      BY DEF Leido, Arranca, Reposo
    <3>3. Contestando'
      BY <1>15, <3>1, <3>2 DEF Contesta
    <3> QED  BY <1>7, <2>1, <3>1, <3>3
  <2>3. CASE SignalRechazado(p, x)
    <3>1. ~Contestando'
      BY <1>15, <1>16, <2>3 DEF SignalRechazado, Contesta
    <3> QED  BY <1>6, <2>1, <2>3, <3>1 DEF SignalRechazado
  <2> QED  BY <2>1, <2>2, <2>3 DEF AtenderSignal
<1>11. CASE RecibirInstruccion /\ Actual.t \notin {"WAIT", "SIGNAL"}
  <2>1. Cerrando(<<>>) /\ cpu.pendientes = 0 /\ canal' = <<>> /\ UNCHANGED cpu
    BY <1>3, <1>4, <1>11 DEF RecibirInstruccion, Recibido
  <2>2. cpuq' = cpuq
    BY <1>11 DEF RecibirInstruccion, AtenderIO, AtenderInadmisible, AtenderDesconocida
  <2>3. \E h : Pasa(Despacho, h) /\ h.pc \in {"transferir", "plp_exit", "buscar", "reposo"}
    <3> PICK op : op = IF io[x].libre THEN "io_libre" ELSE "io_ocupada"
      OBVIOUS
    <3>1. [Arranca("transferir", p, x) EXCEPT !.l = "BLOCKED", !.op = op].pc = "transferir"
      BY DEF Arranca, Reposo
    <3>2. [Arranca("buscar", p, Nadie) EXCEPT !.op = "finalizar", !.l = "NEW"].pc = "buscar"
      BY DEF Arranca, Reposo
    <3>3. \/ Pasa(Despacho, [Arranca("transferir", p, x) EXCEPT !.l = "BLOCKED", !.op = op])
          \/ Pasa(Despacho, Arranca("plp_exit", p, Nadie))
          \/ Pasa(Despacho, [Arranca("buscar", p, Nadie) EXCEPT !.op = "finalizar",
                                                               !.l = "NEW"])
          \/ Pasa(Despacho, Reposo)
      BY <1>11 DEF RecibirInstruccion, AtenderIO, AtenderInadmisible,
                   AtenderDesconocida, Vuelve
    <3> PICK h1, h2, h3 :
          /\ h1 = [Arranca("transferir", p, x) EXCEPT !.l = "BLOCKED", !.op = op]
          /\ h2 = Arranca("plp_exit", p, Nadie)
          /\ h3 = [Arranca("buscar", p, Nadie) EXCEPT !.op = "finalizar", !.l = "NEW"]
      OBVIOUS
    <3>4. /\ h1.pc = "transferir" /\ h2.pc = "plp_exit" /\ h3.pc = "buscar"
          /\ Reposo.pc = "reposo"
      BY <1>16, <3>1, <3>2, ReposoLibre
    <3>5. \/ Pasa(Despacho, h1) \/ Pasa(Despacho, h2) \/ Pasa(Despacho, h3)
          \/ Pasa(Despacho, Reposo)
      BY <3>3
    <3> QED  BY ONLY <3>4, <3>5
  <2>4. ~Contestando'
    BY <1>15, <2>3 DEF Contesta
  <2> QED  BY <1>8, <2>1, <2>2, <2>4
<1>12. CASE RecibirFin
  <2>1. /\ Cerrando(<<>>) /\ cpu.pendientes = 0 /\ canal' = <<>>
        /\ UNCHANGED <<cpu, cpuq>>
    BY <1>3, <1>4, <1>12 DEF RecibirFin, Recibido
  <2>2. ~Contestando'
    BY <1>12, <1>15, <1>16 DEF RecibirFin, Contesta
  <2> QED  BY <1>8, <2>1, <2>2
<1>13. ~RecibirAusente /\ ~RecibirFinalizado
  BY <1>3, <1>5 DEF RecibirAusente, RecibirFinalizado
<1>14. ~RecibirDesalojo
  BY <1>4 DEF RecibirDesalojo, Finales
<1> QED
  BY <1>1, <1>9, <1>10, <1>11, <1>12, <1>13, <1>14 DEF RecibirDelCpu

-----------------------------------------------------------------------------
(* The turn, in the CPU *)

\* A step of the CPU hands on the turn of whoever has it.
LEMMA CpuTurno ==
  ASSUME Turno, UNCHANGED <<lista, hilos>>,
         Vacante => Vacante',
         ASSUME NEW p \in Pids, Tiene(p) PROVE Tiene(p)',
         ASSUME NEW p \in Pids, Aguarda(p) PROVE FALSE
  PROVE  Turno'
<1>1. ~Contestando /\ ~Contestando'
  BY DEF Turno, Contestando
<1>2. ASSUME NEW p \in Pids, lista["EXEC"] = <<p>>, Tiene(p), ~Sirviendo
      PROVE  Turno'
  <2>1. lista'["EXEC"] = <<p>> /\ ~Sirviendo'
    BY <1>2 DEF Sirviendo
  <2>2. Tiene(p)'
    BY <1>2
  <2> QED  BY <1>1, <2>1, <2>2, TieneTurno
<1> QED  BY <1>1, <1>2, VacanteTurno DEF Turno

LEMMA UnSoloElemento ==
  ASSUME NEW e
  PROVE  <<e>> # <<>> /\ Head(<<e>>) = e /\ Tail(<<e>>) = <<>>
OBVIOUS

LEMMA CpuRecibeTurno ==
  ASSUME Tipos, Turno, CpuRecibe
  PROVE  Turno'
<1> PICK c \in Cpu : c = cpu
  BY DEF Tipos, TypeOK
<1> PICK m : m = Head(cpuq)
  OBVIOUS
<1>1. /\ cpuq # <<>> /\ cpuq' = Tail(cpuq) /\ UNCHANGED <<lista, hilos, canal>>
      /\ \/ m.t = "EJECUTAR" /\ cpu' = [c EXCEPT !.ctx = m.p, !.pendientes = @ + 1]
         \/ m.t = "RTA" /\ cpu' = [c EXCEPT !.rta = @ + 1, !.negada = @ \/ m.v = "-1"]
  BY DEF CpuRecibe
<1>2. /\ RTA("-1").t = "RTA" /\ RTA("-1").v = "-1"
      /\ RTA("1").t = "RTA" /\ RTA("1").v = "1"
      /\ \A p : EJECUTAR(p).t = "EJECUTAR" /\ EJECUTAR(p).p = p
  BY DEF RTA, EJECUTAR
<1>0. c.rta \in Nat /\ c.pendientes \in Nat /\ c.negada \in BOOLEAN
  BY DEF Cpu
<1>3. ASSUME NEW q, Cerrando(q), cpuq # q
      PROVE  Cerrando(q)' /\ cpu'.pendientes = cpu.pendientes /\ cpu'.ctx = cpu.ctx
  <2>1. /\ c.modo = "espera" /\ ~c.negada /\ c.rta = 0 /\ c.desalojar = ""
        /\ m = RTA("-1") /\ cpuq' = q
    BY <1>1, <1>3 DEF Cerrando
  <2>2. cpu' = [c EXCEPT !.rta = @ + 1, !.negada = @ \/ m.v = "-1"]
    BY <1>1, <1>2, <2>1
  <2>3. /\ cpu'.modo = c.modo /\ cpu'.negada = (c.negada \/ m.v = "-1")
        /\ cpu'.rta = c.rta + 1 /\ cpu'.desalojar = c.desalojar
        /\ cpu'.pendientes = c.pendientes /\ cpu'.ctx = c.ctx
    BY ONLY <2>2, c \in Cpu DEF Cpu
  <2>4. m.v = "-1"
    BY <1>2, <2>1
  <2>6. 0 + 1 = 1
    OBVIOUS
  <2>5. cpu'.modo = "espera" /\ cpu'.negada /\ cpu'.rta = 1 /\ cpu'.desalojar = ""
    BY <2>1, <2>3, <2>4, <2>6
  <2> QED  BY <2>1, <2>3, <2>5 DEF Cerrando
<1>4. Vacante => Vacante'
  BY <1>1, <1>3 DEF Vacante
<1>5. ASSUME NEW p \in Pids, Enviado(p) PROVE Tiene(p)'
  <2> PICK e : e = EJECUTAR(p)
    OBVIOUS
  <2>1. EJECUTAR(p)' = e
    BY DEF EJECUTAR
  <2>0. Cerrando(<<e>>) /\ c.pendientes = 0 /\ canal = <<>>
    BY <1>5 DEF Enviado
  <2>2. CASE cpuq # <<e>>
    <3>1. Cerrando(<<e>>)' /\ cpu'.pendientes = c.pendientes
      BY <1>3, <2>0, <2>2
    <3>2. Enviado(p)'
      BY <1>1, <2>0, <2>1, <3>1 DEF Enviado
    <3> QED  BY <3>2 DEF Tiene
  <2>3. CASE cpuq = <<e>>
    <3>1. m = e /\ cpuq' = <<>>
      BY <1>1, <2>3, UnSoloElemento
    <3>2. m.t = "EJECUTAR" /\ m.p = p
      BY <1>2, <3>1
    <3>3. cpu' = [c EXCEPT !.ctx = m.p, !.pendientes = @ + 1]
      BY <1>1, <3>2
    <3>4. /\ cpu'.modo = c.modo /\ cpu'.negada = c.negada /\ cpu'.rta = c.rta
          /\ cpu'.desalojar = c.desalojar /\ cpu'.pendientes = c.pendientes + 1
          /\ cpu'.ctx = m.p
      BY ONLY <3>3, c \in Cpu DEF Cpu
    <3>5. cpu'.pendientes = 1
      BY <2>0, <3>4
    <3>6. m # RTA("-1")
      BY <1>2, <3>2
    <3>7. Cerrando(<<>>)'
      BY <2>0, <3>1, <3>4, <3>6 DEF Cerrando
    <3> QED  BY <1>1, <2>0, <3>2, <3>4, <3>5, <3>7 DEF Llegado, Tiene
  <2> QED  BY <2>2, <2>3
<1>6. ASSUME NEW p \in Pids, Llegado(p) PROVE Tiene(p)'
  BY <1>1, <1>3, <1>6 DEF Llegado, Tiene
<1>7. ASSUME NEW p \in Pids, Ejecutando(p) PROVE Tiene(p)'
  <2>1. /\ cpuq = <<RTA("1")>> /\ canal = <<>> /\ c.modo = "espera" /\ c.rta = 0
        /\ c.ctx = p /\ c.pendientes = 0 /\ ~c.negada /\ c.desalojar = ""
    BY <1>1, <1>7 DEF Ejecutando
  <2>2. m = RTA("1") /\ cpuq' = <<>>
    BY <1>1, <2>1, UnSoloElemento
  <2>3. cpu' = [c EXCEPT !.rta = @ + 1, !.negada = @ \/ m.v = "-1"]
    BY <1>1, <1>2, <2>2
  <2>5. /\ cpu'.modo = c.modo /\ cpu'.negada = (c.negada \/ m.v = "-1")
        /\ cpu'.rta = c.rta + 1 /\ cpu'.desalojar = c.desalojar
        /\ cpu'.pendientes = c.pendientes /\ cpu'.ctx = c.ctx
    BY ONLY <2>3, c \in Cpu DEF Cpu
  <2>6. m.v # "-1" /\ 0 + 1 = 1
    BY <1>2, <2>2
  <2>4. /\ cpu'.modo = "espera" /\ ~cpu'.negada /\ cpu'.rta = 1 /\ cpu'.ctx = p
        /\ cpu'.desalojar = "" /\ cpu'.pendientes = 0
    BY <2>1, <2>5, <2>6
  <2> QED  BY <1>1, <2>1, <2>2, <2>4 DEF Ejecutando, Tiene
<1>8. ASSUME NEW p \in Pids, Entregado(p) PROVE FALSE
  BY <1>1, <1>8 DEF Entregado, Cerrando
<1>9. ASSUME NEW p \in Pids, Aguarda(p) PROVE FALSE
  BY <1>1, <1>9 DEF Aguarda
<1> QED  BY <1>1, <1>4, <1>5, <1>6, <1>7, <1>8, <1>9, CpuTurno DEF Tiene

\* The loop starts with a process that was sent to it, and with no other under
\* way.
LEMMA CpuEmpiezaTurno ==
  ASSUME Tipos, Turno, CpuEmpieza
  PROVE  Turno'
<1> PICK c \in Cpu : c = cpu
  BY DEF Tipos, TypeOK
<1>1. /\ c.modo = "libre" /\ c.pendientes > 0
      /\ cpu' = [c EXCEPT !.modo = "ejecuta", !.pendientes = @ - 1]
      /\ UNCHANGED <<lista, hilos, cpuq, canal>>
  BY DEF CpuEmpieza
<1>0. c.rta \in Nat /\ c.pendientes \in Nat
  BY DEF Cpu
<1>2. c.pendientes # 0
  BY <1>0, <1>1
<1>4. ~Vacante
  BY <1>2 DEF Vacante
<1>3. ASSUME NEW p \in Pids, Tiene(p) PROVE Ejecutando(p)'
  <2>1. Llegado(p)
    BY <1>2, <1>3 DEF Tiene, Enviado, Ejecutando, Entregado
  <2>2. /\ c.pendientes = 1 /\ c.ctx = p /\ ~c.negada /\ c.rta = 0
        /\ c.desalojar = "" /\ cpuq = <<>> /\ canal = <<>>
    BY <1>1, <2>1 DEF Llegado, Cerrando
  <2>3. /\ cpu'.modo = "ejecuta" /\ cpu'.negada = c.negada /\ cpu'.rta = c.rta
        /\ cpu'.desalojar = c.desalojar /\ cpu'.pendientes = c.pendientes - 1
        /\ cpu'.ctx = c.ctx
    BY ONLY <1>1, c \in Cpu DEF Cpu
  <2>4. 1 - 1 = 0
    OBVIOUS
  <2> QED  BY <1>1, <2>2, <2>3, <2>4 DEF Ejecutando
<1>5. ASSUME NEW p \in Pids, Aguarda(p) PROVE FALSE
  BY <1>1, <1>5 DEF Aguarda
<1> QED  BY <1>1, <1>3, <1>4, <1>5, CpuTurno DEF Tiene

\* Whoever executes has the turn.
LEMMA EjecutaTurno ==
  ASSUME Turno, cpu.modo = "ejecuta"
  PROVE  \E p \in Pids :
           /\ lista["EXEC"] = <<p>> /\ ~Sirviendo /\ ~Contestando
           /\ cpu.ctx = p /\ cpu.pendientes = 0 /\ ~cpu.negada /\ cpu.rta = 0
           /\ cpu.desalojar = "" /\ cpuq = <<>> /\ canal = <<>>
<1>1. (\A q : ~Cerrando(q)) /\ \A p : ~Aguarda(p)
  BY DEF Cerrando, Aguarda
<1> PICK p \in Pids :
      lista["EXEC"] = <<p>> /\ ~Sirviendo /\ ~Contestando /\ Tiene(p)
  BY <1>1 DEF Turno, Vacante
<1>2. Ejecutando(p)
  BY <1>1 DEF Tiene, Enviado, Llegado, Entregado
<1> QED  BY <1>2 DEF Ejecutando

LEMMA PedidosDelContexto ==
  ASSUME NEW m \in Pedidos
  PROVE  m.p = cpu.ctx /\ m.t # "DESALOJO"
<1> DEFINE R1 == IF "WAIT_ANIDADO" \in Sucesos
                    \/ ("WAIT" \in Sucesos /\ recursos_pcb[cpu.ctx] = <<>>)
                 THEN Recursos ELSE {}
<1>1. \A t, x : Pide(t, x).p = cpu.ctx /\ Pide(t, x).t = t
  BY DEF Pide
<1>2. CASE m \in {Pide("WAIT", r) : r \in R1}
  BY <1>1, <1>2
<1>3. CASE m \in {Pide("SIGNAL", r) : r \in ToSet(recursos_pcb[cpu.ctx])}
  BY <1>1, <1>3
<1>4. CASE m \in {Pide(t, Nadie) : t \in {s \in {"WAIT", "SIGNAL"} :
                 \/ s = "WAIT" /\ "WAIT_DESCONOCIDO" \in Sucesos
                 \/ s = "SIGNAL" /\ "SIGNAL_DESCONOCIDO" \in Sucesos}}
  BY <1>1, <1>4
<1>5. CASE m \in {Pide("IO", i) : i \in IF "IO" \in Sucesos THEN Interfaces ELSE {}}
  BY <1>1, <1>5
<1>6. CASE m \in {Pide(t, x) :
            t \in {"IO_INADMISIBLE", "IO_DESCONOCIDA"} \intersect Sucesos,
            x \in {"GENERICA", "OTRA"} \intersect Sucesos}
  BY <1>1, <1>6
<1> QED  BY <1>2, <1>3, <1>4, <1>5, <1>6 DEF Pedidos

LEMMA CpuPideTurno ==
  ASSUME Tipos, Turno, CpuPide
  PROVE  Turno'
<1> PICK c \in Cpu : c = cpu
  BY DEF Tipos, TypeOK
<1> PICK m \in Pedidos :
      /\ canal' = Append(canal, m)
      /\ cpu' = [c EXCEPT !.modo = IF m.t \in {"WAIT", "SIGNAL"}
                                   THEN "espera" ELSE "sale"]
  BY DEF CpuPide
<1>1. c.modo = "ejecuta" /\ UNCHANGED <<lista, hilos, cpuq>>
  BY DEF CpuPide
<1> PICK p \in Pids :
      /\ lista["EXEC"] = <<p>> /\ ~Sirviendo /\ ~Contestando
      /\ c.ctx = p /\ c.pendientes = 0 /\ ~c.negada /\ c.rta = 0
      /\ c.desalojar = "" /\ cpuq = <<>> /\ canal = <<>>
  BY <1>1, EjecutaTurno
<1>2. m.p = p /\ m.t \in {"WAIT", "SIGNAL"} \union Finales
  <2>1. m \in Pedido
    BY PedidosTipo
  <2>2. m.t # "DESALOJO"
    BY PedidosDelContexto
  <2>3. m.t \in {"WAIT", "SIGNAL", "IO", "IO_INADMISIBLE", "IO_DESCONOCIDA",
                 "ATENDER_EXIT", "ATENDER_OUT_OF_MEMORY"}
    BY <2>1, <2>2 DEF Pedido
  <2>4. m.p = c.ctx
    BY PedidosDelContexto
  <2> QED  BY <2>3, <2>4 DEF Finales
<1>3. canal' # <<>> /\ Tail(canal') = <<>> /\ Head(canal') = m
  <2>1. canal' = Append(<<>>, m)
    OBVIOUS
  <2>2. Append(<<>>, m) = <<m>>
    BY ONLY TRUE
  <2> QED  BY <2>1, <2>2, UnSoloElemento
<1>4. /\ cpu'.ctx = p /\ cpu'.pendientes = 0 /\ ~cpu'.negada /\ cpu'.rta = 0
      /\ cpu'.desalojar = ""
      /\ cpu'.modo = IF m.t \in {"WAIT", "SIGNAL"} THEN "espera" ELSE "sale"
  BY DEF Cpu
<1>5. ASSUME NEW ts, m.t \in ts PROVE Pidio(p, ts)'
  BY <1>2, <1>3, <1>5 DEF Pidio, Actual
<1>6. Tiene(p)'
  <2>1. CASE m.t \in {"WAIT", "SIGNAL"}
    BY <1>1, <1>4, <1>5, <2>1 DEF Tiene, Ejecutando
  <2>2. CASE m.t \notin {"WAIT", "SIGNAL"}
    <3>1. Cerrando(<<>>)' /\ Pidio(p, Finales)' /\ cpu'.modo = "sale"
      BY <1>1, <1>2, <1>4, <1>5, <2>2 DEF Cerrando
    <3> QED  BY <1>4, <3>1 DEF Tiene, Entregado
  <2> QED  BY <2>1, <2>2
<1>7. lista'["EXEC"] = <<p>> /\ ~Sirviendo' /\ ~Contestando'
  BY <1>1 DEF Sirviendo, Contestando
<1> QED  BY <1>6, <1>7, TieneTurno

LEMMA CpuRespondidoTurno ==
  ASSUME Tipos, Turno, cpu.irq = "", CpuRespondido
  PROVE  Turno'
<1> PICK c \in Cpu : c = cpu
  BY DEF Tipos, TypeOK
<1>1. /\ c.modo = "espera" /\ c.rta > 0 /\ UNCHANGED <<lista, hilos, cpuq, canal>>
      /\ cpu' = [c EXCEPT !.rta = @ - 1, !.modo = IF c.negada THEN "sale" ELSE "ejecuta"]
  BY DEF CpuRespondido, DejaDeEjecutar
<1>0. c.rta # 0 /\ 1 - 1 = 0
  <2> PICK k \in Nat : k = c.rta
    BY DEF Cpu
  <2>1. k > 0
    BY <1>1
  <2>2. k # 0 /\ 1 - 1 = 0
    BY ONLY <2>1, k \in Nat
  <2> QED  BY <2>2
<1>2. /\ cpu'.ctx = c.ctx /\ cpu'.pendientes = c.pendientes
      /\ cpu'.negada = c.negada /\ cpu'.desalojar = c.desalojar
      /\ cpu'.rta = c.rta - 1
      /\ cpu'.modo = IF c.negada THEN "sale" ELSE "ejecuta"
  BY <1>1 DEF Cpu
<1>3. ASSUME NEW q, Cerrando(q) PROVE Cerrando(q)'
  <2>1. c.negada /\ c.rta = 1 /\ cpuq = q /\ c.desalojar = ""
    BY <1>0, <1>1, <1>3 DEF Cerrando
  <2>2. cpu'.modo = "sale" /\ cpu'.rta = 0
    BY <1>0, <1>2, <2>1
  <2> QED  BY <1>1, <1>2, <2>1, <2>2 DEF Cerrando
<1>4. Vacante => Vacante'
  BY <1>1, <1>2, <1>3 DEF Vacante
<1>5. ASSUME NEW p \in Pids, Tiene(p) PROVE Tiene(p)'
  <2>1. EJECUTAR(p)' = EJECUTAR(p)
    BY DEF EJECUTAR
  <2>2. CASE Enviado(p)
    BY <1>1, <1>2, <1>3, <2>1, <2>2 DEF Enviado, Tiene
  <2>3. CASE Llegado(p)
    BY <1>1, <1>2, <1>3, <2>3 DEF Llegado, Tiene
  <2>4. CASE Ejecutando(p)
    <3>1. /\ c.ctx = p /\ c.pendientes = 0 /\ ~c.negada /\ c.desalojar = ""
          /\ canal = <<>> /\ c.rta = 1 /\ cpuq = <<>>
      BY <1>0, <1>1, <2>4 DEF Ejecutando
    <3>2. cpu'.modo = "ejecuta" /\ cpu'.rta = 0
      BY <1>0, <1>2, <3>1
    <3> QED  BY <1>1, <1>2, <3>1, <3>2 DEF Ejecutando, Tiene
  <2>5. ~Entregado(p)
    BY <1>1 DEF Entregado
  <2> QED  BY <1>5, <2>2, <2>3, <2>4, <2>5 DEF Tiene
<1>6. ASSUME NEW p \in Pids, Aguarda(p) PROVE FALSE
  BY <1>0, <1>6 DEF Aguarda
<1> QED  BY <1>1, <1>4, <1>5, <1>6, CpuTurno

LEMMA DesalojaTurno ==
  ASSUME Tipos, Turno, NEW tipo \in {"ATENDER_EXIT", "ATENDER_OUT_OF_MEMORY"},
         Desaloja(tipo)
  PROVE  Turno'
<1> PICK c \in Cpu : c = cpu
  BY DEF Tipos, TypeOK
<1>1. /\ c.modo = "ejecuta" /\ UNCHANGED <<lista, hilos, cpuq, canal>>
      /\ cpu' = [c EXCEPT !.modo = "sale", !.desalojar = tipo]
  BY DEF Desaloja
<1> PICK p \in Pids :
      /\ lista["EXEC"] = <<p>> /\ ~Sirviendo /\ ~Contestando
      /\ c.ctx = p /\ c.pendientes = 0 /\ ~c.negada /\ c.rta = 0
      /\ c.desalojar = "" /\ cpuq = <<>> /\ canal = <<>>
  BY <1>1, EjecutaTurno
<1>2. /\ cpu'.ctx = p /\ cpu'.pendientes = 0 /\ ~cpu'.negada /\ cpu'.rta = 0
      /\ cpu'.desalojar = tipo /\ cpu'.modo = "sale"
  BY <1>1 DEF Cpu
<1>3. Tiene(p)'
  BY <1>1, <1>2 DEF Tiene, Ejecutando
<1>4. lista'["EXEC"] = <<p>> /\ ~Sirviendo' /\ ~Contestando'
  BY <1>1 DEF Sirviendo, Contestando
<1> QED  BY <1>3, <1>4, TieneTurno

LEMMA CpuSaleTurno ==
  ASSUME Tipos, Turno, cpu.irq = "", CpuSale
  PROVE  Turno'
<1> PICK c \in Cpu : c = cpu
  BY DEF Tipos, TypeOK
<1>1. /\ c.modo = "sale" /\ UNCHANGED <<lista, hilos, cpuq>> /\ c.irq = ""
      /\ cpu' = [c EXCEPT !.modo = "libre", !.irq = "", !.negada = FALSE,
                          !.desalojar = ""]
  BY DEF CpuSale
<1>2. canal' = (canal \o <<>>) \o (IF c.desalojar # "" THEN <<Pide(c.desalojar, Nadie)>>
                                   ELSE <<>>)
  BY <1>1 DEF CpuSale
<1>3. /\ cpu'.ctx = c.ctx /\ cpu'.pendientes = c.pendientes /\ ~cpu'.negada
      /\ cpu'.rta = c.rta /\ cpu'.desalojar = "" /\ cpu'.modo = "libre"
  BY <1>1 DEF Cpu
<1>4. c.desalojar = "" => canal' = canal
  <2>1. canal \in Seq(Pedido)
    BY DEF Tipos, TypeOK
  <2>2. ASSUME NEW S, NEW s \in Seq(S) PROVE (s \o <<>>) \o <<>> = s
    BY <2>2, ConcatEmptySeq
  <2> QED  BY <1>2, <2>1, <2>2
<1>5. ASSUME NEW q, Cerrando(q) PROVE Cerrando(q)' /\ canal' = canal
  BY <1>1, <1>3, <1>4, <1>5 DEF Cerrando
<1>6. Vacante => Vacante'
  BY <1>3, <1>5 DEF Vacante
<1>7. ASSUME NEW p \in Pids, Tiene(p) PROVE Tiene(p)'
  <2>1. EJECUTAR(p)' = EJECUTAR(p)
    BY DEF EJECUTAR
  <2>2. CASE Enviado(p) \/ Llegado(p)
    BY <1>3, <1>5, <2>1, <2>2 DEF Enviado, Llegado, Tiene
  <2>3. CASE Entregado(p)
    <3>1. canal' = canal /\ Cerrando(<<>>)'
      BY <1>5, <2>3 DEF Entregado
    <3> QED  BY <1>3, <2>3, <3>1 DEF Entregado, Pidio, Actual, Tiene
  <2>4. CASE Ejecutando(p)
    <3>1. /\ c.ctx = p /\ c.pendientes = 0 /\ c.rta = 0 /\ cpuq = <<>> /\ canal = <<>>
          /\ c.desalojar \in {"ATENDER_EXIT", "ATENDER_OUT_OF_MEMORY"}
      BY <1>1, <2>4 DEF Ejecutando, Cpu
    <3> PICK m : m = Pide(c.desalojar, Nadie)
      OBVIOUS
    <3>2. m.p = p /\ m.t \in Finales
      BY <3>1 DEF Pide, Finales
    <3>3. canal' = <<m>>
      <4>1. canal' = (<<>> \o <<>>) \o <<m>>
        BY <1>2, <3>1
      <4>2. (<<>> \o <<>>) \o <<m>> = <<m>>
        BY ONLY TRUE
      <4> QED  BY <4>1, <4>2
    <3>4. Pidio(p, Finales)'
      <4>1. canal' # <<>> /\ Tail(canal') = <<>> /\ Head(canal') = m
        BY <3>3, UnSoloElemento
      <4> QED  BY <3>2, <4>1 DEF Pidio, Actual
    <3>5. Cerrando(<<>>)'
      BY <1>1, <1>3, <3>1 DEF Cerrando
    <3> QED  BY <1>3, <3>1, <3>4, <3>5 DEF Entregado, Tiene
  <2> QED  BY <1>7, <2>2, <2>3, <2>4 DEF Tiene
<1>8. ASSUME NEW p \in Pids, Aguarda(p) PROVE FALSE
  BY <1>1, <1>8 DEF Aguarda
<1> QED  BY <1>1, <1>6, <1>7, <1>8, CpuTurno

\* Every step hands the turn on: to the CPU when a process is taken from READY,
\* and back when the dispatch thread answers or has served its last message.
LEMMA NextTurno ==
  ASSUME CasosPrevistos, SinQuantum, VInv, SinInterrumpir, Turno, [Next]_vars
  PROVE  Turno'
<1>1. IInv /\ Tipos /\ Vida /\ Cauces /\ SinAvisos /\ irqs = <<>> /\ cpu.irq = ""
  BY DEF VInv, IInv, SinInterrumpir
<1>2. ASSUME NEW t \in Hilos, HilosDelKernel(t) PROVE Turno'
  <2>1. CASE Tomar(t)
    BY <1>1, <2>1, TomarTurno
  <2>3. CASE WaitRestar(t) \/ SignalSumar(t)
    BY <1>1, <2>3, ContestarTurno
  <2>2. CASE ~Tomar(t) /\ ~WaitRestar(t) /\ ~SignalSumar(t)
    <3>1. NoToca
      BY <1>1, <1>2, <2>2, LargoPlazoNoToca, CortoPlazoNoToca, ServiciosNoTocan
      DEF HilosDelKernel
    <3> QED  BY <3>1, TurnoNoToca
  <2> QED  BY <2>1, <2>2, <2>3
<1>3. CASE CpuEjecuta
  <2>1. ~CpuInterrupcion /\ ~CpuVeInterrupcion
    BY <1>1, EjecutaTurno DEF CpuInterrupcion, CpuVeInterrupcion, DejaDeEjecutar
  <2> QED
    BY <1>1, <1>3, <2>1, CpuRecibeTurno, CpuEmpiezaTurno, CpuPideTurno,
       CpuRespondidoTurno, DesalojaTurno, CpuSaleTurno
    DEF CpuEjecuta, CpuExit, CpuSinMemoria
<1>4. CASE RecibirDelCpu
  BY <1>1, <1>4, RecibirTurno
<1>5. ASSUME \/ \E i \in Interfaces : HiloInterfaz(i)
             \/ Consola
             \/ Interrupciones
             \/ UNCHANGED vars
      PROVE  Turno'
  BY <1>1, <1>5, OtrosNoTocan, TurnoNoToca
<1> QED
  BY <1>2, <1>3, <1>4, <1>5 DEF Next, Terminado

LEMMA NextSinInterrumpir ==
  ASSUME SinQuantum, VInv, SinInterrumpir, [Next]_vars
  PROVE  SinInterrumpir'
<1>1. Tipos /\ Vida /\ SinAvisos /\ irqs = <<>> /\ cpu.irq = ""
  BY DEF VInv, IInv, SinInterrumpir
<1>2. SinAvisos'
  BY <1>1, NextAvisos
<1> SUFFICES irqs' = <<>> /\ cpu'.irq = ""
  BY <1>2 DEF SinInterrumpir
<1>3. ASSUME NEW t \in Hilos, HilosDelKernel(t) PROVE UNCHANGED <<irqs, cpu>>
  <2>1. CASE HiloLargoPlazo(t)
    BY <2>1
    DEF HiloLargoPlazo, Nuevo, TomarNew, TomarCupo, PasarAReady, Buscar,
        BuscarNulo, SegunEstado, SegunEstadoAusente, SalirDeExec, SalirDeExecAusente,
        LiberarRecurso, LiberarSumar, AvisarMemoria, AvisarDesconocido, Transferir,
        AgregarAExit, Cae
  <2>2. CASE HiloCortoPlazo(t)
    BY <2>2
    DEF HiloCortoPlazo, MirarReady, TomarExec, TomarReady, TomarSinTimer, AtenderMotivo,
        Reubicar, ReubicarReady, ReubicarAReady, ReubicarAusente, Analizar,
        AnalizarNulo, AgregarAReady, Tomar, Cae
  <2>3. CASE HiloRecursos(t) \/ HiloDespacho(t)
    BY <2>3
    DEF HiloRecursos, HiloDespacho, AgregarDesconocido, WaitLeer, WaitRestar,
        WaitBloquear, WaitEncolar, SignalSumar, Asignar, AsignarRestar,
        Desbloquear, AgregarABlocked, MandarIO, EncolarIO
  <2> QED  BY <1>3, <2>1, <2>2, <2>3 DEF HilosDelKernel
<1>4. ASSUME \/ \E i \in Interfaces : HiloInterfaz(i)
             \/ Consola
             \/ UNCHANGED vars
      PROVE  UNCHANGED <<irqs, cpu>>
  BY <1>4
  DEF HiloInterfaz, FinEntradaSalida, SiguienteIO, SiguienteIOLiberada, LiberarIO,
      Cae, Consola, IniciarProceso, FinalizarProceso, vars
<1>5. RecibirDelCpu => UNCHANGED <<irqs, cpu>>
  BY DEF RecibirDelCpu, RecibirAusente, RecibirFinalizado, RecibirInstruccion,
         RecibirInstruccionNulo,
         RecibirInadmisibleSinIniciar, RecibirDesalojo, RecibirFin, Cae
<1>6. Interrupciones => UNCHANGED <<irqs, cpu>>
  <2>1. ASSUME NEW m \in Motivos PROVE ~Interrumpir(m)
    <3>1. SUFFICES ASSUME Interrumpir(m) PROVE FALSE
      OBVIOUS
    <3> PICK k : k = sem[m]
      OBVIOUS
    <3>2. k = 0 /\ k > 0
      BY <1>1, <3>1 DEF SinAvisos, Interrumpir, HayQueInterrumpir
    <3> QED  BY ONLY <3>2
  <2> QED  BY <2>1 DEF Interrupciones, VenceQuantum, InterrumpirNulo, Cae
<1>7. CpuEjecuta => irqs' = irqs /\ cpu'.irq = ""
  <2> PICK c \in Cpu : c = cpu
    BY <1>1 DEF Tipos, TypeOK
  <2>1. ~CpuInterrupcion
    BY <1>1 DEF CpuInterrupcion
  <2>2. c.irq = ""
    BY <1>1
  <2>3. [c EXCEPT !.modo = "libre", !.irq = "", !.negada = FALSE,
                  !.desalojar = ""].irq = ""
    BY DEF Cpu
  <2>4. CASE CpuRecibe
    <3>1. irqs' = irqs
      BY <2>4 DEF CpuRecibe
    <3>2. \E x, y : \/ cpu' = [c EXCEPT !.ctx = x, !.pendientes = y]
                   \/ cpu' = [c EXCEPT !.rta = x, !.negada = y]
      BY <2>4 DEF CpuRecibe
    <3>3. cpu'.irq = c.irq
      BY ONLY <3>2, c \in Cpu DEF Cpu
    <3> QED  BY <2>2, <3>1, <3>3
  <2>5. CASE CpuEmpieza
    <3>1. irqs' = irqs
      BY <2>5 DEF CpuEmpieza
    <3>2. \E x, y : cpu' = [c EXCEPT !.modo = x, !.pendientes = y]
      BY <2>5 DEF CpuEmpieza
    <3>3. cpu'.irq = c.irq
      BY ONLY <3>2, c \in Cpu DEF Cpu
    <3> QED  BY <2>2, <3>1, <3>3
  <2>6. CASE CpuPide \/ CpuVeInterrupcion
    <3>1. irqs' = irqs
      BY <2>6 DEF CpuPide, CpuVeInterrupcion
    <3>2. \E x : cpu' = [c EXCEPT !.modo = x]
      BY <2>6 DEF CpuPide, CpuVeInterrupcion
    <3>3. cpu'.irq = c.irq
      BY ONLY <3>2, c \in Cpu DEF Cpu
    <3> QED  BY <2>2, <3>1, <3>3
  <2>7. CASE CpuRespondido
    <3>1. irqs' = irqs
      BY <2>7 DEF CpuRespondido
    <3>2. \E x, y : cpu' = [c EXCEPT !.rta = x, !.modo = y]
      BY <2>7 DEF CpuRespondido
    <3>3. cpu'.irq = c.irq
      BY ONLY <3>2, c \in Cpu DEF Cpu
    <3> QED  BY <2>2, <3>1, <3>3
  <2>8. CASE CpuExit \/ CpuSinMemoria
    <3>1. irqs' = irqs
      BY <2>8 DEF CpuExit, CpuSinMemoria, Desaloja
    <3>2. \E x, y : cpu' = [c EXCEPT !.modo = x, !.desalojar = y]
      BY <2>8 DEF CpuExit, CpuSinMemoria, Desaloja
    <3>3. cpu'.irq = c.irq
      BY ONLY <3>2, c \in Cpu DEF Cpu
    <3> QED  BY <2>2, <3>1, <3>3
  <2>9. CASE CpuSale
    BY <2>3, <2>9 DEF CpuSale
  <2> QED
    BY <2>1, <2>4, <2>5, <2>6, <2>7, <2>8, <2>9 DEF CpuEjecuta
<1> QED
  BY <1>1, <1>3, <1>4, <1>5, <1>6, <1>7 DEF Next, Terminado

LEMMA InitTurno ==
  ASSUME Init
  PROVE  SinInterrumpir /\ Turno
<1>1. /\ cpu.desalojar = "" /\ cpu.modo = "libre" /\ ~cpu.negada /\ cpu.rta = 0
      /\ cpu.pendientes = 0 /\ cpu.irq = "" /\ cpuq = <<>> /\ canal = <<>>
      /\ irqs = <<>> /\ \A m \in Motivos : sem[m] = 0
  BY DEF Init
<1>2. hilos[Despacho].pc = "reposo"
  BY DespachoEsHilo, ReposoLibre DEF Init
<1> QED
  BY <1>1, <1>2
  DEF SinInterrumpir, SinAvisos, Turno, Vacante, Cerrando, Contestando, Contesta

\* The CPU executes the process of EXEC and no other, although it has a single
\* context that every message overwrites (cpu_kernel_dispatch.c) and the kernel
\* empties EXEC and fills it again from threads of its own: the process, the
\* answer to its system call and its last message are one turn that is only
\* ever in one place.  An interrupt would free EXEC while the CPU has a turn
\* under way, hence SinQuantum.
THEOREM KernelCpuEjecutaElDeExec ==
  CasosPrevistos /\ SinQuantum => (Spec => []CpuEjecutaElDeExec)
<1> SUFFICES ASSUME CasosPrevistos, SinQuantum PROVE Spec => []CpuEjecutaElDeExec
  OBVIOUS
<1>1. Spec => []VInv
  BY SpecVInv, PTL
<1>2. Init => SinInterrumpir /\ Turno
  BY InitTurno
<1>3. VInv /\ SinInterrumpir /\ Turno /\ [Next]_vars => (SinInterrumpir /\ Turno)'
  BY NextTurno, NextSinInterrumpir
<1>4. Turno => CpuEjecutaElDeExec
  BY EjecutaTurno DEF CpuEjecutaElDeExec
<1> QED  BY <1>1, <1>2, <1>3, <1>4, PTL DEF Spec

=============================================================================
