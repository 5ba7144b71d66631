-------------------------- MODULE TraduccionProofs --------------------------
(***************************************************************************)
(* Proofs about Traduccion, for any processes, memory, TLB and algorithm:  *)
(* the composition keeps the invariants of memory and of the TLB, and an   *)
(* access falls in the page it is meant for unless the entry that answered *)
(* was of another process or of a page returned to memory since.           *)
(***************************************************************************)
EXTENDS Traduccion, MemoriaProofs, TlbProofs

-----------------------------------------------------------------------------
(* The composition keeps what its parts keep *)

TrInv ==
  /\ TraduccionTypeOK
  /\ IInv
  /\ FueraDeLista
  /\ Inv

restoDeMemoria == <<list_procss_recibidos, creados, tabla_paginas, libre,
                    info_new, info_old, heap, hilo, respuesta, caido>>

\* An action of the composition is one of memory, or it changes the accesses
\* the interfaces still have to make and nothing else of memory.
LEMMA PasoDeMemoria ==
  ASSUME TraduccionTypeOK, [TraduccionNext]_trVars
  PROVE  \/ [Next]_vars
         \/ /\ UNCHANGED restoDeMemoria
            /\ pedidos_io' \subseteq [pid: Procesos, marco: Marcos]
<1> DEFINE SoloPedidos == /\ UNCHANGED restoDeMemoria
                          /\ pedidos_io' \subseteq [pid: Procesos, marco: Marcos]
<1>t. /\ pedidos_io \subseteq [pid: Procesos, marco: Marcos]
      /\ acceso # SinAcceso =>
           acceso \in [pid: Procesos, pagina: Paginas, marco: Marcos, propia: BOOLEAN]
  BY DEF TraduccionTypeOK, TypeOK
<1>1. ASSUME caido = "", HiloKernelTr PROVE Next
  BY <1>1 DEF HiloKernelTr, Next, HiloKernel
<1>2. ASSUME caido = "", NEW p \in Procesos, NEW pagina \in Paginas, Mmu(p, pagina)
      PROVE  [Next]_vars
  <2>1. pagina \in 0..PaginasDe(MaxTamanio)
    BY DEF Paginas
  <2>2. CASE MmuAcierto(p, pagina)
    BY <2>2 DEF MmuAcierto
  <2>3. CASE MmuFallo(p, pagina)
    BY <1>2, <2>1, <2>3 DEF MmuFallo, Next, HiloCpu
  <2> QED
    BY <1>2, <2>2, <2>3 DEF Mmu
<1>3. ASSUME caido = "",
             \/ \E p \in Procesos, bytes \in Tamanios : ResizeCpu(p, bytes)
             \/ PuedoCargar \/ ObtenerMarcoLibre \/ MoverInfo \/ ReservarInfo
             \/ OcuparMarco \/ EliminarPaginaTr \/ ResponderResize
             \/ SoltarNew("cpu") \/ SoltarOld("cpu")
      PROVE  Next
  BY <1>3, TraduccionAssumption DEF ResizeCpu, EliminarPaginaTr, Next, HiloCpu
<1>4. ASSUME UsarDato PROVE UNCHANGED vars
  BY <1>4 DEF UsarDato
<1>5. ASSUME EnviarAInterfaz PROVE SoloPedidos
  <2>1. [pid |-> acceso.pid, marco |-> acceso.marco] \in [pid: Procesos, marco: Marcos]
    BY <1>5, <1>t DEF EnviarAInterfaz
  <2> QED
    BY <1>5, <1>t, <2>1 DEF EnviarAInterfaz, restoDeMemoria, marcosVars
<1>6. ASSUME NEW r \in pedidos_io, InformarFin(r) \/ LeerIO(r) PROVE SoloPedidos
  BY <1>6, <1>t DEF InformarFin, LeerIO, AccederIO, restoDeMemoria, marcosVars
<1>7. ASSUME NEW r \in en_viaje, EscribirIO(r) PROVE UNCHANGED vars
  BY <1>7 DEF EscribirIO
<1>8. ASSUME UNCHANGED trVars \/ Terminado PROVE UNCHANGED vars
  BY <1>8 DEF trVars, Terminado
<1> QED
  BY <1>1, <1>2, <1>3, <1>4, <1>5, <1>6, <1>7, <1>8
  DEF TraduccionNext, HiloCpuTr, HilosIOTr

\* An action of the composition uses the TLB by its own rules or not at all.
LEMMA PasoDeTlb ==
  ASSUME TraduccionTypeOK, [TraduccionNext]_trVars
  PROVE  [TlbNext]_tlbVars
<1>1. ASSUME NEW p \in Procesos, NEW pagina \in Paginas, Mmu(p, pagina)
      PROVE  [TlbNext]_tlbVars
  <2>1. CASE MmuAcierto(p, pagina)
    <3>1. PICK i \in DOMAIN TLB : Acierto(i, pagina)
      BY <2>1 DEF MmuAcierto
    <3>2. TLB[i].nro_pagina = pagina
      BY <3>1 DEF Acierto, EsAcierto
    <3>3. CANT_ENTRADAS_TLB > 0
      BY <3>1, TlbAssumption DEF TraduccionTypeOK, TlbTypeOK
    <3> QED
      BY <3>1, <3>2, <3>3 DEF TlbNext
  <2>2. CASE MmuFallo(p, pagina)
    <3>1. CASE UNCHANGED tlbVars
      BY <3>1
    <3>2. CASE CANT_ENTRADAS_TLB # 0 /\ Actualizar(EntradaNueva(p, pagina)) /\ caido' = ""
      <4>1. pagina \in Paginas
        OBVIOUS
      <4>2. pagina + 1 \in DOMAIN tabla_paginas[p]
        <5>1. pagina < Len(tabla_paginas[p])
          BY <2>2, <3>2 DEF MmuFallo, ConsultaDePagina, Caer
        <5>2. pagina \in Nat /\ TypeOK
          BY <4>1 DEF Paginas, TraduccionTypeOK
        <5> QED
          BY <5>1, <5>2, TablaTipo
      <4>3. EntradaNueva(p, pagina) \in Elementos
        BY <4>1, <4>2, TablaTipo, TraduccionAssumption
        DEF EntradaNueva, TraduccionTypeOK
      <4>4. CANT_ENTRADAS_TLB > 0
        <5>1. CANT_ENTRADAS_TLB \in Nat /\ CANT_ENTRADAS_TLB # 0
          BY <3>2, TlbAssumption
        <5> QED
          BY <5>1
      <4> QED
        BY <3>2, <4>3, <4>4 DEF TlbNext
    <3> QED
      BY <2>2, <3>1, <3>2 DEF MmuFallo
  <2> QED
    BY <1>1, <2>1, <2>2 DEF Mmu
<1>2. ASSUME HiloKernelTr \/ UsarDato \/ EnviarAInterfaz \/ EliminarPaginaTr
             \/ HilosIOTr \/ UNCHANGED tlbVars
      PROVE  UNCHANGED tlbVars
  BY <1>2 DEF HiloKernelTr, UsarDato, EnviarAInterfaz, EliminarPaginaTr, HilosIOTr,
     InformarFin, LeerIO, EscribirIO
<1> QED
  BY <1>1, <1>2 DEF TraduccionNext, HiloCpuTr, trVars

LEMMA PedidosIInv ==
  ASSUME IInv, FueraDeLista, UNCHANGED restoDeMemoria,
         pedidos_io' \subseteq [pid: Procesos, marco: Marcos]
  PROVE  IInv' /\ FueraDeLista'
<1>1. TypeOK'
  BY DEF IInv, TypeOK, restoDeMemoria
<1>2. HilosCoherentes' /\ EnReposo' /\ FueraDeLista'
  BY DEF IInv, HilosCoherentes, EnReposo, FueraDeLista, restoDeMemoria
<1>3. MarcosExclusivos' /\ LibreSiiSinPagina'
  BY DEF IInv, MarcosExclusivos, LibreSiiSinPagina, restoDeMemoria
<1> QED
  BY <1>1, <1>2, <1>3 DEF IInv

\* What the MMU gets from memory for page pagina of p.
EsRespuesta(e, p, pagina) ==
  /\ p \in list_procss_recibidos
  /\ UNCHANGED <<list_procss_recibidos, tabla_paginas>>
  /\ pagina < Len(tabla_paginas[p])
  /\ e = EntradaNueva(p, pagina)

LEMMA RespuestaDeMemoria ==
  ASSUME NEW p, NEW pagina, Mmu(p, pagina), MmuFallo(p, pagina), caido' = ""
  PROVE  EsRespuesta(EntradaNueva(p, pagina), p, pagina)
<1>1. pagina < Len(tabla_paginas[p])
  BY DEF MmuFallo, ConsultaDePagina, Caer
<1>2. UNCHANGED <<list_procss_recibidos, tabla_paginas>>
  BY DEF MmuFallo, ConsultaDePagina, Caer
<1>3. p \in list_procss_recibidos
  BY DEF Mmu, Ejecuta
<1> QED
  BY <1>1, <1>2, <1>3 DEF EsRespuesta

\* A slot keeps its entry, and whether the page was returned, or gets the
\* answer of memory for a page of the process in execution.
SigueIgual(i) ==
  i \in DOMAIN TLB /\ TLB'[i] = TLB[i] /\ (i \in caducas => i \in caducas')

LEMMA PasoDeEntradas ==
  ASSUME TraduccionTypeOK, [TraduccionNext]_trVars
  PROVE  /\ DOMAIN TLB \subseteq DOMAIN TLB'
         /\ \A i \in DOMAIN TLB' :
              \/ SigueIgual(i)
              \/ \E p \in Procesos, pagina \in Paginas : EsRespuesta(TLB'[i], p, pagina)
<1> DEFINE Nueva(i) ==
             \E p \in Procesos, pagina \in Paginas : EsRespuesta(TLB'[i], p, pagina)
           Meta == /\ DOMAIN TLB \subseteq DOMAIN TLB'
                   /\ \A i \in DOMAIN TLB' : SigueIgual(i) \/ Nueva(i)
<1>1. ASSUME UNCHANGED TLB, caducas \subseteq caducas' PROVE Meta
  BY <1>1 DEF SigueIgual
<1>2. ASSUME NEW p \in Procesos, NEW pagina \in Paginas, Mmu(p, pagina) PROVE Meta
  <2>1. CASE MmuAcierto(p, pagina)
    BY <1>1, <2>1 DEF MmuAcierto, Acierto
  <2>2. CASE MmuFallo(p, pagina) /\ caido' # ""
    BY <1>1, <2>2 DEF MmuFallo, tlbVars
  <2>3. CASE MmuFallo(p, pagina) /\ caido' = ""
    <3> DEFINE e == EntradaNueva(p, pagina)
    <3>1. EsRespuesta(e, p, pagina)
      BY <1>2, <2>3, RespuestaDeMemoria
    <3>2. TLB \in Seq(Elementos)
      BY DEF TraduccionTypeOK, TlbTypeOK
    <3>3. caducas' = {i \in caducas : TLB'[i] = TLB[i]}
      BY <2>3 DEF MmuFallo
    <3>4. \/ TLB' = TLB
          \/ TLB' = Append(TLB, e)
          \/ TLB' = [TLB EXCEPT ![Victima(TLB_indices)] = e]
      BY <2>3 DEF MmuFallo, Actualizar, Agregar, Reemplazar, tlbVars
    <3> HIDE DEF e
    <3>5. /\ DOMAIN TLB \subseteq DOMAIN TLB'
          /\ \A i \in DOMAIN TLB' :
               (i \in DOMAIN TLB /\ TLB'[i] = TLB[i]) \/ TLB'[i] = e
      BY <3>2, <3>4
    <3>6. \A i \in DOMAIN TLB' : TLB'[i] = e => Nueva(i)
      BY <3>1
    <3> QED
      BY <3>3, <3>5, <3>6 DEF SigueIgual
  <2> QED
    BY <1>2, <2>1, <2>2, <2>3 DEF Mmu
<1>3. ASSUME \/ HiloKernelTr \/ UsarDato \/ EnviarAInterfaz \/ EliminarPaginaTr
             \/ HilosIOTr \/ UNCHANGED <<tlbVars, caducas>>
      PROVE  Meta
  BY <1>1, <1>3 DEF HiloKernelTr, UsarDato, EnviarAInterfaz, EliminarPaginaTr, HilosIOTr,
     InformarFin, LeerIO, EscribirIO, tlbVars
<1> QED
  BY <1>2, <1>3 DEF TraduccionNext, HiloCpuTr, trVars

LEMMA NextTipoDeAccesos ==
  ASSUME TraduccionTypeOK, [TraduccionNext]_trVars
  PROVE  /\ acceso' \in {SinAcceso} \union
              [pid: Procesos, pagina: Paginas, marco: Marcos, propia: BOOLEAN]
         /\ caducas' \subseteq DOMAIN TLB'
         /\ en_viaje' \subseteq [pid: Procesos, marco: Marcos]
<1> DEFINE Acceso == acceso' \in {SinAcceso} \union
                       [pid: Procesos, pagina: Paginas, marco: Marcos, propia: BOOLEAN]
           Tipos == /\ Acceso
                    /\ caducas' \subseteq DOMAIN TLB
                    /\ en_viaje' \subseteq [pid: Procesos, marco: Marcos]
<1>t. /\ acceso \in {SinAcceso} \union
           [pid: Procesos, pagina: Paginas, marco: Marcos, propia: BOOLEAN]
      /\ caducas \subseteq DOMAIN TLB
      /\ en_viaje \subseteq [pid: Procesos, marco: Marcos]
      /\ pedidos_io \subseteq [pid: Procesos, marco: Marcos]
  BY DEF TraduccionTypeOK, TypeOK
<1>1. ASSUME UNCHANGED <<acceso, caducas, en_viaje>> PROVE Tipos
  BY <1>1, <1>t
<1>2. ASSUME NEW p \in Procesos, NEW pagina \in Paginas, NEW m \in Marcos,
             NEW propia \in BOOLEAN, Traducido(p, pagina, m, propia)
      PROVE  Acceso
  BY <1>2 DEF Traducido
<1>3. ASSUME NEW p \in Procesos, NEW pagina \in Paginas, Mmu(p, pagina) PROVE Tipos
  <2>1. UNCHANGED en_viaje /\ caducas' \subseteq caducas
    BY <1>3 DEF Mmu, MmuAcierto, MmuFallo
  <2>2. CASE MmuAcierto(p, pagina)
    <3>1. PICK i \in DOMAIN TLB : Traducido(p, pagina, TLB[i].nro_marco,
                                            TLB[i].pid = p /\ i \notin caducas)
      BY <2>2 DEF MmuAcierto
    <3>2. TLB[i] \in Elementos
      BY DEF TraduccionTypeOK, TlbTypeOK
    <3>3. TLB[i].nro_marco \in Marcos
      BY <3>2, TraduccionAssumption
    <3>4. (TLB[i].pid = p /\ i \notin caducas) \in BOOLEAN
      OBVIOUS
    <3>5. Acceso
      BY <1>2, <3>1, <3>3, <3>4
    <3> QED
      BY <1>t, <2>1, <3>5
  <2>3. CASE MmuFallo(p, pagina) /\ caido' # ""
    BY <1>t, <2>1, <2>3 DEF MmuFallo
  <2>4. CASE MmuFallo(p, pagina) /\ caido' = ""
    <3>1. pagina < Len(tabla_paginas[p])
      BY <2>4 DEF MmuFallo, ConsultaDePagina, Caer
    <3>2. pagina \in Nat /\ TypeOK
      BY DEF Paginas, TraduccionTypeOK
    <3>3. tabla_paginas[p][pagina + 1] \in Marcos
      BY <3>1, <3>2, TablaTipo
    <3>4. Traducido(p, pagina, tabla_paginas[p][pagina + 1], TRUE)
      BY <2>4 DEF MmuFallo
    <3>5. Acceso
      BY <1>2, <3>3, <3>4
    <3> QED
      BY <1>t, <2>1, <3>5
  <2> QED
    BY <1>3, <2>2, <2>3, <2>4 DEF Mmu
<1>4. ASSUME UsarDato \/ EnviarAInterfaz PROVE Tipos
  BY <1>4, <1>t DEF UsarDato, EnviarAInterfaz
<1>5. ASSUME EliminarPaginaTr PROVE Tipos
  BY <1>5, <1>t DEF EliminarPaginaTr, EntradasDe
<1>6. ASSUME NEW r \in pedidos_io, InformarFin(r) \/ LeerIO(r) PROVE Tipos
  BY <1>6, <1>t DEF InformarFin, LeerIO
<1>7. ASSUME NEW r \in en_viaje, EscribirIO(r) PROVE Tipos
  BY <1>7, <1>t DEF EscribirIO
<1>8. Tipos
  BY <1>1, <1>3, <1>4, <1>5, <1>6, <1>7
  DEF TraduccionNext, HiloKernelTr, HiloCpuTr, HilosIOTr, trVars
<1>9. DOMAIN TLB \subseteq DOMAIN TLB'
  BY PasoDeEntradas
<1> QED
  BY <1>8, <1>9

LEMMA NextTrInv == ASSUME TrInv, [TraduccionNext]_trVars PROVE TrInv'
<1>1. IInv' /\ FueraDeLista'
  BY PasoDeMemoria, PedidosIInv, NextIInv, NextFueraDeLista DEF TrInv
<1>2. Inv'
  BY PasoDeTlb, InvPaso DEF TrInv
<1>3. TypeOK' /\ TlbTypeOK'
  BY <1>1, <1>2 DEF IInv, Inv
<1>4. TraduccionTypeOK'
  BY <1>3, NextTipoDeAccesos DEF TraduccionTypeOK, TrInv
<1> QED
  BY <1>1, <1>2, <1>4 DEF TrInv

LEMMA SpecTrInv == TraduccionSpec => []TrInv
<1>1. TraduccionInit => TrInv
  <2> SUFFICES ASSUME TraduccionInit PROVE TrInv
    OBVIOUS
  <2>1. IInv /\ FueraDeLista
    BY InitIInv, InitFueraDeLista DEF TraduccionInit
  <2>2. Inv
    BY InvInicial DEF TraduccionInit
  <2>3. TraduccionTypeOK
    BY <2>1, <2>2 DEF TraduccionInit, TraduccionTypeOK, IInv, Inv
  <2> QED
    BY <2>1, <2>2, <2>3 DEF TrInv
<1>2. TrInv /\ [TraduccionNext]_trVars => TrInv'
  BY NextTrInv
<1> QED
  BY <1>1, <1>2, PTL DEF TraduccionSpec

\* Every variable of the composition keeps its type: the MMU asks memory for
\* pages of the tables and loads what elemento_TLB holds.
THEOREM TraduccionTipos == TraduccionSpec => []TraduccionTypeOK
<1>1. TrInv => TraduccionTypeOK
  BY DEF TrInv
<1> QED
  BY <1>1, SpecTrInv, PTL

\* The MMU (mmu.c) touches the TLB only by hits on entries that are there and
\* by loads of pages that are not, so that what holds of Tlb holds here.
THEOREM TraduccionUsaLaTlb == TraduccionSpec => UsaLaTlb
<1>1. TraduccionInit => TlbInit
  BY DEF TraduccionInit
<1>2. TrInv /\ [TraduccionNext]_trVars => [TlbNext]_tlbVars
  BY PasoDeTlb DEF TrInv
<1> QED
  BY <1>1, <1>2, SpecTrInv, PTL DEF TraduccionSpec, UsaLaTlb, TlbSpec

\* With programs, page tables and a memory that runs beside it, the TLB is
\* still a FIFO or LRU queue of entries.
THEOREM TraduccionEsCola == TraduccionSpec => ImplementaCola
  BY TraduccionUsaLaTlb, TlbEsCola, PTL DEF UsaLaTlb

\* The frames of the composition are as exclusive as those of memory alone.
THEOREM TraduccionMarcosExclusivos == TraduccionSpec => []MarcosExclusivos
<1>1. TrInv => MarcosExclusivos
  BY DEF TrInv, IInv
<1> QED
  BY <1>1, SpecTrInv, PTL

-----------------------------------------------------------------------------
(* The accesses *)

\* Pids are given once, so the entries of a process that has not begun are
\* nobody's.
EntradasDeCreados == \A i \in DOMAIN TLB : TLB[i].pid \in creados

\* The process of a translated access is in memory and asks nothing else.
AccesoVigente ==
  acceso # SinAcceso => /\ acceso.pid \in list_procss_recibidos
                        /\ hilo["cpu"].pc = "reposo"

AccesoInv ==
  /\ EntradasDeCreados
  /\ AccesoVigente
  /\ TlbCoherente
  /\ AccesoPropio

\* Page n of p is in the table after a step, in the same frame.
PaginaQueda(p, n) ==
  n < Len(tabla_paginas'[p]) /\ tabla_paginas'[p][n + 1] = tabla_paginas[p][n + 1]

\* The pages of the processes in memory stay where they are, but the last one
\* of that whose RESIZE is returning it.
PaginasQuedan ==
  /\ creados \subseteq creados'
  /\ \A p \in list_procss_recibidos' :
       p \in list_procss_recibidos \/ p \notin creados
  /\ \A p \in list_procss_recibidos : \A n \in Nat :
       n < Len(tabla_paginas[p]) =>
         \/ PaginaQueda(p, n)
         \/ /\ EliminarPaginaTr
            /\ p = hilo["cpu"].pid /\ n = Len(tabla_paginas[p]) - 1

LEMMA PasoDeTablas ==
  ASSUME TrInv, [TraduccionNext]_trVars
  PROVE  PaginasQuedan
<1>0. TypeOK /\ IInv /\ FueraDeLista
  BY DEF TrInv, IInv
<1>t. /\ list_procss_recibidos \subseteq creados /\ creados \subseteq Procesos
      /\ tabla_paginas \in [Procesos -> Seq(Marcos)]
  BY <1>0 DEF TypeOK
<1>1. ASSUME UNCHANGED <<list_procss_recibidos, creados, tabla_paginas>>
      PROVE  PaginasQuedan
  BY <1>1 DEF PaginaQueda, PaginasQuedan
<1>2. ASSUME NEW p \in Procesos, IniciarEstructura(p) PROVE PaginasQuedan
  <2>1. tabla_paginas[p] = <<>>
    BY <1>0, <1>2 DEF IniciarEstructura, IInv, EnReposo
  <2>2. tabla_paginas' = tabla_paginas
    BY <1>2, <1>t, <2>1 DEF IniciarEstructura
  <2> QED
    BY <1>2, <2>2 DEF IniciarEstructura, PaginaQueda, PaginasQuedan
<1>3. ASSUME NEW p \in Procesos, LiberarEstructura(p) PROVE PaginasQuedan
  BY <1>3 DEF LiberarEstructura, PaginaQueda, PaginasQuedan
<1>4. ASSUME DestruirPagina PROVE PaginasQuedan
  <2>1. hilo["kernel"].pid \notin list_procss_recibidos
    BY <1>0, <1>4 DEF DestruirPagina, FueraDeLista
  <2>2. \A p \in list_procss_recibidos : tabla_paginas'[p] = tabla_paginas[p]
    BY <1>4, <1>t, <2>1 DEF DestruirPagina
  <2> QED
    BY <1>4, <2>2 DEF DestruirPagina, PaginaQueda, PaginasQuedan
<1>5. ASSUME OcuparMarco PROVE PaginasQuedan
  <2> DEFINE c == hilo["cpu"]
             t == tabla_paginas[c.pid]
  <2>1. c.pid \in Procesos /\ c.marco \in Marcos
    BY <1>0, <1>5, <1>t DEF OcuparMarco, IInv, HilosCoherentes
  <2>2. /\ tabla_paginas'[c.pid] = Append(t, c.marco)
        /\ \A q \in Procesos \ {c.pid} : tabla_paginas'[q] = tabla_paginas[q]
    BY <1>5, <1>t, <2>1 DEF OcuparMarco
  <2>3. t \in Seq(Marcos) /\ Len(t) \in Nat
    BY <1>0, <2>1, TablaTipo
  <2>4. /\ Len(Append(t, c.marco)) = Len(t) + 1
        /\ \A i \in 1..Len(t) : Append(t, c.marco)[i] = t[i]
    BY <2>1, <2>3, AppendProperties
  <2>5. \A n \in Nat : n < Len(t) => PaginaQueda(c.pid, n)
    BY <2>2, <2>3, <2>4 DEF PaginaQueda
  <2>6. \A q \in Procesos \ {c.pid}, n \in Nat :
          n < Len(tabla_paginas[q]) => PaginaQueda(q, n)
    BY <2>2 DEF PaginaQueda
  <2> HIDE DEF c
  <2> QED
    BY <1>5, <1>t, <2>5, <2>6 DEF OcuparMarco, PaginasQuedan
<1>6. ASSUME EliminarPaginaTr PROVE PaginasQuedan
  <2> DEFINE c == hilo["cpu"]
             t == tabla_paginas[c.pid]
  <2>1. EliminarPagina
    BY <1>6 DEF EliminarPaginaTr
  <2>2. c.pid \in Procesos
    BY <1>0, <1>t, <2>1 DEF EliminarPagina, IInv, HilosCoherentes
  <2>3. t \in Seq(Marcos) /\ Len(t) \in Nat
    BY <1>0, <2>2, TablaTipo
  <2>4. Len(t) > 0
    <3>1. c.pc \in EnReduccion /\ c.faltan > 0
      BY <2>1 DEF EliminarPagina, EnReduccion
    <3>2. c.faltan <= Len(t)
      BY <1>0, <3>1 DEF IInv, HilosCoherentes
    <3>3. c.faltan \in Nat
      BY <1>0, HiloTipo DEF Hilos, EstadoHilo
    <3> QED
      BY <2>3, <3>1, <3>2, <3>3
  <2>5. /\ tabla_paginas'[c.pid] = SubSeq(t, 1, Len(t) - 1)
        /\ \A q \in Procesos \ {c.pid} : tabla_paginas'[q] = tabla_paginas[q]
    BY <1>t, <2>1, <2>2 DEF EliminarPagina
  <2>6. /\ Len(SubSeq(t, 1, Len(t) - 1)) = Len(t) - 1
        /\ \A i \in 1..(Len(t) - 1) : SubSeq(t, 1, Len(t) - 1)[i] = t[i]
    BY <2>3, <2>4, SubSeqProperties
  <2>7. \A n \in Nat : n < Len(t) => PaginaQueda(c.pid, n) \/ n = Len(t) - 1
    BY <2>3, <2>5, <2>6 DEF PaginaQueda
  <2>8. \A q \in Procesos \ {c.pid}, n \in Nat :
          n < Len(tabla_paginas[q]) => PaginaQueda(q, n)
    BY <2>5 DEF PaginaQueda
  <2>9. UNCHANGED <<list_procss_recibidos, creados>>
    BY <2>1 DEF EliminarPagina
  <2> HIDE DEF c
  <2> QED
    BY <1>6, <1>t, <2>7, <2>8, <2>9 DEF c, PaginasQuedan
<1>7. ASSUME \/ \E p \in Procesos : LiberarDesconocido(p)
             \/ FinDestruir \/ SoltarNew("kernel") \/ SoltarOld("kernel")
      PROVE  PaginasQuedan
  BY <1>1, <1>7 DEF LiberarDesconocido, FinDestruir, SoltarNew, SoltarOld, Caer
<1>8. ASSUME NEW p \in Procesos, NEW pagina \in Paginas, Mmu(p, pagina)
      PROVE  PaginasQuedan
  BY <1>1, <1>8 DEF Mmu, MmuAcierto, MmuFallo, ConsultaDePagina, Caer, vars
<1>9. ASSUME \/ \E p \in Procesos, bytes \in Tamanios : ResizeCpu(p, bytes)
             \/ PuedoCargar \/ ObtenerMarcoLibre \/ MoverInfo \/ ReservarInfo
             \/ ResponderResize \/ SoltarNew("cpu") \/ SoltarOld("cpu")
      PROVE  PaginasQuedan
  BY <1>1, <1>9 DEF ResizeCpu, Resize, PuedoCargar, ObtenerMarcoLibre, MoverInfo,
     ReservarInfo, ResponderResize, SoltarNew, SoltarOld, Caer
<1>10. ASSUME UsarDato \/ EnviarAInterfaz \/ HilosIOTr \/ Terminado \/ UNCHANGED trVars
       PROVE  PaginasQuedan
  BY <1>1, <1>10 DEF UsarDato, EnviarAInterfaz, HilosIOTr, InformarFin, LeerIO,
     AccederIO, EscribirIO, Terminado, trVars, vars
<1> QED
  BY <1>2, <1>3, <1>4, <1>5, <1>6, <1>7, <1>8, <1>9, <1>10
  DEF TraduccionNext, HiloKernelTr, HiloCpuTr

AccesoQueda ==
  /\ acceso'.pid \in list_procss_recibidos \intersect list_procss_recibidos'
  /\ hilo'["cpu"].pc = "reposo"
  /\ ~EliminarPaginaTr
  /\ \/ acceso' = acceso
     \/ \E p \in Procesos, pagina \in Paginas : Mmu(p, pagina) /\ caido' = ""

\* What an action does with the access: the MMU leaves one of a process in
\* memory, the process that has one is not released, and the use of it ends it.
LEMMA PasoDeAcceso ==
  ASSUME TrInv, AccesoVigente, [TraduccionNext]_trVars, acceso' # SinAcceso
  PROVE  AccesoQueda
<1>0. TypeOK
  BY DEF TrInv, IInv
<1>e. ASSUME EliminarPaginaTr PROVE FALSE
  BY <1>e DEF EliminarPaginaTr, EliminarPagina, AccesoVigente
<1>1. ASSUME UNCHANGED acceso,
             acceso.pid \in list_procss_recibidos',
             hilo' = hilo \/ \E r : Sigue("kernel", r)
      PROVE  AccesoQueda
  <2>1. hilo'["cpu"] = hilo["cpu"]
    BY <1>0, <1>1, SigueValor DEF Hilos
  <2> QED
    BY <1>1, <1>e, <2>1 DEF AccesoVigente, AccesoQueda
<1>2. ASSUME NEW c, Caer(c), UNCHANGED acceso PROVE AccesoQueda
  BY <1>1, <1>2 DEF Caer, AccesoVigente
<1>3. ASSUME HiloKernelTr PROVE AccesoQueda
  <2>1. UNCHANGED acceso /\ acceso # SinAcceso
    BY <1>3 DEF HiloKernelTr
  <2>2. ASSUME NEW p \in Procesos, IniciarEstructura(p) PROVE AccesoQueda
    BY <1>1, <2>1, <2>2 DEF IniciarEstructura, AccesoVigente
  <2>3. ASSUME NEW p \in Procesos, p # acceso.pid, LiberarEstructura(p) PROVE AccesoQueda
    BY <1>1, <2>1, <2>3 DEF LiberarEstructura, AccesoVigente
  <2>4. ASSUME NEW p \in Procesos, LiberarDesconocido(p) PROVE AccesoQueda
    BY <1>2, <2>1, <2>4 DEF LiberarDesconocido
  <2>5. ASSUME DestruirPagina \/ FinDestruir \/ SoltarNew("kernel") \/ SoltarOld("kernel")
        PROVE  AccesoQueda
    <3>1. (\E c : Caer(c)) \/ /\ UNCHANGED list_procss_recibidos
                              /\ \E r : Sigue("kernel", r)
      BY <2>5 DEF DestruirPagina, FinDestruir, SoltarNew, SoltarOld
    <3> QED
      BY <1>1, <1>2, <2>1, <3>1 DEF AccesoVigente
  <2> QED
    BY <1>3, <2>2, <2>3, <2>4, <2>5 DEF HiloKernelTr
<1>4. ASSUME NEW p \in Procesos, NEW pagina \in Paginas, Mmu(p, pagina), caido = ""
      PROVE  AccesoQueda
  <2>1. acceso = SinAcceso /\ hilo["cpu"].pc = "reposo" /\ p \in list_procss_recibidos
    BY <1>4 DEF Mmu, Ejecuta
  <2>2. CASE MmuAcierto(p, pagina)
    <3>1. PICK i \in DOMAIN TLB : Traducido(p, pagina, TLB[i].nro_marco,
                                            TLB[i].pid = p /\ i \notin caducas)
      BY <2>2 DEF MmuAcierto
    <3>2. acceso'.pid = p
      BY <3>1 DEF Traducido
    <3>3. UNCHANGED <<list_procss_recibidos, hilo, caido>>
      BY <2>2 DEF MmuAcierto, vars
    <3> QED
      BY <1>4, <1>e, <2>1, <3>2, <3>3 DEF AccesoQueda
  <2>3. CASE MmuFallo(p, pagina)
    <3>1. caido' = ""
      BY <2>1, <2>3 DEF MmuFallo
    <3>2. acceso'.pid = p
      <4>1. Traducido(p, pagina, tabla_paginas[p][pagina + 1], TRUE)
        BY <2>3, <3>1 DEF MmuFallo
      <4> QED
        BY <4>1 DEF Traducido
    <3>3. UNCHANGED <<list_procss_recibidos, hilo>>
      BY <2>3 DEF MmuFallo, ConsultaDePagina, Caer
    <3> QED
      BY <1>4, <1>e, <2>1, <3>1, <3>2, <3>3 DEF AccesoQueda
  <2> QED
    BY <1>4, <2>2, <2>3 DEF Mmu
<1>5. ASSUME UsarDato \/ EnviarAInterfaz PROVE FALSE
  BY <1>5 DEF UsarDato, EnviarAInterfaz
<1>6. ASSUME NEW p \in Procesos, NEW bytes, ResizeCpu(p, bytes), UNCHANGED acceso
      PROVE  FALSE
  BY <1>6 DEF ResizeCpu
<1>7. ASSUME PuedoCargar \/ ObtenerMarcoLibre \/ MoverInfo \/ ReservarInfo
             \/ OcuparMarco \/ ResponderResize
             \/ SoltarNew("cpu") \/ SoltarOld("cpu"), UNCHANGED acceso
      PROVE  FALSE
  <2>1. hilo["cpu"].pc # "reposo"
    BY <1>7 DEF PuedoCargar, ObtenerMarcoLibre, MoverInfo, ReservarInfo, OcuparMarco,
       ResponderResize, BucleTerminado, SoltarNew, SoltarOld
  <2> QED
    BY <1>7, <2>1 DEF AccesoVigente
<1>8. ASSUME \/ HilosIOTr \/ UNCHANGED trVars
             \/ Terminado /\ UNCHANGED <<tlbVars, acceso, caducas, en_viaje>>
      PROVE  AccesoQueda
  <2>1. UNCHANGED <<acceso, list_procss_recibidos, hilo>>
    BY <1>8 DEF HilosIOTr, InformarFin, LeerIO, AccederIO, EscribirIO, Terminado,
       trVars, vars
  <2> QED
    BY <1>1, <2>1 DEF AccesoVigente
<1>9. ASSUME caido = "", HiloCpuTr PROVE AccesoQueda
  BY <1>4, <1>5, <1>6, <1>7, <1>e, <1>9 DEF HiloCpuTr
<1> QED
  BY <1>3, <1>8, <1>9 DEF TraduccionNext

LEMMA ElementoTipo ==
  ASSUME TrInv
  PROVE  \A i \in DOMAIN TLB : /\ TLB[i] \in Elementos
                               /\ TLB[i].nro_pagina \in Nat
                               /\ TLB[i].pid \in Procesos
                               /\ TLB[i].nro_marco \in Marcos
<1>1. \A i \in DOMAIN TLB : TLB[i] \in Elementos
  BY DEF TrInv, TraduccionTypeOK, TlbTypeOK
<1> QED
  BY <1>1, TlbAssumption, TraduccionAssumption

\* Entry e is that of the table of its process, before and after a step.
EnTabla(e) ==
  /\ e.nro_pagina < Len(tabla_paginas[e.pid])
  /\ tabla_paginas[e.pid][e.nro_pagina + 1] = e.nro_marco

EnTablaDespues(e) ==
  /\ e.nro_pagina < Len(tabla_paginas'[e.pid])
  /\ tabla_paginas'[e.pid][e.nro_pagina + 1] = e.nro_marco

LEMMA NextEntradas ==
  ASSUME TrInv, AccesoInv, [TraduccionNext]_trVars
  PROVE  EntradasDeCreados' /\ TlbCoherente'
<1>0. /\ list_procss_recibidos \subseteq creados /\ PaginasQuedan
      /\ list_procss_recibidos \subseteq Procesos
      /\ EntradasDeCreados /\ TlbCoherente
  BY PasoDeTablas DEF TrInv, IInv, TypeOK, AccesoInv
<1>1. ASSUME NEW i \in DOMAIN TLB'
      PROVE  /\ TLB'[i].pid \in creados'
             /\ i \notin caducas' /\ TLB'[i].pid \in list_procss_recibidos'
                  => EnTablaDespues(TLB'[i])
  <2>1. CASE SigueIgual(i)
    <3> DEFINE e == TLB[i]
    <3>1. i \in DOMAIN TLB /\ TLB'[i] = e /\ (i \notin caducas' => i \notin caducas)
      BY <2>1 DEF SigueIgual
    <3>2. e.pid \in creados /\ e.nro_pagina \in Nat
      BY <1>0, <3>1, ElementoTipo DEF EntradasDeCreados
    <3>3. ASSUME i \notin caducas', e.pid \in list_procss_recibidos'
          PROVE  EnTablaDespues(e)
      <4>1. e.pid \in list_procss_recibidos
        BY <1>0, <3>2, <3>3 DEF PaginasQuedan
      <4>2. EnTabla(e)
        BY <1>0, <3>1, <3>3, <4>1 DEF TlbCoherente, EnTabla
      <4>3. CASE PaginaQueda(e.pid, e.nro_pagina)
        BY <4>2, <4>3 DEF PaginaQueda, EnTabla, EnTablaDespues
      <4>4. CASE /\ EliminarPaginaTr
                 /\ e.pid = hilo["cpu"].pid
                 /\ e.nro_pagina = Len(tabla_paginas[e.pid]) - 1
        <5>1. i \in EntradasDe(hilo["cpu"].pid, Len(tabla_paginas[hilo["cpu"].pid]) - 1)
          BY <3>1, <4>4 DEF EntradasDe
        <5> QED
          BY <3>3, <4>4, <5>1 DEF EliminarPaginaTr
      <4> HIDE DEF e
      <4> QED
        BY <1>0, <3>2, <4>1, <4>2, <4>3, <4>4 DEF PaginasQuedan, EnTabla
    <3> HIDE DEF e
    <3> QED
      BY <1>0, <3>1, <3>2, <3>3 DEF PaginasQuedan
  <2>2. ASSUME NEW p \in Procesos, NEW pagina \in Paginas, EsRespuesta(TLB'[i], p, pagina)
        PROVE  TLB'[i].pid \in creados' /\ EnTablaDespues(TLB'[i])
    <3>1. /\ TLB'[i].pid = p /\ TLB'[i].nro_pagina = pagina
          /\ TLB'[i].nro_marco = tabla_paginas[p][pagina + 1]
      BY <2>2 DEF EsRespuesta, EntradaNueva
    <3>2. p \in creados'
      BY <1>0, <2>2 DEF EsRespuesta, PaginasQuedan
    <3> QED
      BY <2>2, <3>1, <3>2 DEF EsRespuesta, EnTablaDespues
  <2>3. \/ SigueIgual(i)
        \/ \E p \in Procesos, pagina \in Paginas : EsRespuesta(TLB'[i], p, pagina)
    BY PasoDeEntradas DEF TrInv
  <2> QED
    BY <2>1, <2>2, <2>3
<1> QED
  BY <1>1 DEF EntradasDeCreados, TlbCoherente, EnTablaDespues

\* A translated access keeps its page, and a new one that is `propia' has the
\* page of a coherent entry or of the answer of memory.
LEMMA NextAcceso ==
  ASSUME TrInv, [TraduccionNext]_trVars, AccesoVigente,
         acceso' # SinAcceso,
         acceso' = acceso => EnSuPagina(acceso),
         \A p \in Procesos, pagina \in Paginas, i \in DOMAIN TLB :
           Mmu(p, pagina) /\ Acierto(i, pagina)
           /\ Traducido(p, pagina, TLB[i].nro_marco, TLB[i].pid = p /\ i \notin caducas)
             => EnTabla([TLB[i] EXCEPT !.pid = p])
  PROVE  /\ acceso'.pagina < Len(tabla_paginas'[acceso'.pid])
         /\ tabla_paginas'[acceso'.pid][acceso'.pagina + 1] = acceso'.marco
<1> DEFINE Meta == /\ acceso'.pagina < Len(tabla_paginas'[acceso'.pid])
                   /\ tabla_paginas'[acceso'.pid][acceso'.pagina + 1] = acceso'.marco
<1>0. /\ PaginasQuedan /\ AccesoQueda
      /\ acceso \in {SinAcceso} \union
           [pid: Procesos, pagina: Paginas, marco: Marcos, propia: BOOLEAN]
  BY PasoDeTablas, PasoDeAcceso DEF TrInv, TraduccionTypeOK
<1>1. CASE acceso' = acceso
  <2>1. acceso.pid \in list_procss_recibidos /\ acceso.pagina \in Nat /\ EnSuPagina(acceso)
    BY <1>0, <1>1 DEF AccesoQueda, Paginas
  <2>2. PaginaQueda(acceso.pid, acceso.pagina)
    BY <1>0, <2>1 DEF PaginasQuedan, AccesoQueda, EnSuPagina
  <2> QED
    BY <1>1, <2>1, <2>2 DEF PaginaQueda, EnSuPagina
<1>2. ASSUME NEW p \in Procesos, NEW pagina \in Paginas, Mmu(p, pagina), caido' = ""
      PROVE  Meta
  <2>1. CASE MmuAcierto(p, pagina)
    <3>1. PICK i \in DOMAIN TLB :
            /\ Acierto(i, pagina)
            /\ Traducido(p, pagina, TLB[i].nro_marco, TLB[i].pid = p /\ i \notin caducas)
      BY <2>1 DEF MmuAcierto
    <3>2. TLB[i].nro_pagina = pagina
      BY <3>1 DEF Acierto, EsAcierto
    <3>3. TLB[i] \in [nro_pagina: Paginas, nro_marco: Marcos, pid: Procesos]
      BY ElementoTipo, TraduccionAssumption
    <3>4. EnTabla([TLB[i] EXCEPT !.pid = p])
      BY <1>2, <3>1
    <3>5. /\ pagina < Len(tabla_paginas[p])
          /\ tabla_paginas[p][pagina + 1] = TLB[i].nro_marco
      BY <3>2, <3>3, <3>4 DEF EnTabla
    <3>6. tabla_paginas' = tabla_paginas
      BY <2>1 DEF MmuAcierto, vars
    <3>7. acceso'.pid = p /\ acceso'.pagina = pagina /\ acceso'.marco = TLB[i].nro_marco
      BY <3>1 DEF Traducido
    <3> QED
      BY <3>5, <3>6, <3>7
  <2>2. CASE MmuFallo(p, pagina)
    <3>1. EsRespuesta(EntradaNueva(p, pagina), p, pagina)
      BY <1>2, <2>2, RespuestaDeMemoria
    <3>2. Traducido(p, pagina, tabla_paginas[p][pagina + 1], TRUE)
      BY <1>2, <2>2 DEF MmuFallo
    <3> QED
      BY <3>1, <3>2 DEF Traducido, EsRespuesta
  <2> QED
    BY <1>2, <2>1, <2>2 DEF Mmu
<1> QED
  BY <1>0, <1>1, <1>2 DEF AccesoQueda

LEMMA NextAccesoInv ==
  ASSUME TrInv, AccesoInv, [TraduccionNext]_trVars
  PROVE  AccesoInv'
<1>a. AccesoVigente /\ TlbCoherente /\ AccesoPropio
  BY DEF AccesoInv
<1>1. EntradasDeCreados' /\ TlbCoherente'
  BY NextEntradas
<1>2. AccesoVigente'
  BY <1>a, PasoDeAcceso DEF AccesoVigente, AccesoQueda, SinAcceso
<1>3. AccesoPropio'
  <2> SUFFICES ASSUME acceso' # SinAcceso, acceso'.propia
               PROVE  /\ acceso'.pagina < Len(tabla_paginas'[acceso'.pid])
                      /\ tabla_paginas'[acceso'.pid][acceso'.pagina + 1] = acceso'.marco
    BY DEF AccesoPropio, EnSuPagina, SinAcceso
  <2>1. acceso' = acceso => EnSuPagina(acceso)
    BY <1>a DEF AccesoPropio
  <2>2. ASSUME NEW p \in Procesos, NEW pagina \in Paginas, NEW i \in DOMAIN TLB,
               Mmu(p, pagina), Acierto(i, pagina),
               Traducido(p, pagina, TLB[i].nro_marco, TLB[i].pid = p /\ i \notin caducas)
        PROVE  EnTabla([TLB[i] EXCEPT !.pid = p])
    <3>1. TLB[i].pid = p /\ i \notin caducas
      BY <2>2 DEF Traducido
    <3>2. TLB[i] \in [nro_pagina: Paginas, nro_marco: Marcos, pid: Procesos]
      BY ElementoTipo, TraduccionAssumption
    <3>3. [TLB[i] EXCEPT !.pid = p] = TLB[i]
      BY <3>1, <3>2
    <3>4. p \in list_procss_recibidos
      BY <2>2 DEF Mmu, Ejecuta
    <3> QED
      BY <1>a, <3>1, <3>3, <3>4 DEF TlbCoherente, EnTabla
  <2> QED
    BY <1>a, <2>1, <2>2, NextAcceso
<1> QED
  BY <1>1, <1>2, <1>3 DEF AccesoInv

LEMMA SpecAccesoInv == TraduccionSpec => []AccesoInv
<1>1. TraduccionInit => AccesoInv
  <2> SUFFICES ASSUME TraduccionInit PROVE AccesoInv
    OBVIOUS
  <2>1. DOMAIN TLB = {} /\ acceso = SinAcceso
    BY DEF TraduccionInit, TlbInit
  <2> QED
    BY <2>1 DEF AccesoInv, EntradasDeCreados, AccesoVigente, TlbCoherente, AccesoPropio
<1>2. TrInv /\ AccesoInv /\ [TraduccionNext]_trVars => AccesoInv'
  BY NextAccesoInv
<1> QED
  BY <1>1, <1>2, SpecTrInv, PTL DEF TraduccionSpec

\* Whatever the programs address and however their sizes change, an entry of a
\* process in memory is that of its table until the process returns the page:
\* growing, and the coming and going of others, never make one stale.
THEOREM TraduccionTlbCoherente == TraduccionSpec => []TlbCoherente
<1>1. AccesoInv => TlbCoherente
  BY DEF AccesoInv
<1> QED
  BY <1>1, SpecAccesoInv, PTL

\* The frame that the MMU gives to an instruction is that of its page until
\* the instruction has used it, unless the entry that answered is of another
\* process or of a page returned to memory since it was loaded.
THEOREM TraduccionAccesoPropio == TraduccionSpec => []AccesoPropio
<1>1. AccesoInv => AccesoPropio
  BY DEF AccesoInv
<1> QED
  BY <1>1, SpecAccesoInv, PTL

\* With no TLB every access is in its page: a table only changes, while an
\* instruction has an access, by what other processes do.
THEOREM TraduccionSinTlb ==
  CANT_ENTRADAS_TLB = 0 => (TraduccionSpec => []AccesoEnSuPagina)
<1> SUFFICES ASSUME CANT_ENTRADAS_TLB = 0
             PROVE  TraduccionSpec => []AccesoEnSuPagina
  OBVIOUS
<1>1. TraduccionInit => AccesoEnSuPagina
  BY DEF TraduccionInit, AccesoEnSuPagina
<1>2. TrInv /\ AccesoInv /\ AccesoEnSuPagina /\ [TraduccionNext]_trVars
        => AccesoEnSuPagina'
  <2> SUFFICES ASSUME TrInv, AccesoInv, AccesoEnSuPagina, [TraduccionNext]_trVars,
                      acceso' # SinAcceso
               PROVE  /\ acceso'.pagina < Len(tabla_paginas'[acceso'.pid])
                      /\ tabla_paginas'[acceso'.pid][acceso'.pagina + 1] = acceso'.marco
    BY DEF AccesoEnSuPagina, EnSuPagina, SinAcceso
  <2>1. DOMAIN TLB = {}
    <3>1. TLB \in Seq(Elementos) /\ Len(TLB) <= 0
      BY DEF TrInv, TraduccionTypeOK, TlbTypeOK
    <3> QED
      BY <3>1
  <2>2. AccesoVigente /\ (acceso' = acceso => EnSuPagina(acceso))
    BY DEF AccesoInv, AccesoEnSuPagina
  <2> QED
    BY <2>1, <2>2, NextAcceso
<1> QED
  BY <1>1, <1>2, SpecTrInv, SpecAccesoInv, PTL DEF TraduccionSpec
==============================================================================
