------------------------------- MODULE Memoria -------------------------------
(***************************************************************************)
(* The memory process (memoria/src): the processes it knows, their page    *)
(* tables, the frame list and the blocks of per-frame information, as the  *)
(* threads of memoria.c change them.  One thread serves the kernel         *)
(* (creation and release of a process), one serves the CPU (RESIZE, page   *)
(* queries), and one per interface serves physical reads and writes.       *)
(*                                                                         *)
(* A step is the stretch between two points where another thread can get   *)
(* in: neither the `libre' flag nor the info blocks of a frame are         *)
(* protected by a mutex, only the traversals of lst_marco and              *)
(* list_procss_recibidos are.                                              *)
(***************************************************************************)
EXTENDS Integers, Sequences, FiniteSets

CONSTANTS
  Procesos,           \* the pids the kernel may create, each at most once
  CantMarcos,         \* TAM_MEMORIA / TAM_PAGINA
  TAM_PAGINA,         \* bytes of a page
  MaxTamanio,         \* bound: largest size, in bytes, a RESIZE asks for
  Bloques,            \* identities of the heap blocks malloc can return
  NULO,               \* the NULL pointer, and "no process"
  FinalizaBloqueados, \* whether the kernel may release a process whose I/O
                      \* is still pending (FINALIZAR_PROCESO of a BLOCKED one)
  LiberaAusentes      \* whether it may release one memoria does not have:
                      \* FINALIZAR_PROCESO of a NEW one, or of one that
                      \* another of its threads has ended

ASSUME MemoriaAssumption ==
  /\ CantMarcos \in Nat
  /\ TAM_PAGINA \in Nat \ {0}
  /\ MaxTamanio \in Nat
  /\ NULO \notin Procesos
  /\ NULO \notin Bloques
  /\ NULO \notin 0..(CantMarcos - 1)
  /\ FinalizaBloqueados \in BOOLEAN
  /\ LiberaAusentes \in BOOLEAN

Marcos == 0..(CantMarcos - 1)

Hilos == {"kernel", "cpu"}

VARIABLES
  list_procss_recibidos, \* pids in the list of received processes
  creados,               \* pids the kernel has already asked to create
  tabla_paginas,         \* pid -> sequence of frame numbers, by page number
  libre,                 \* frame -> its flag `libre'
  info_new,              \* frame -> block it points to, or NULO
  info_old,
  heap,                  \* blocks malloc'ed and not yet freed
  hilo,                  \* the two threads that change the structures
  pedidos_io,            \* physical accesses interfaces still have to make
  respuesta,             \* kind of the last answer sent to the CPU
  caido                  \* the memory process has died, and of what

vars == <<list_procss_recibidos, creados, tabla_paginas, libre, info_new,
          info_old, heap, hilo, pedidos_io, respuesta, caido>>

marcosVars == <<libre, info_new, info_old, heap>>

-----------------------------------------------------------------------------
(* Types *)

PcKernel == {"reposo", "destruir", "soltar_new", "soltar_old"}
PcCpu == {"reposo", "ampliar", "agregar", "elegido", "movido", "reservado",
          "eliminar", "soltar_new", "soltar_old"}

EstadoHilo == [pc: PcKernel \union PcCpu, pid: Procesos \union {NULO},
               faltan: Nat, marco: Marcos \union {NULO}]

Causas == {"", "doble free", "sin marco", "pagina inexistente",
           "pid desconocido"}

TypeOK ==
  /\ list_procss_recibidos \subseteq creados
  /\ creados \subseteq Procesos
  /\ tabla_paginas \in [Procesos -> Seq(Marcos)]
  /\ libre \in [Marcos -> BOOLEAN]
  /\ info_new \in [Marcos -> Bloques \union {NULO}]
  /\ info_old \in [Marcos -> Bloques \union {NULO}]
  /\ heap \subseteq Bloques
  /\ hilo \in [Hilos -> EstadoHilo]
  /\ hilo["kernel"].pc \in PcKernel
  /\ hilo["cpu"].pc \in PcCpu
  /\ pedidos_io \subseteq [pid: Procesos, marco: Marcos]
  /\ respuesta \in {"", "OK", "OUT OF MEMORY", "marco"}
  /\ caido \in Causas

-----------------------------------------------------------------------------
(* Helpers *)

\* ceil(bytes / TAM_PAGINA)
PaginasDe(bytes) == (bytes + TAM_PAGINA - 1) \div TAM_PAGINA

MarcosLibres == {m \in Marcos : libre[m]}

cantidad_de_marcos_libres == Cardinality(MarcosLibres)

ConUnoDeMas(paginas) == paginas <= cantidad_de_marcos_libres + 1  \* mutant
HayLugar(paginas) == paginas <= cantidad_de_marcos_libres

\* list_find over lst_marco: the first frame, in list order, that is free
EsPrimero(m) == \A n \in Marcos : m <= n  \* mutant: `libre' is not looked at
EsPrimerLibre(m) == libre[m] /\ \A n \in Marcos : libre[n] => m <= n

\* The kernel thread keeps mutex_lst_procss_recibidos for the whole of
\* eliminar_proceso; every other holder releases it within one step.
ListaDeProcesosOcupada == hilo["kernel"].pc # "reposo"

ConIoPendiente == {r.pid : r \in pedidos_io}

Reposo == [pc |-> "reposo", pid |-> NULO, faltan |-> 0, marco |-> NULO]

Sigue(h, estado) == hilo' = [hilo EXCEPT ![h] = estado]

\* Where a thread goes on once liberar_marco has returned.
PcDelOtro(h) == "eliminar"  \* mutant: the loop of the other thread
PcTrasSoltar(h) == IF h = "kernel" THEN "destruir" ELSE "eliminar"

Caer(causa) ==
  /\ caido' = causa
  /\ UNCHANGED <<list_procss_recibidos, creados, tabla_paginas, marcosVars,
                 hilo, pedidos_io, respuesta>>

\* free(b) of a live block, or the abort of a block freed twice.
PuedeLiberarse(b) == b = NULO \/ b \in heap

-----------------------------------------------------------------------------
(* inicializar_estructuras: every frame free, no process *)

Init ==
  /\ list_procss_recibidos = {}
  /\ creados = {}
  /\ tabla_paginas = [p \in Procesos |-> <<>>]
  /\ libre = [m \in Marcos |-> TRUE]
  /\ info_new = [m \in Marcos |-> NULO]
  /\ info_old = [m \in Marcos |-> NULO]
  /\ heap = {}
  /\ hilo = [h \in Hilos |-> Reposo]
  /\ pedidos_io = {}
  /\ respuesta = ""
  /\ caido = ""

-----------------------------------------------------------------------------
(* The thread of the kernel *)

\* ESTRUCTURA_INICIADA_KERNEL_MEMORIA
IniciarEstructura(p) ==
  /\ hilo["kernel"].pc = "reposo"
  /\ p \notin creados
  /\ creados' = creados \union {p}
  /\ list_procss_recibidos' = list_procss_recibidos \union {p}
  /\ tabla_paginas' = [tabla_paginas EXCEPT ![p] = <<>>]
  /\ UNCHANGED <<marcosVars, hilo, pedidos_io, respuesta, caido>>

\* ESTRUCTURA_LIBERADA_KERNEL_MEMORIA up to the loop of eliminar_tabla.
\* The kernel releases a process only after the CPU gave it back.
LiberarEstructura(p) ==
  /\ hilo["kernel"].pc = "reposo"
  /\ p \in list_procss_recibidos
  /\ hilo["cpu"].pid # p
  /\ FinalizaBloqueados \/ p \notin ConIoPendiente
  /\ list_procss_recibidos' = list_procss_recibidos \ {p}
  /\ Sigue("kernel", [pc |-> "destruir", pid |-> p, faltan |-> 0,
                        marco |-> NULO])
  /\ UNCHANGED <<creados, tabla_paginas, marcosVars, pedidos_io, respuesta,
                 caido>>

\* The same request for a pid that is not in the list: obtener_proceso_por_id
\* ends the whole memory process.
LiberarDesconocido(p) ==
  /\ hilo["kernel"].pc = "reposo"
  /\ LiberaAusentes
  /\ p \notin list_procss_recibidos
  /\ Caer("pid desconocido")

\* One element of list_destroy_and_destroy_elements, which takes the head:
\* the page leaves the table and liberar_marco marks its frame free first.
DestruirPagina ==
  LET k == hilo["kernel"] IN
  /\ k.pc = "destruir"
  /\ tabla_paginas[k.pid] # <<>>
  /\ LET m == Head(tabla_paginas[k.pid]) IN
     /\ libre' = [libre EXCEPT ![m] = TRUE]
     /\ Sigue("kernel", [hilo["kernel"] EXCEPT !.pc = "soltar_new",
                                               !.marco = m])
  /\ tabla_paginas' = [tabla_paginas EXCEPT ![k.pid] = Tail(@)]
  /\ UNCHANGED <<list_procss_recibidos, creados, info_new, info_old, heap,
                 pedidos_io, respuesta, caido>>

\* End of eliminar_proceso: unlock and answer "Estructura liberada".
FinDestruir ==
  /\ hilo["kernel"].pc = "destruir"
  /\ tabla_paginas[hilo["kernel"].pid] = <<>>
  /\ Sigue("kernel", Reposo)
  /\ UNCHANGED <<list_procss_recibidos, creados, tabla_paginas, marcosVars,
                 pedidos_io, respuesta, caido>>

-----------------------------------------------------------------------------
(* liberar_marco, run by either thread, after its `libre = true' *)

SoltarNew(h) ==
  LET m == hilo[h].marco IN
  /\ hilo[h].pc = "soltar_new"
  /\ IF PuedeLiberarse(info_new[m])
     THEN /\ heap' = heap \ {info_new[m]}
          /\ info_new' = [info_new EXCEPT ![m] = NULO]
          /\ Sigue(h, [hilo[h] EXCEPT !.pc = "soltar_old"])
          /\ UNCHANGED <<list_procss_recibidos, creados, tabla_paginas,
                         libre, info_old, pedidos_io, respuesta, caido>>
     ELSE Caer("doble free")

SoltarOld(h) ==
  LET m == hilo[h].marco IN
  /\ hilo[h].pc = "soltar_old"
  /\ IF PuedeLiberarse(info_old[m])
     THEN /\ heap' = heap \ {info_old[m]}
          /\ info_old' = [info_old EXCEPT ![m] = NULO]
          /\ Sigue(h, [hilo[h] EXCEPT !.pc = PcTrasSoltar(h), !.marco = NULO])
          /\ UNCHANGED <<list_procss_recibidos, creados, tabla_paginas,
                         libre, info_new, pedidos_io, respuesta, caido>>
     ELSE Caer("doble free")

-----------------------------------------------------------------------------
(* The thread of the CPU *)

\* The CPU executes p: it is a process the kernel has dispatched, and one
\* whose I/O is pending is not.
CpuPuedePedir(p) ==
  /\ hilo["cpu"].pc = "reposo"
  /\ p \in creados
  /\ p \notin ConIoPendiente
  /\ p # hilo["kernel"].pid
  /\ ~ListaDeProcesosOcupada

\* atender_resize up to the choice between growing and shrinking.
Resize(p, bytes) ==
  LET actuales == Len(tabla_paginas[p])
      nuevas   == PaginasDe(bytes) IN
  /\ CpuPuedePedir(p)
  /\ p \in list_procss_recibidos
  /\ Sigue("cpu",
       IF nuevas >= actuales
       THEN [pc |-> "ampliar", pid |-> p, faltan |-> nuevas - actuales,
             marco |-> NULO]
       ELSE [pc |-> "eliminar", pid |-> p, faltan |-> actuales - nuevas,
             marco |-> NULO])
  /\ respuesta' = ""
  /\ UNCHANGED <<list_procss_recibidos, creados, tabla_paginas, marcosVars,
                 pedidos_io, caido>>

\* puedo_cargar_paginas_en_proceso, a critical section of its own
PuedoCargar ==
  LET c == hilo["cpu"] IN
  /\ c.pc = "ampliar"
  /\ IF HayLugar(c.faltan)
     THEN /\ Sigue("cpu", [hilo["cpu"] EXCEPT !.pc = "agregar"])
          /\ UNCHANGED respuesta
     ELSE /\ Sigue("cpu", Reposo)
          /\ respuesta' = "OUT OF MEMORY"
  /\ UNCHANGED <<list_procss_recibidos, creados, tabla_paginas, marcosVars,
                 pedidos_io, caido>>

\* obtener_un_marco_libre_de_la_lista_de_marcos; its NULL is not checked
ObtenerMarcoLibre ==
  /\ hilo["cpu"].pc = "agregar"
  /\ hilo["cpu"].faltan > 0
  /\ IF MarcosLibres = {}
     THEN Caer("sin marco")
     ELSE \E m \in Marcos :
            /\ EsPrimerLibre(m)
            /\ Sigue("cpu", [hilo["cpu"] EXCEPT !.pc = "elegido", !.marco = m])
            /\ UNCHANGED <<list_procss_recibidos, creados, tabla_paginas,
                           marcosVars, pedidos_io, respuesta, caido>>

\* info_old freed and replaced by info_new
MoverInfo ==
  LET m == hilo["cpu"].marco IN
  /\ hilo["cpu"].pc = "elegido"
  /\ IF PuedeLiberarse(info_old[m])
     THEN /\ heap' = heap \ {info_old[m]}
          /\ info_old' = [info_old EXCEPT ![m] = info_new[m]]
          /\ Sigue("cpu", [hilo["cpu"] EXCEPT !.pc = "movido"])
          /\ UNCHANGED <<list_procss_recibidos, creados, tabla_paginas,
                         libre, info_new, pedidos_io, respuesta, caido>>
     ELSE Caer("doble free")

\* info_new = malloc(...)
ReservarInfo ==
  /\ hilo["cpu"].pc = "movido"
  /\ \E b \in Bloques \ heap :
       /\ heap' = heap \union {b}
       /\ info_new' = [info_new EXCEPT ![hilo["cpu"].marco] = b]
  /\ Sigue("cpu", [hilo["cpu"] EXCEPT !.pc = "reservado"])
  /\ UNCHANGED <<list_procss_recibidos, creados, tabla_paginas, libre,
                 info_old, pedidos_io, respuesta, caido>>

\* libre = false, and the page joins the table
OcuparMarco ==
  LET c == hilo["cpu"] IN
  /\ c.pc = "reservado"
  /\ libre' = [libre EXCEPT ![c.marco] = FALSE]
  /\ tabla_paginas' = [tabla_paginas EXCEPT ![c.pid] = Append(@, c.marco)]
  /\ Sigue("cpu", [hilo["cpu"] EXCEPT !.pc = "agregar",
                                      !.faltan = @ - 1,
                                      !.marco = NULO])
  /\ UNCHANGED <<list_procss_recibidos, creados, info_new, info_old, heap,
                 pedidos_io, respuesta, caido>>

\* One turn of eliminar_paginas_a_un_proceso: the last page goes
EliminarPagina ==
  LET c == hilo["cpu"]
      t == tabla_paginas[c.pid]
      m == t[Len(t)] IN
  /\ c.pc = "eliminar"
  /\ c.faltan > 0
  /\ tabla_paginas' = [tabla_paginas EXCEPT ![c.pid] =
                         SubSeq(t, 1, Len(t) - 1)]
  /\ libre' = [libre EXCEPT ![m] = TRUE]
  /\ Sigue("cpu", [hilo["cpu"] EXCEPT !.pc = "soltar_new",
                                      !.faltan = @ - 1,
                                      !.marco = m])
  /\ UNCHANGED <<list_procss_recibidos, creados, info_new, info_old, heap,
                 pedidos_io, respuesta, caido>>

BucleAMedias(pc) == pc = "agregar"  \* mutant: a shrinking RESIZE is forgotten
BucleTerminado(pc) == pc \in {"agregar", "eliminar"}

\* The loop is over: enviar_respuesta_por_resize
ResponderResize ==
  /\ BucleTerminado(hilo["cpu"].pc)
  /\ hilo["cpu"].faltan = 0
  /\ Sigue("cpu", Reposo)
  /\ respuesta' = "OK"
  /\ UNCHANGED <<list_procss_recibidos, creados, tabla_paginas, marcosVars,
                 pedidos_io, caido>>

\* CONSULTA_DE_PAGINA: the entry is dereferenced (to be printed) before the
\* test against NULL, so a page outside the table kills the process.
ConsultaDePagina(p, pagina) ==
  /\ CpuPuedePedir(p)
  /\ p \in list_procss_recibidos
  /\ IF pagina < Len(tabla_paginas[p])
     THEN /\ respuesta' = "marco" \* tabla_paginas[p][pagina + 1]
          /\ UNCHANGED <<list_procss_recibidos, creados, tabla_paginas,
                         marcosVars, hilo, pedidos_io, caido>>
     ELSE Caer("pagina inexistente")

-----------------------------------------------------------------------------
(* The threads of the interfaces *)

\* External (the CPU's MMU and the kernel): p executes an I/O instruction on
\* one of its pages; the physical address travels to the interface.
PedirIO(p, pagina) ==
  /\ CpuPuedePedir(p)
  /\ p \in list_procss_recibidos
  /\ pagina < Len(tabla_paginas[p])
  /\ pedidos_io' = pedidos_io \union
                     {[pid |-> p, marco |-> tabla_paginas[p][pagina + 1]]}
  /\ UNCHANGED <<list_procss_recibidos, creados, tabla_paginas, marcosVars,
                 hilo, respuesta, caido>>

\* LECTURA/ESCRITURA_BLOQUE_ENTRADASALIDA: the access is made by address
\* alone, whatever process owns the frame by then.
AccederIO(r) ==
  /\ pedidos_io' = pedidos_io \ {r}
  /\ UNCHANGED <<list_procss_recibidos, creados, tabla_paginas, marcosVars,
                 hilo, respuesta, caido>>

-----------------------------------------------------------------------------
HiloKernel ==
  \/ \E p \in Procesos : IniciarEstructura(p) \/ LiberarEstructura(p)
                          \/ LiberarDesconocido(p)
  \/ DestruirPagina \/ FinDestruir
  \/ SoltarNew("kernel") \/ SoltarOld("kernel")

HiloCpu ==
  \/ \E p \in Procesos, bytes \in 0..MaxTamanio : Resize(p, bytes)
  \/ \E p \in Procesos, pagina \in 0..PaginasDe(MaxTamanio) :
       ConsultaDePagina(p, pagina)
  \/ PuedoCargar \/ ObtenerMarcoLibre \/ MoverInfo \/ ReservarInfo
  \/ OcuparMarco \/ EliminarPagina \/ ResponderResize
  \/ SoltarNew("cpu") \/ SoltarOld("cpu")

HilosIO ==
  \/ \E p \in Procesos, pagina \in 0..PaginasDe(MaxTamanio) :
       PedirIO(p, pagina)
  \/ \E r \in pedidos_io : AccederIO(r)

\* A dead process, or one with nothing left to serve, does nothing.
Terminado ==
  /\ caido # "" \/ creados = Procesos
  /\ UNCHANGED vars

Next ==
  \/ caido = "" /\ (HiloKernel \/ HiloCpu \/ HilosIO)
  \/ Terminado

Spec == Init /\ [][Next]_vars

\* Each thread, once it has taken a request, is scheduled until it answers.
KernelEnCurso ==
  caido = "" /\ (DestruirPagina \/ FinDestruir \/ SoltarNew("kernel")
                 \/ SoltarOld("kernel"))

CpuEnCurso ==
  caido = "" /\ (PuedoCargar \/ ObtenerMarcoLibre \/ MoverInfo
                 \/ ReservarInfo \/ OcuparMarco \/ EliminarPagina
                 \/ ResponderResize \/ SoltarNew("cpu") \/ SoltarOld("cpu"))

FairSpec == Spec /\ WF_vars(KernelEnCurso) /\ WF_vars(CpuEnCurso)

-----------------------------------------------------------------------------
(* Properties *)

\* No frame is behind two pages, of one process or of two, in any table,
\* including one half destroyed (agregar_paginas_a_un_proceso against
\* eliminar_tabla_de_paginas, with no common mutex).
MarcosExclusivos ==
  \A p, q \in Procesos :
    \A i \in DOMAIN tabla_paginas[p], j \in DOMAIN tabla_paginas[q] :
      tabla_paginas[p][i] = tabla_paginas[q][j] => p = q /\ i = j

\* No frame leaks and none is handed out while in use: a frame is taken
\* exactly when some page has it, after any sequence of resizes and releases.
LibreSiiSinPagina ==
  \A m \in Marcos :
    libre[m] <=> \A p \in Procesos :
                   \A i \in DOMAIN tabla_paginas[p] : tabla_paginas[p][i] # m

\* The check of puedo_cargar_paginas_en_proceso is still good when the loop
\* uses it, several unlocks later: no list_find of it returns NULL.
CargaAlcanza ==
  hilo["cpu"].pc \in {"agregar", "elegido", "movido", "reservado"} =>
    hilo["cpu"].faltan <= cantidad_de_marcos_libres

\* The physical address an interface still has to use is in a frame of the
\* process it acts for (or of nobody), as the access log line says with its
\* pid: no write of a process lands in the page of another one.
PedidoEnMarcoPropio ==
  \A r \in pedidos_io : \A q \in Procesos \ {r.pid} :
    \A i \in DOMAIN tabla_paginas[q] : tabla_paginas[q][i] # r.marco

\* Every info block is freed once: what the NULL tests and the assignments
\* of NULL after each free, in liberar_marco, are there for.
SinDobleFree == caido # "doble free"

\* A page query of the CPU for a page the process lacks is answered, with
\* the -1 of a page fault, and never ends the memory process.
ConsultaSeResponde == caido # "pagina inexistente"

\* Every RESIZE the thread of the CPU has taken, and every release the
\* thread of the kernel has taken, is finished (or the process has died).
ResizeTermina == hilo["cpu"].pc # "reposo" ~>
                   (hilo["cpu"].pc = "reposo" \/ caido # "")
LiberacionTermina == hilo["kernel"].pc # "reposo" ~>
                       (hilo["kernel"].pc = "reposo" \/ caido # "")

\* Both threads, each with its own client waiting on a semaphore, get to the
\* answer although they take and give frames of the same list.
PedidosTerminan == ResizeTermina /\ LiberacionTermina

-----------------------------------------------------------------------------
(* What the allocation promises: a quota per process, changed at once *)

EnCrecimiento == {"agregar", "elegido", "movido", "reservado"}
EnReduccion == {"eliminar", "soltar_new", "soltar_old"}

\* A RESIZE takes effect, abstractly, when it is accepted: the frames its
\* loop still has to take or give back are counted already.
cuota ==
  [p \in Procesos |->
     LET tam == Len(tabla_paginas[p])
         c   == hilo["cpu"] IN
     IF p \notin list_procss_recibidos THEN 0
     ELSE IF c.pid = p /\ c.pc \in EnCrecimiento THEN tam + c.faltan
     ELSE IF c.pid = p /\ c.pc \in EnReduccion THEN tam - c.faltan
     ELSE tam]

Reparto == INSTANCE RepartoDeMarcos
             WITH Capacidad <- CantMarcos, activos <- list_procss_recibidos,
                  cuota <- cuota

\* Whatever the interleaving, the tables change as if every RESIZE were
\* granted whole, within the installed memory, or not at all.
ImplementaReparto == Reparto!Spec
==============================================================================
