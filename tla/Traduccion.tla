----------------------------- MODULE Traduccion -----------------------------
(***************************************************************************)
(* The CPU's MMU (cpu/src/mmu.c) and the accesses it translates, with the  *)
(* TLB of Tlb and the memory process of Memoria: an instruction with a     *)
(* logical address asks the MMU for the frame, of the TLB or of memory,    *)
(* and then memory, or an interface on its behalf, uses that frame by      *)
(* physical address alone.  Nothing ever takes an entry out of the TLB but *)
(* its replacement, and every program may address every page.              *)
(***************************************************************************)
EXTENDS Memoria, Tlb

CONSTANTS
  Tamanios,  \* bound: the sizes, in bytes, that programs ask for with RESIZE
  MaxIO      \* bound: accesses of interfaces that memory has not made yet

Paginas == 0..PaginasDe(MaxTamanio)

ASSUME TraduccionAssumption ==
  /\ Tamanios \subseteq 0..MaxTamanio
  /\ MaxIO \in Nat
  /\ Elementos = [nro_pagina: Paginas, nro_marco: Marcos, pid: Procesos]

VARIABLES
  acceso,    \* translated access of the instruction in execution, or none;
             \* `propia' (history): memory answered, or an entry that it had
             \* given for this process and for a page not returned since
  caducas,   \* history: slots of the TLB whose page its process has
             \* returned to memory since the entry was loaded
  en_viaje   \* writes sent to memory by an interface that has reported the
             \* end of the operation, and that memory has not made

trVars == <<vars, tlbVars, acceso, caducas, en_viaje>>

SinAcceso == [pid |-> NULO]

TraduccionTypeOK ==
  /\ TypeOK
  /\ TlbTypeOK
  /\ acceso \in {SinAcceso} \union
                 [pid: Procesos, pagina: Paginas, marco: Marcos, propia: BOOLEAN]
  /\ caducas \subseteq DOMAIN TLB
  /\ en_viaje \subseteq [pid: Procesos, marco: Marcos]

TraduccionInit ==
  /\ Init
  /\ TlbInit
  /\ acceso = SinAcceso
  /\ caducas = {}
  /\ en_viaje = {}

-----------------------------------------------------------------------------
(* MMU *)

\* The CPU executes p, and its last instruction with an address is complete.
Ejecuta(p) ==
  /\ acceso = SinAcceso
  /\ hilo["cpu"].pc = "reposo"
  /\ p \in list_procss_recibidos
  /\ p \notin ConIoPendiente

Traducido(p, pagina, marco, propia) ==
  acceso' = [pid |-> p, pagina |-> pagina, marco |-> marco, propia |-> propia]

\* The entry of the page that is found may be of another process, or older
\* than a RESIZE.
MmuAcierto(p, pagina) ==
  \E i \in DOMAIN TLB :
    /\ Acierto(i, pagina)
    /\ Traducido(p, pagina, TLB[i].nro_marco,
                 TLB[i].pid = p /\ i \notin caducas)
    /\ UNCHANGED <<vars, caducas>>

\* CONSULTA_DE_PAGINA, and the answer goes to the TLB, if there is one.
EntradaNueva(p, pagina) ==
  [nro_pagina |-> pagina, pid |-> p, nro_marco |-> tabla_paginas[p][pagina + 1]]

MmuFallo(p, pagina) ==
  /\ Falla(pagina)
  /\ ConsultaDePagina(p, pagina)
  /\ IF caido' = ""
     THEN /\ IF CANT_ENTRADAS_TLB = 0 THEN UNCHANGED tlbVars
             ELSE Actualizar(EntradaNueva(p, pagina))
          /\ caducas' = {i \in caducas : TLB'[i] = TLB[i]}
          /\ Traducido(p, pagina, tabla_paginas[p][pagina + 1], TRUE)
     ELSE UNCHANGED <<tlbVars, acceso, caducas>>

Mmu(p, pagina) ==
  /\ Ejecuta(p)
  /\ MmuAcierto(p, pagina) \/ MmuFallo(p, pagina)
  /\ UNCHANGED en_viaje

-----------------------------------------------------------------------------
(* The translated access *)

\* LECTURA_BLOQUE_CPU_MEMORIA and ESCRITURA_BLOQUE_CPU_MEMORIA: a copy from or
\* to the physical address, answered before the instruction goes on.
UsarDato ==
  /\ acceso # SinAcceso
  /\ acceso' = SinAcceso
  /\ UNCHANGED <<vars, tlbVars, caducas, en_viaje>>

\* IO_STDIN_READ, IO_STDOUT_WRITE, IO_FS_READ and IO_FS_WRITE: the address
\* goes with the process, which blocks, to the kernel and to the interface.
EnviarAInterfaz ==
  /\ acceso # SinAcceso
  /\ Cardinality(pedidos_io) + Cardinality(en_viaje) < MaxIO
  /\ pedidos_io' = pedidos_io \union
                     {[pid |-> acceso.pid, marco |-> acceso.marco]}
  /\ acceso' = SinAcceso
  /\ UNCHANGED <<list_procss_recibidos, creados, tabla_paginas, marcosVars,
                 hilo, respuesta, caido, tlbVars, caducas, en_viaje>>

\* procesar_stdin and procesar_fs_read send the write and report the end at
\* once: the process may run again before memory has it.
InformarFin(r) ==
  /\ r \in pedidos_io
  /\ pedidos_io' = pedidos_io \ {r}
  /\ en_viaje' = en_viaje \union {r}
  /\ UNCHANGED <<list_procss_recibidos, creados, tabla_paginas, marcosVars,
                 hilo, respuesta, caido, tlbVars, acceso, caducas>>

EscribirIO(r) ==
  /\ r \in en_viaje
  /\ en_viaje' = en_viaje \ {r}
  /\ UNCHANGED <<vars, tlbVars, acceso, caducas>>

\* procesar_stdout and procesar_fs_write wait for what memory reads.
LeerIO(r) == AccederIO(r) /\ UNCHANGED <<tlbVars, acceso, caducas, en_viaje>>

-----------------------------------------------------------------------------
(* The rest of memory, which neither looks at the TLB nor empties it *)

ResizeCpu(p, bytes) == acceso = SinAcceso /\ Resize(p, bytes)

HiloKernelTr ==
  /\ \/ \E p \in Procesos :
          \/ IniciarEstructura(p)
          \/ p # acceso.pid /\ LiberarEstructura(p)
          \/ LiberarDesconocido(p)
     \/ DestruirPagina \/ FinDestruir
     \/ SoltarNew("kernel") \/ SoltarOld("kernel")
  /\ UNCHANGED <<tlbVars, acceso, caducas, en_viaje>>

\* The entries of page `pagina' of p
EntradasDe(p, pagina) ==
  {i \in DOMAIN TLB : TLB[i].pid = p /\ TLB[i].nro_pagina = pagina}

EliminarPaginaTr ==
  LET p == hilo["cpu"].pid IN
  /\ EliminarPagina
  /\ caducas' = caducas \union EntradasDe(p, Len(tabla_paginas[p]) - 1)
  /\ UNCHANGED <<tlbVars, acceso, en_viaje>>

HiloCpuTr ==
  \/ \E p \in Procesos, pagina \in Paginas : Mmu(p, pagina)
  \/ UsarDato \/ EnviarAInterfaz \/ EliminarPaginaTr
  \/ /\ \/ \E p \in Procesos, bytes \in Tamanios : ResizeCpu(p, bytes)
        \/ PuedoCargar \/ ObtenerMarcoLibre \/ MoverInfo \/ ReservarInfo
        \/ OcuparMarco \/ ResponderResize
        \/ SoltarNew("cpu") \/ SoltarOld("cpu")
     /\ UNCHANGED <<tlbVars, acceso, caducas, en_viaje>>

HilosIOTr ==
  \/ \E r \in pedidos_io : InformarFin(r) \/ LeerIO(r)
  \/ \E r \in en_viaje : EscribirIO(r)

TraduccionNext ==
  \/ caido = "" /\ (HiloKernelTr \/ HiloCpuTr \/ HilosIOTr)
  \/ Terminado /\ UNCHANGED <<tlbVars, acceso, caducas, en_viaje>>

TraduccionSpec == TraduccionInit /\ [][TraduccionNext]_trVars

-----------------------------------------------------------------------------
(* Properties *)

EnSuPagina(a) ==
  /\ a.pagina < Len(tabla_paginas[a.pid])
  /\ tabla_paginas[a.pid][a.pagina + 1] = a.marco

\* The frame an instruction is about to use is the one of its page, by a hit
\* or a miss, while other processes come, grow, shrink and go: a wrong frame
\* can only come from an entry of another process or of a page returned since,
\* the two cases that consulta_TLB, which reads the page number alone, does
\* not tell from a good one.
AccesoPropio == acceso # SinAcceso /\ acceso.propia => EnSuPagina(acceso)

\* The same of every access, which holds where there is no TLB.
AccesoEnSuPagina == acceso # SinAcceso => EnSuPagina(acceso)

\* An entry says what the page table of the process it was loaded for says,
\* for as long as the process is in memory and has not returned the page.
TlbCoherente ==
  \A i \in DOMAIN TLB \ caducas :
    LET e == TLB[i] IN
    e.pid \in list_procss_recibidos =>
      /\ e.nro_pagina < Len(tabla_paginas[e.pid])
      /\ tabla_paginas[e.pid][e.nro_pagina + 1] = e.nro_marco

\* "puede ocupar mas de 1 pagina el string" (ciclo_instruccion.c): the copy of
\* a string that does not fit in its page goes on at the next byte of memory,
\* which is the next page of the process only if its frames are consecutive.
TextoSigueEnSuPagina ==
  acceso # SinAcceso /\ acceso.pagina + 1 < Len(tabla_paginas[acceso.pid]) =>
    tabla_paginas[acceso.pid][acceso.pagina + 2] = acceso.marco + 1

\* A write that an interface has sent and reported as made lands in a frame
\* that is not of another process by the time memory makes it.
EscrituraEnMarcoPropio ==
  \A r \in en_viaje, q \in Procesos : q # r.pid =>
    \A i \in DOMAIN tabla_paginas[q] : tabla_paginas[q][i] # r.marco

\* A process that has been told its IO_STDIN_READ or IO_FS_READ is over finds
\* the data in its page when it comes to read it.
DatosListos ==
  acceso # SinAcceso =>
    [pid |-> acceso.pid, marco |-> acceso.marco] \notin en_viaje

\* The MMU uses the TLB by the rules of the module Tlb, whose theorems hold
\* therefore of this system.
UsaLaTlb == TlbSpec
==============================================================================
