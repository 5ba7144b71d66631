---------------------------- MODULE KernelEstado ----------------------------
(***************************************************************************)
(* State of the kernel process (kernel/src) and of the two sockets that    *)
(* join it to the CPU, with the operators every kernel module uses.        *)
(*                                                                         *)
(* A thread is a program counter with the arguments of the function it     *)
(* runs and the set of mutexes it holds.  A step runs from one point where *)
(* the thread may have to wait (a mutex, a semaphore, a socket, pausador)  *)
(* to the next one, so a critical section without such a point inside is   *)
(* one step.  A counter that is changed with no mutex is read into the     *)
(* thread's `n' and written in another step.  pausador only delays the     *)
(* thread that calls it: a paused thread is one that takes no step, which  *)
(* any interleaving allows.                                                *)
(***************************************************************************)
EXTENDS Integers, Sequences, FiniteSets, SequencesExt

CONSTANTS
  MaxPid,              \* bound: processes the console starts
  Recursos,            \* RECURSOS
  InstanciasDe,        \* INSTANCIAS_RECURSOS, by resource
  Interfaces,          \* the I/O interfaces that are connected
  Grado,               \* GRADO_MULTIPROGRAMACION
  Algoritmo,           \* ALGORITMO_PLANIFICACION
  Desprendidos,        \* bound: slots for the detached threads alive at once
  Sucesos,             \* kinds of system call the processes make, and whether
                       \* a quantum may expire
  EstadosFinalizables, \* states in which the console finalises a process
  MaxPasos,            \* bound: system calls of a process before its EXIT
  MaxFin,              \* bound: FINALIZAR_PROCESO commands
  MaxIrq,              \* bound: interrupts on their way to the CPU at once
  MaxPendientes,       \* bound: processes sent to the CPU and not started
  Nadie                \* the NULL pointer

Pids == 1..MaxPid

Despacho == "despacho"

Hilos == {Despacho} \union Interfaces \union Desprendidos

Colas == {"NEW", "READY", "READY_PRIORIDAD", "EXEC", "BLOCKED", "EXIT"}

Estados == Colas \union {"NINGUNO"}

Motivos == {"DESALOJO_POR_CONSOLA", "FIN_QUANTUM", "PRIORIDAD"}

ASSUME KernelAssumption ==
  /\ MaxPid \in Nat
  /\ Grado \in Nat
  /\ MaxPasos \in Nat
  /\ MaxFin \in Nat
  /\ MaxIrq \in Nat
  /\ MaxPendientes \in Nat
  /\ InstanciasDe \in [Recursos -> Nat]
  /\ Algoritmo \in {"FIFO", "RR", "VRR"}
  /\ EstadosFinalizables \subseteq Estados
  /\ Nadie \notin Pids \union Recursos \union Interfaces
  /\ Colas \intersect Recursos = {}
  /\ Interfaces \intersect Desprendidos = {}
  /\ Despacho \notin Interfaces \union Desprendidos

VARIABLES
  lista,           \* state -> lista_new, lista_ready, ..., lista_exit
  estado,          \* pcb->estado
  flag_finalizar,  \* pids whose flag_finalizar_proceso is set
  flag_desalojado, \* pids whose flag_proceso_desalojado is set
  vrr,             \* what Virtual Round Robin keeps in each pcb
  recursos_pcb,    \* pcb->lista_recursos_pcb
  instancias,      \* t_recurso.instancias
  cola_recurso,    \* t_recurso.lista_bloqueados
  io,              \* t_instancia_io and the request its process works on
  hilos,           \* the threads
  canal,           \* dispatch socket, CPU to kernel
  cpuq,            \* dispatch socket, kernel to CPU
  irqs,            \* interrupt socket, kernel to CPU
  cpu,             \* the CPU process
  sem,             \* semaphores the interrupt senders wait on
  quantum,         \* process whose quantum thread still holds a valid ticket
  cupo,            \* sem_procesos_en_memoria
  iniciados,       \* pids memoria has structures for
  pasos,           \* system calls each process has made
  fines,           \* FINALIZAR_PROCESO commands given
  caido            \* why the kernel process has died, or ""

planVars == <<lista, estado>>
flagVars == <<flag_finalizar, flag_desalojado>>
recVars  == <<recursos_pcb, instancias, cola_recurso>>
cpuVars  == <<cpu, cpuq, irqs, canal, pasos>>
semVars  == <<sem, quantum>>
memVars  == <<cupo, iniciados>>

vars == <<planVars, flagVars, vrr, recVars, io, hilos, cpuVars, semVars,
          memVars, fines, caido>>

-----------------------------------------------------------------------------
(* Types *)

Mutexes == Colas \union Recursos

Pcs == {"reposo", "colgado", "nuevo", "plp", "plp_cupo", "plp_ready", "pcp",
        "pcp_exec", "pcp_tomar", "buscar", "segun_estado", "liberar",
        "avisar", "transferir", "agregar", "desalojar", "plp_exit", "motivo",
        "reubicar", "reubicar_ready", "reubicar_prioridad", "pcp_prioridad",
        "analizar", "asignar", "asignar_resta", "desbloquear", "liberar_suma",
        "signal_suma", "wait_leer", "wait_resta", "wait_bloquear",
        "wait_encolar", "io_mandar", "io_encolar", "io_siguiente",
        "io_liberar"}

Ops == {"", "plp_exit", "desalojar", "finalizar", "finalizar_nuevo", "wait",
        "io_libre", "io_ocupada", "fin", "asignar"} \union Motivos

Hilo == [pc: Pcs, op: Ops, p: Pids \union {Nadie},
         r: Recursos \union Interfaces \union {Nadie}, rs: Seq(Recursos),
         l: Colas \union {""}, n: Int, tiene: SUBSET Mutexes]

Pedido ==
  [t: {"WAIT", "SIGNAL"}, p: Pids, x: Recursos \union {Nadie}]
    \union [t: {"IO"}, p: Pids, x: Interfaces]
    \union [t: {"IO_INADMISIBLE", "IO_DESCONOCIDA"}, p: Pids,
            x: {"GENERICA", "OTRA"}]
    \union [t: {"DESALOJO"}, p: Pids, x: Motivos]
    \union [t: {"ATENDER_EXIT", "ATENDER_OUT_OF_MEMORY"}, p: Pids, x: {Nadie}]

Mensaje == [t: {"EJECUTAR"}, p: Pids, v: {""}]
             \union [t: {"RTA"}, p: {Nadie}, v: {"1", "-1"}]

Cpu == [ctx: Pids \union {Nadie}, modo: {"libre", "ejecuta", "espera", "sale"},
        pendientes: Nat, irq: Motivos \union {""}, rta: Nat,
        negada: BOOLEAN, desalojar: {"", "ATENDER_EXIT",
                                     "ATENDER_OUT_OF_MEMORY"}]

Instancia == [libre: BOOLEAN, espera: Seq(Pids), pedido: Pids \union {Nadie}]

Causas ==
  {"", "puntero nulo", "EXIT_FAILURE", "memoria", "doble_free", "sin_iniciar"}

TypeOK ==
  /\ lista \in [Colas -> Seq(Pids)]
  /\ estado \in [Pids -> Estados]
  /\ flag_finalizar \subseteq Pids
  /\ flag_desalojado \subseteq Pids
  /\ vrr \in [Pids -> [timer: BOOLEAN, venia: BOOLEAN, prioridad: BOOLEAN,
                       parcial: BOOLEAN]]
  /\ recursos_pcb \in [Pids -> Seq(Recursos)]
  /\ instancias \in [Recursos -> Int]
  /\ cola_recurso \in [Recursos -> Seq(Pids)]
  /\ io \in [Interfaces -> Instancia]
  /\ hilos \in [Hilos -> Hilo]
  /\ canal \in Seq(Pedido)
  /\ cpuq \in Seq(Mensaje)
  /\ irqs \in Seq(Pids \X Motivos)
  /\ cpu \in Cpu
  /\ sem \in [Motivos -> Nat]
  /\ quantum \in Pids \union {Nadie}
  /\ cupo \in Nat
  /\ iniciados \subseteq Pids
  /\ pasos \in [Pids -> 0..MaxPasos]
  /\ fines \in 0..MaxFin
  /\ caido \in Causas

-----------------------------------------------------------------------------
(* Threads and mutexes *)

Reposo == [pc |-> "reposo", op |-> "", p |-> Nadie, r |-> Nadie, rs |-> <<>>,
           l |-> "", n |-> 0, tiene |-> {}]

\* The thread that a spawned function starts as.
Arranca(pc, p, r) == [Reposo EXCEPT !.pc = pc, !.p = p, !.r = r]

EnPc(t, pc) == caido = "" /\ hilos[t].pc = pc

Desocupado(m) == \A t \in Hilos : m \notin hilos[t].tiene

Pasa(t, h) == hilos' = [hilos EXCEPT ![t] = h]

\* The function returns: a detached thread ends, the others take their next
\* message.
Vuelve(t) == Pasa(t, Reposo)

Sigue(t, pc) == Pasa(t, [hilos[t] EXCEPT !.pc = pc])

\* ejecutar_en_un_hilo_nuevo_detach, while thread t goes on as h; a new thread
\* takes any free slot.
PasaYLanza(t, h, nuevo) ==
  \E d \in Desprendidos :
    /\ hilos[d].pc = "reposo"
    /\ hilos' = [hilos EXCEPT ![t] = h, ![d] = nuevo]

Lanza(nuevo) ==
  \E d \in Desprendidos :
    /\ hilos[d].pc = "reposo"
    /\ hilos' = [hilos EXCEPT ![d] = nuevo]

Cae(causa) ==
  /\ caido' = causa
  /\ UNCHANGED <<planVars, flagVars, vrr, recVars, io, hilos, cpuVars,
                 semVars, memVars, fines>>

-----------------------------------------------------------------------------
(* Lists, and the messages to the CPU *)

EnLista(p, l) == Contains(lista[l], p)

Sin(s, e) == RemoveFirst(s, e)

\* pcp_planificar_corto_plazo, called by thread t, which keeps only mutexes ms.
LlamaPcp(t, ms) == [Reposo EXCEPT !.pc = "pcp", !.tiene = ms]

EJECUTAR(p) == [t |-> "EJECUTAR", p |-> p, v |-> ""]

RTA(v) == [t |-> "RTA", p |-> Nadie, v |-> v]

Init ==
  /\ lista = [l \in Colas |-> <<>>]
  /\ estado = [p \in Pids |-> "NINGUNO"]
  /\ flag_finalizar = {}
  /\ flag_desalojado = {}
  /\ vrr = [p \in Pids |-> [timer |-> FALSE, venia |-> FALSE,
                            prioridad |-> FALSE, parcial |-> FALSE]]
  /\ recursos_pcb = [p \in Pids |-> <<>>]
  /\ instancias = InstanciasDe
  /\ cola_recurso = [r \in Recursos |-> <<>>]
  /\ io = [i \in Interfaces |->
             [libre |-> TRUE, espera |-> <<>>, pedido |-> Nadie]]
  /\ hilos = [t \in Hilos |-> Reposo]
  /\ canal = <<>>
  /\ cpuq = <<>>
  /\ irqs = <<>>
  /\ cpu = [ctx |-> Nadie, modo |-> "libre", pendientes |-> 0, irq |-> "",
            rta |-> 0, negada |-> FALSE, desalojar |-> ""]
  /\ sem = [m \in Motivos |-> 0]
  /\ quantum = Nadie
  /\ cupo = Grado
  /\ iniciados = {}
  /\ pasos = [p \in Pids |-> 0]
  /\ fines = 0
  /\ caido = ""
=============================================================================
