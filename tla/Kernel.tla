------------------------------- MODULE Kernel -------------------------------
(***************************************************************************)
(* The kernel and the CPU together: the next-state relation over every     *)
(* thread of both processes, and what the five-state machine of processes, *)
(* the resources and the interfaces must satisfy.                          *)
(***************************************************************************)
EXTENDS Cpu

\* The process of the system that is left when all work is done, or after the
\* kernel died: nothing more happens.
Terminado ==
  /\ caido # "" \/ \A p \in Pids : estado[p] = "EXIT"
  /\ UNCHANGED vars

HilosDelKernel(t) ==
  HiloLargoPlazo(t) \/ HiloCortoPlazo(t) \/ HiloRecursos(t) \/ HiloDespacho(t)

Consola == \E p \in Pids : IniciarProceso(p) \/ FinalizarProceso(p)

Interrupciones ==
  VenceQuantum \/ \E m \in Motivos : Interrumpir(m) \/ InterrumpirNulo(m)

Next ==
  \/ Consola
  \/ \E t \in Hilos : HilosDelKernel(t)
  \/ \E i \in Interfaces : HiloInterfaz(i)
  \/ RecibirDelCpu
  \/ Interrupciones
  \/ CpuEjecuta
  \/ Terminado

Spec == Init /\ [][Next]_vars

\* Every thread that can go on does so sooner or later, the processes are all
\* started and the CPU keeps executing.  Nothing is asked of FINALIZAR_PROCESO.
Fairness ==
  /\ \A p \in Pids : WF_vars(IniciarProceso(p))
  /\ \A t \in Hilos : WF_vars(HilosDelKernel(t))
  /\ \A i \in Interfaces : WF_vars(HiloInterfaz(i))
  /\ WF_vars(RecibirDelCpu)
  /\ WF_vars(Interrupciones)
  /\ WF_vars(CpuEjecuta)

FairSpec == Spec /\ Fairness

-----------------------------------------------------------------------------
(* Counting *)

Apariciones(p) == {x \in Colas \X (1..(MaxPid + 1)) :
                     x[2] <= Len(lista[x[1]]) /\ lista[x[1]][x[2]] = p}

Ocupado(t) == hilos[t].pc # "reposo"

\* Some thread is in the middle of moving p.
EnTransito(p) == \E t \in Hilos : Ocupado(t) /\ hilos[t].p = p

Admitidos == {p \in Pids :
                estado[p] \in {"READY", "READY_PRIORIDAD", "EXEC", "BLOCKED"}}

EnAdmision == {t \in Hilos : hilos[t].pc = "plp_ready"}

\* Threads that have marked an admitted process EXIT and owe its slot.
EnSalida == {t \in Hilos : /\ hilos[t].pc = "agregar" /\ hilos[t].l = "EXIT"
                           /\ hilos[t].op \notin {"finalizar_nuevo", "wait"}}

-----------------------------------------------------------------------------
(* Safety *)

\* At most one process is in EXEC: the test of an empty lista_execute and the
\* insertion are under one lock, whichever thread replans
\* (planificador_corto_plazo.c).
ExecUnico == Len(lista["EXEC"]) <= 1

\* A pcb is in at most one list, once: every move removes before it adds
\* (transferir_from_actual_to_siguiente, "REMOVER ANTES DE USAR").
UnaSolaLista == \A p \in Pids : Cardinality(Apariciones(p)) <= 1

\* The list that holds a pcb is the one its `estado' names, so that the switch
\* of plp_planificar_proceso_exit locks the list it is about.
EstadoSegunLista ==
  \A p \in Pids, l \in Colas : EnLista(p, l) => estado[p] = l

\* sem_procesos_en_memoria plus the admitted processes is always the degree of
\* multiprogramming: no path from READY to EXIT loses or duplicates a slot.
CupoConservado ==
  cupo + Cardinality(Admitidos) + Cardinality(EnAdmision)
    + Cardinality(EnSalida) = Grado

\* Nobody waits for a resource that has free instances, unless a thread is on
\* its way to hand one over (or to withdraw the request).
SinEsperaInutil ==
  \A r \in Recursos :
    cola_recurso[r] # <<>> /\ instancias[r] > 0 =>
      \E t \in Hilos : Ocupado(t) /\ hilos[t].r = r

\* A process in BLOCKED has somebody to bring it back: the queue of a resource,
\* an interface working for it or about to, or a thread that is moving it.
BloqueadoConMotivo ==
  \A p \in Pids : EnLista(p, "BLOCKED") =>
    \/ \E r \in Recursos : Contains(cola_recurso[r], p)
    \/ \E i \in Interfaces : io[i].pedido = p
                               \/ (Contains(io[i].espera, p) /\ ~io[i].libre)
    \/ EnTransito(p)

\* The CPU executes the process the kernel has in EXEC.
CpuEjecutaElDeExec ==
  cpu.modo = "ejecuta" /\ caido = "" => lista["EXEC"] = <<cpu.ctx>>

\* While a process is ready and none executes, some thread is going to replan.
NadieOcioso ==
  lista["EXEC"] = <<>> /\ lista["READY"] # <<>> /\ caido = "" =>
    \/ canal # <<>>
    \/ \E t \in Hilos : hilos[t].pc \notin {"reposo", "plp_cupo", "colgado"}

\* The kernel never dereferences the NULL of an empty list or a failed search.
SinPunteroNulo == caido # "puntero nulo"

\* memoria survives what the kernel asks of it.
MemoriaViva == caido # "memoria"

\* Nor does the kernel end itself because a pcb is not where it expects it.
SinSalidaForzada == caido # "EXIT_FAILURE"

\* Neither the kernel nor memoria dies of what several threads did to a pcb
\* between the moment a list was looked at and the moment it was used.
NadieMuere == SinPunteroNulo /\ MemoriaViva /\ SinSalidaForzada

\* Once in EXIT, always in EXIT.
ExitEsFinal ==
  [][\A p \in Pids : estado[p] = "EXIT" => estado'[p] = "EXIT"]_vars

-----------------------------------------------------------------------------
(* Liveness *)

\* Every process that is started reaches EXIT.
TodosTerminan == \A p \in Pids : <>(estado[p] = "EXIT")

\* An interface's thread that is told of the end of an I/O gets to move the
\* process to READY and goes back to listening (atender_fin_entradasalida).
FinDeIOVuelve ==
  \A i \in Interfaces : hilos[i].pc # "reposo" ~> hilos[i].pc = "reposo"

-----------------------------------------------------------------------------
(* What three processes on one resource break (MCKernel_TresProcesos) *)

\* No instance of a resource is granted twice: a WAIT may take the one that
\* asignar_recurso_liberado_pcb is handing over.
InstanciasNoNegativas == \A r \in Recursos : instancias[r] >= 0

\* No instance is given back twice, nor the `--' of a WAIT lost to the `++' of
\* liberar_recursos_pcb.
InstanciasNoDeMas ==
  \A r \in Recursos : instancias[r] <= InstanciasDe[r]

\* No thread is stuck on the copy of a locked mutex.
SinColgados == \A t \in Hilos : hilos[t].pc # "colgado"

\* The mutexes thread t waits for next.
Espera(t) ==
  LET h == hilos[t] IN
  CASE h.pc \in {"pcp", "pcp_tomar", "plp_ready", "reubicar_ready"} -> {"READY"}
    [] h.pc \in {"pcp_prioridad", "reubicar_prioridad"} -> {"READY_PRIORIDAD"}
    [] h.pc = "pcp_exec" -> {"EXEC"}
    [] h.pc = "liberar" -> {Head(h.rs)}
    [] h.pc = "desbloquear" -> {"BLOCKED"}
    [] OTHER -> {}

\* No two threads wait for each other, each with a mutex the other one needs:
\* the ends of a process keep a list while they take the resources, and
\* asignar_recurso_liberado_pcb keeps a resource while it takes the lists.
SinAbrazo ==
  \A t, u \in Hilos : ~( /\ Espera(t) \intersect hilos[u].tiene # {}
                         /\ Espera(u) \intersect hilos[t].tiene # {})

-----------------------------------------------------------------------------
(* Refinement: the five-state life cycle the kernel promises *)

\* A pcb taken from EXEC counts as blocked until it gets to its next list.
Fase(p) ==
  CASE estado[p] = "EXEC" /\ ~EnLista(p, "EXEC") -> "BLOCKED"
    [] estado[p] = "READY_PRIORIDAD" -> "READY"
    [] OTHER -> estado[p]

Ciclo == INSTANCE CicloDeVida
           WITH Procesos <- Pids, fase <- [p \in Pids |-> Fase(p)]

\* Every step of the kernel is one of the transitions of CicloDeVida, within
\* the degree of multiprogramming and one process in EXEC at a time.
ImplementaCiclo == Ciclo!Spec
=============================================================================
