----------------------------- MODULE CortoPlazo -----------------------------
(***************************************************************************)
(* The short-term scheduler (planificador_corto_plazo.c), the quantum it   *)
(* arms, the three threads that turn semaphores into interrupts            *)
(* (kernel_cpu_interrupt.c) and the way back to READY of a process the CPU *)
(* gave up or that was blocked.                                            *)
(***************************************************************************)
EXTENDS LargoPlazo

ConTimer == Algoritmo \in {"RR", "VRR"}

\* The bound on interrupts that are posted, or sent and not yet received.
CabeOtra == sem["FIN_QUANTUM"] + sem["PRIORIDAD"] + Len(irqs) < MaxIrq

-----------------------------------------------------------------------------
(* pcp_planificar_corto_plazo *)

\* mutex_lista_ready is unlocked right after the test.
VistoReady(t) == [hilos[t] EXCEPT !.pc = "pcp_exec"]

\* Only lista_ready is looked at, whatever the algorithm.
MirarReady(t) ==
  /\ EnPc(t, "pcp")
  /\ Desocupado("READY")
  /\ IF lista["READY"] = <<>> THEN Vuelve(t) ELSE Pasa(t, VistoReady(t))
  /\ UNCHANGED <<planVars, flagVars, vrr, recVars, io, cpuVars, semVars,
                 memVars, fines, caido>>

\* mutex_lista_exec is kept until the process is in the list.
SinRetenerExec(t) == [hilos[t] EXCEPT !.pc = "pcp_tomar"]  \* mutant: unlocked
ReteniendoExec(t) == [hilos[t] EXCEPT !.pc = "pcp_tomar",
                                      !.tiene = @ \union {"EXEC"}]

\* _atender_RR_FIFO gives up when somebody executes; _atender_VRR goes on.
TomarExec(t) ==
  /\ EnPc(t, "pcp_exec")
  /\ Desocupado("EXEC")
  /\ IF lista["EXEC"] # <<>> /\ Algoritmo # "VRR"
     THEN Vuelve(t)
     ELSE Pasa(t, ReteniendoExec(t))
  /\ UNCHANGED <<planVars, flagVars, vrr, recVars, io, cpuVars, semVars,
                 memVars, fines, caido>>

\* The bound on processes the CPU has been sent and has not started.
EsEJECUTAR(m) == m.t = "EJECUTAR"

CabeOtroProceso ==
  cpu.pendientes + Len(SelectSeq(cpuq, EsEJECUTAR)) < MaxPendientes

\* Head of list l to EXEC, and to the CPU; its quantum thread gets a ticket
\* that voids every earlier one (generar_verificador).
Despachar(l) ==
  LET p == Head(lista[l]) IN
  /\ lista' = [lista EXCEPT ![l] = Tail(@), !["EXEC"] = Append(@, p)]
  /\ estado' = [estado EXCEPT ![p] = "EXEC"]
  /\ cpuq' = Append(cpuq, EJECUTAR(p))
  /\ quantum' = IF ConTimer THEN p ELSE Nadie
  /\ vrr' = IF Algoritmo # "VRR" THEN vrr
            ELSE IF l = "READY_PRIORIDAD"
            THEN [vrr EXCEPT ![p].venia = TRUE]
            ELSE [vrr EXCEPT ![p].venia = FALSE, ![p].prioridad = FALSE,
                             ![p].timer = TRUE]

\* temporal_resume of a timer that was destroyed with the last I/O.
SinTimerQueReanudar(l) ==
  /\ Algoritmo = "VRR"
  /\ l = "READY"
  /\ vrr[Head(lista[l])].prioridad
  /\ ~vrr[Head(lista[l])].timer

\* The list whose head executes next: READY_PRIORIDAD first, under VRR.
Origen == IF Algoritmo = "VRR" /\ lista["READY_PRIORIDAD"] # <<>>
          THEN "READY_PRIORIDAD" ELSE "READY"

\* _atender_VRR locks READY and then READY_PRIORIDAD.
TomarReady(t) ==
  /\ EnPc(t, "pcp_tomar")
  /\ Algoritmo = "VRR"
  /\ Desocupado("READY")
  /\ Pasa(t, [hilos[t] EXCEPT !.pc = "pcp_prioridad",
                              !.tiene = @ \union {"READY"}])
  /\ UNCHANGED <<planVars, flagVars, vrr, recVars, io, cpuVars, semVars,
                 memVars, fines, caido>>

PuedeTomar(t) ==
  \/ /\ Algoritmo # "VRR"
     /\ EnPc(t, "pcp_tomar")
     /\ Desocupado("READY")
  \/ /\ EnPc(t, "pcp_prioridad")
     /\ Desocupado("READY_PRIORIDAD")

\* Under VRR, a process waiting in READY_PRIORIDAD preempts one that has a
\* whole quantum.
PidePrioridad(exec, prioridad) ==
  /\ Algoritmo = "VRR"
  /\ exec # <<>>
  /\ prioridad # <<>>
  /\ ~vrr'[Head(exec)].parcial

\* _atender_RR_FIFO does not look again: it has kept mutex_lista_exec.
SinVolverAMirar == TRUE  \* mutant: nor does _atender_VRR
ExecLibre == Algoritmo # "VRR" \/ lista["EXEC"] = <<>>

Tomar(t) ==
  /\ PuedeTomar(t)
  /\ \/ /\ ExecLibre
        /\ lista[Origen] # <<>>
        /\ ~SinTimerQueReanudar(Origen)
        /\ CabeOtroProceso
        /\ Despachar(Origen)
     \/ /\ ~ExecLibre \/ lista[Origen] = <<>>
        /\ UNCHANGED <<planVars, cpuq, quantum, vrr>>
  /\ \/ /\ PidePrioridad(lista'["EXEC"], lista'["READY_PRIORIDAD"])
        /\ CabeOtra
        /\ sem' = [sem EXCEPT !["PRIORIDAD"] = @ + 1]
     \/ /\ ~PidePrioridad(lista'["EXEC"], lista'["READY_PRIORIDAD"])
        /\ UNCHANGED sem
  /\ Vuelve(t)
  /\ UNCHANGED <<flagVars, recVars, io, cpu, irqs, canal, pasos, memVars, fines,
                 caido>>

TomarSinTimer(t) ==
  /\ PuedeTomar(t)
  /\ ExecLibre
  /\ lista[Origen] # <<>>
  /\ SinTimerQueReanudar(Origen)
  /\ Cae("puntero nulo")

-----------------------------------------------------------------------------
(* Interrupts *)

\* _programar_interrupcion_por_quantum wakes up with a ticket still valid.
VenceQuantum ==
  /\ caido = ""
  /\ "QUANTUM" \in Sucesos
  /\ quantum # Nadie
  /\ CabeOtra
  /\ quantum' = Nadie
  /\ sem' = [sem EXCEPT !["FIN_QUANTUM"] = @ + 1]
  /\ UNCHANGED <<planVars, flagVars, vrr, recVars, io, hilos, cpuVars, memVars,
                 fines, caido>>

SinEsperar(m) == TRUE  \* mutant: no sem_wait
HayQueInterrumpir(m) == sem[m] > 0

\* The sender of interrupts m names whatever process executes when it runs.
Interrumpir(m) ==
  /\ caido = ""
  /\ HayQueInterrumpir(m)
  /\ Desocupado("EXEC")
  /\ lista["EXEC"] # <<>>
  /\ sem' = [sem EXCEPT ![m] = @ - 1]
  /\ LET p == Head(lista["EXEC"]) IN
       irqs' = IF p \in flag_finalizar
               THEN Append(irqs, <<p, "DESALOJO_POR_CONSOLA">>)
               ELSE IF m = "DESALOJO_POR_CONSOLA" THEN irqs
               ELSE Append(irqs, <<p, m>>)
  /\ UNCHANGED <<planVars, flagVars, vrr, recVars, io, hilos, cpu, cpuq, canal,
                 pasos, quantum, memVars, fines, caido>>

\* list_get of an empty lista_execute, and pcb_execute->pid.
InterrumpirNulo(m) ==
  /\ caido = ""
  /\ sem[m] > 0
  /\ Desocupado("EXEC")
  /\ lista["EXEC"] = <<>>
  /\ Cae("puntero nulo")

\* _atender_motivo_desalojo: the end asked for from the console goes first.
AtenderMotivo(t) ==
  /\ EnPc(t, "motivo")
  /\ LET p == hilos[t].p IN
     \/ /\ hilos[t].op = "DESALOJO_POR_CONSOLA"
        /\ Sigue(t, "desalojar")
     \/ /\ hilos[t].op # "DESALOJO_POR_CONSOLA"
        /\ p \in flag_finalizar
        /\ PasaYLanza(t, Reposo, Arranca("desalojar", p, Nadie))
     \/ /\ hilos[t].op # "DESALOJO_POR_CONSOLA"
        /\ p \notin flag_finalizar
        /\ Sigue(t, "reubicar")
  /\ UNCHANGED <<planVars, flagVars, vrr, recVars, io, cpuVars, semVars,
                 memVars, fines, caido>>

\* _reubicar_pcb_de_execute_a_ready locks EXEC, then READY, then
\* READY_PRIORIDAD.
Reubicar(t) ==
  /\ EnPc(t, "reubicar")
  /\ Desocupado("EXEC")
  /\ Pasa(t, [hilos[t] EXCEPT !.pc = "reubicar_ready", !.tiene = {"EXEC"}])
  /\ UNCHANGED <<planVars, flagVars, vrr, recVars, io, cpuVars, semVars,
                 memVars, fines, caido>>

ReubicarReady(t) ==
  /\ EnPc(t, "reubicar_ready")
  /\ Desocupado("READY")
  /\ Pasa(t, [hilos[t] EXCEPT !.pc = "reubicar_prioridad",
                              !.tiene = @ \union {"READY"}])
  /\ UNCHANGED <<planVars, flagVars, vrr, recVars, io, cpuVars, semVars,
                 memVars, fines, caido>>

\* cambiar_estado, and the replanning that follows.
EstadoSinCambiar(p) == estado  \* mutant: no cambiar_estado
EstadoReady(p) == [estado EXCEPT ![p] = "READY"]
SinReplanificar(t) == Reposo  \* mutant: nobody replans
Replanificar(t) == LlamaPcp(t, {})

ReubicarAReady(t) ==
  /\ EnPc(t, "reubicar_prioridad")
  /\ Desocupado("READY_PRIORIDAD")
  /\ LET p == hilos[t].p IN
       /\ EnLista(p, "EXEC")
       /\ lista' = [lista EXCEPT !["EXEC"] = Sin(@, p),
                                 !["READY"] = Append(@, p)]
       /\ estado' = EstadoReady(p)
       /\ flag_desalojado' = flag_desalojado \ {p}
  /\ Pasa(t, Replanificar(t))
  /\ UNCHANGED <<flag_finalizar, vrr, recVars, io, cpuVars, semVars, memVars,
                 fines, caido>>

ReubicarAusente(t) ==
  /\ EnPc(t, "reubicar_prioridad")
  /\ Desocupado("READY_PRIORIDAD")
  /\ ~EnLista(hilos[t].p, "EXEC")
  /\ Cae("EXIT_FAILURE")

-----------------------------------------------------------------------------
(* analizarSiLoMandoAReadyOReadyPrioridad *)

\* Whether the remaining quantum is positive depends on the clock.
DestinosVRR(p) ==
  IF ~vrr[p].venia /\ vrr[p].timer THEN {"READY", "READY_PRIORIDAD"}
  ELSE {"READY"}

Destinos(p) == IF Algoritmo = "VRR" THEN DestinosVRR(p) ELSE {"READY"}

\* Past its pausador, the target list is chosen and the quantum renewed or cut.
Analizar(t) ==
  /\ EnPc(t, "analizar")
  /\ hilos[t].p # Nadie
  /\ LET p == hilos[t].p IN
     \E l \in Destinos(p) :
       /\ vrr' = IF Algoritmo # "VRR" THEN vrr
                 ELSE [vrr EXCEPT ![p].parcial = (l = "READY_PRIORIDAD")]
       /\ Pasa(t, [hilos[t] EXCEPT !.pc = "transferir", !.l = l])
  /\ UNCHANGED <<planVars, flagVars, recVars, io, cpuVars, semVars, memVars,
                 fines, caido>>

\* pcb->estado of the NULL that buscar_y_remover_pcb_por_pid returned.
AnalizarNulo(t) ==
  /\ EnPc(t, "analizar")
  /\ hilos[t].p = Nadie
  /\ Cae("puntero nulo")

\* The pcb is appended, its timer destroyed, mutex_lista_blocked released if it
\* was held, and the caller replans; asignar_recurso_liberado_pcb does so
\* holding the mutex of the resource.
AgregarAReady(t) ==
  /\ \E l \in {"READY", "READY_PRIORIDAD"} : Agregar(t, l)
  /\ vrr' = [vrr EXCEPT ![hilos[t].p].timer = FALSE]
  /\ Pasa(t, LlamaPcp(t, hilos[t].tiene \ {"BLOCKED"}))
  /\ UNCHANGED <<estado, flagVars, recVars, io, cpuVars, semVars, memVars,
                 fines, caido>>

HiloCortoPlazo(t) ==
  \/ MirarReady(t) \/ TomarExec(t) \/ TomarReady(t) \/ Tomar(t)
  \/ TomarSinTimer(t) \/ AtenderMotivo(t) \/ Reubicar(t) \/ ReubicarReady(t)
  \/ ReubicarAReady(t) \/ ReubicarAusente(t) \/ Analizar(t)
  \/ AnalizarNulo(t) \/ AgregarAReady(t)
=============================================================================
