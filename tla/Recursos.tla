------------------------------ MODULE Recursos ------------------------------
(***************************************************************************)
(* WAIT and SIGNAL (atender_wait and atender_signal of                     *)
(* kernel_cpu_dispatch.c, recurso.c) and the hand-over of an instance to   *)
(* the first process blocked on it (pcb.c).  lista_bloqueados has a mutex; *)
(* the dispatch thread tests and changes the counter without it, so that   *)
(* its `++' and `--', a load and a store each, may lose those of others.   *)
(***************************************************************************)
EXTENDS CortoPlazo

\* Thread t has read the counter of resource r, and goes on at pc.
Leido(h, pc, r) == [h EXCEPT !.pc = pc, !.n = instancias[r]]

\* The dispatch thread has the request of a process p that is in EXEC, and
\* looks at the counter ...
WaitConcedido(p, r) ==
  /\ r # Nadie
  /\ instancias[r] > 0
  /\ Pasa(Despacho, Arranca("wait_leer", p, r))
  /\ UNCHANGED <<planVars, vrr, recVars, cpuq>>

\* ... which it reads again to take one from it ...
WaitLeer(t) ==
  /\ EnPc(t, "wait_leer")
  /\ Pasa(t, Leido(hilos[t], "wait_resta", hilos[t].r))
  /\ UNCHANGED <<planVars, flagVars, vrr, recVars, io, cpuVars, semVars,
                 memVars, fines, caido>>

\* ... and writes.
WaitRestar(t) ==
  /\ EnPc(t, "wait_resta")
  /\ LET p == hilos[t].p
         r == hilos[t].r IN
       /\ instancias' = [instancias EXCEPT ![r] = hilos[t].n - 1]
       /\ recursos_pcb' = [recursos_pcb EXCEPT ![p] = Append(@, r)]
  /\ cpuq' = Append(cpuq, RTA("1"))
  /\ Vuelve(t)
  /\ UNCHANGED <<planVars, flagVars, vrr, cola_recurso, io, cpu, irqs, canal,
                 pasos, semVars, memVars, fines, caido>>

\* Under VRR the timer is read (and stopped) first: see WaitSinTimer.
WaitNegado(p, r) ==
  /\ r # Nadie
  /\ instancias[r] <= 0
  /\ Algoritmo = "VRR" => vrr[p].timer
  /\ cpuq' = Append(cpuq, RTA("-1"))
  /\ Pasa(Despacho, Arranca("wait_bloquear", p, r))
  /\ UNCHANGED <<planVars, vrr, recVars>>

\* pcb->timer->status when the last I/O left the pcb without a timer.
WaitSinTimer(p, r) ==
  /\ r # Nadie
  /\ instancias[r] <= 0
  /\ Algoritmo = "VRR"
  /\ ~vrr[p].timer

\* A resource that does not exist: the pcb is transferred to EXIT while it is in
\* EXEC ...
WaitDesconocido(p, r) ==
  /\ r = Nadie
  /\ Pasa(Despacho, [Arranca("transferir", p, Nadie) EXCEPT !.op = "wait",
                                                             !.l = "EXIT"])
  /\ UNCHANGED <<planVars, vrr, recVars, cpuq>>

\* ... and then goes through plp_exit.
AgregarDesconocido(t) ==
  /\ Agregar(t, "EXIT")
  /\ hilos[t].op = "wait"
  /\ cpuq' = Append(cpuq, RTA("-1"))
  /\ Pasa(t, Arranca("plp_exit", hilos[t].p, Nadie))
  /\ UNCHANGED <<estado, flagVars, vrr, recVars, io, cpu, irqs, canal, pasos,
                 semVars, memVars, fines, caido>>

AtenderWait(p, r) ==
  \/ WaitConcedido(p, r) \/ WaitNegado(p, r) \/ WaitDesconocido(p, r)

\* The head of EXEC leaves it, whoever it is.
ExecIntacta == lista["EXEC"]  \* mutant: no list_remove
ExecSinCabeza == IF lista["EXEC"] = <<>> THEN <<>> ELSE Tail(lista["EXEC"])

\* The transfer locks mutex_lista_blocked itself.
ABlocked(t) ==
  [hilos[t] EXCEPT !.pc = "transferir", !.op = "wait", !.l = "BLOCKED"]

\* The request joins the pcb's list.
WaitBloquear(t) ==
  /\ EnPc(t, "wait_bloquear")
  /\ Desocupado("EXEC")
  /\ LET p == hilos[t].p
         r == hilos[t].r IN
       /\ lista' = [lista EXCEPT !["EXEC"] = ExecSinCabeza]
       /\ recursos_pcb' = [recursos_pcb EXCEPT ![p] = Append(@, r)]
       /\ Pasa(t, ABlocked(t))
  /\ UNCHANGED <<estado, flagVars, vrr, instancias, cola_recurso, io, cpuVars,
                 semVars, memVars, fines, caido>>

ColaSinPedido(p, r) == cola_recurso  \* mutant: no list_add
ColaConPedido(p, r) == [cola_recurso EXCEPT ![r] = Append(@, p)]

\* agregar_pcb_a_lista_recurso, whose mutex is again a copy.
WaitEncolar(t) ==
  /\ EnPc(t, "wait_encolar")
  /\ LET p == hilos[t].p
         r == hilos[t].r IN
     \/ /\ Desocupado(r)
        /\ cola_recurso' = ColaConPedido(p, r)
        /\ Pasa(t, LlamaPcp(t, {}))
     \/ /\ ~Desocupado(r)
        /\ Sigue(t, "colgado")
        /\ UNCHANGED cola_recurso
  /\ UNCHANGED <<planVars, flagVars, vrr, recursos_pcb, instancias, io, cpuVars,
                 semVars, memVars, fines, caido>>

NadieEspera(r) == FALSE  \* mutant: nothing is handed over
AlguienEspera(r) == cola_recurso[r] # <<>>

SignalAceptado(p, r) ==
  /\ r # Nadie
  /\ Contains(recursos_pcb[p], r)
  /\ recursos_pcb' = [recursos_pcb EXCEPT ![p] = Sin(@, r)]
  /\ Pasa(Despacho, Leido(Arranca("signal_suma", p, r), "signal_suma", r))
  /\ UNCHANGED <<planVars, vrr, instancias, cola_recurso, cpuq>>

\* The instance is handed over in this same thread when somebody waits for it.
SignalSumar(t) ==
  /\ EnPc(t, "signal_suma")
  /\ LET r == hilos[t].r IN
       /\ instancias' = [instancias EXCEPT ![r] = hilos[t].n + 1]
       /\ IF AlguienEspera(r) THEN Pasa(t, Arranca("asignar", Nadie, r))
          ELSE Vuelve(t)
  /\ cpuq' = Append(cpuq, RTA("1"))
  /\ UNCHANGED <<planVars, flagVars, vrr, recursos_pcb, cola_recurso, io, cpu,
                 irqs, canal, pasos, semVars, memVars, fines, caido>>

\* The pcb is still in EXEC for plp_exit to find it there.
DejandoEnExec(p) == lista

SignalRechazado(p, r) ==
  /\ r = Nadie \/ ~Contains(recursos_pcb[p], r)
  /\ cpuq' = Append(cpuq, RTA("-1"))
  /\ Pasa(Despacho, Arranca("plp_exit", p, Nadie))
  /\ lista' = DejandoEnExec(p)
  /\ UNCHANGED <<estado, vrr, recVars>>

AtenderSignal(p, r) == SignalAceptado(p, r) \/ SignalRechazado(p, r)

\* asignar_recurso_liberado_pcb keeps the mutex of r from here until the
\* replanning it ends with; it does not look at the counter.
Asignar(t) ==
  /\ EnPc(t, "asignar")
  /\ LET r == hilos[t].r IN
     /\ Desocupado(r)
     /\ \/ /\ cola_recurso[r] = <<>>
           /\ Vuelve(t)
           /\ UNCHANGED cola_recurso
        \/ /\ cola_recurso[r] # <<>>
           /\ cola_recurso' = [cola_recurso EXCEPT ![r] = Tail(@)]
           /\ Pasa(t, [Leido(hilos[t], "asignar_resta", r) EXCEPT
                         !.p = Head(cola_recurso[r]), !.tiene = {r}])
  /\ UNCHANGED <<planVars, flagVars, vrr, recursos_pcb, instancias, io, cpuVars,
                 semVars, memVars, fines, caido>>

AsignarRestar(t) ==
  /\ EnPc(t, "asignar_resta")
  /\ instancias' = [instancias EXCEPT ![hilos[t].r] = hilos[t].n - 1]
  /\ Pasa(t, [hilos[t] EXCEPT !.pc = "desbloquear", !.n = 0])
  /\ UNCHANGED <<planVars, flagVars, vrr, recursos_pcb, cola_recurso, io,
                 cpuVars, semVars, memVars, fines, caido>>

\* desbloquear_proceso_por_pid: nothing happens to a process that is no longer
\* in lista_blocked.
Desbloquear(t) ==
  /\ EnPc(t, "desbloquear")
  /\ Desocupado("BLOCKED")
  /\ LET p == hilos[t].p IN
     \/ /\ EnLista(p, "BLOCKED")
        /\ lista' = [lista EXCEPT !["BLOCKED"] = Sin(@, p)]
        /\ Pasa(t, [hilos[t] EXCEPT !.pc = "analizar", !.op = "asignar",
                                    !.tiene = @ \union {"BLOCKED"}])
     \/ /\ ~EnLista(p, "BLOCKED")
        /\ Pasa(t, LlamaPcp(t, hilos[t].tiene))
        /\ UNCHANGED lista
  /\ UNCHANGED <<estado, flagVars, vrr, recVars, io, cpuVars, semVars, memVars,
                 fines, caido>>

HiloRecursos(t) ==
  \/ AgregarDesconocido(t) \/ WaitLeer(t) \/ WaitRestar(t) \/ WaitBloquear(t)
  \/ WaitEncolar(t) \/ SignalSumar(t) \/ Asignar(t) \/ AsignarRestar(t)
  \/ Desbloquear(t)
=============================================================================
