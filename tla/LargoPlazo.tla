----------------------------- MODULE LargoPlazo -----------------------------
(***************************************************************************)
(* The long-term scheduler (planificador_largo_plazo.c) and the parts of   *)
(* pcb.c it is made of: admission of new processes up to the degree of     *)
(* multiprogramming, and the end of a process, whichever list it is in.    *)
(***************************************************************************)
EXTENDS KernelEstado

-----------------------------------------------------------------------------
(* Admission *)

\* Console command INICIAR_PROCESO: crear_pcb, then a detached thread.
IniciarProceso(p) ==
  /\ caido = ""
  /\ estado[p] = "NINGUNO"
  /\ \A q \in Pids : q < p => estado[q] # "NINGUNO"
  /\ \A t \in Hilos : hilos[t].pc # "nuevo"
  /\ Lanza(Arranca("nuevo", p, Nadie))
  /\ UNCHANGED <<planVars, flagVars, vrr, recVars, io, cpuVars, semVars,
                 memVars, fines, caido>>

\* plp_planificar_proceso_nuevo; the thread it spawns goes on as plp_planifica.
Nuevo(t) ==
  /\ EnPc(t, "nuevo")
  /\ Desocupado("NEW")
  /\ LET p == hilos[t].p IN
       /\ lista' = [lista EXCEPT !["NEW"] = Append(@, p)]
       /\ estado' = [estado EXCEPT ![p] = "NEW"]
  /\ Pasa(t, Arranca("plp", Nadie, Nadie))
  /\ UNCHANGED <<flagVars, vrr, recVars, io, cpuVars, semVars, memVars, fines,
                 caido>>

\* plp_planifica keeps mutex_lista_new while it waits for a slot ...
TomarNew(t) ==
  /\ EnPc(t, "plp")
  /\ Desocupado("NEW")
  /\ Pasa(t, [hilos[t] EXCEPT !.pc = "plp_cupo", !.tiene = {"NEW"}])
  /\ UNCHANGED <<planVars, flagVars, vrr, recVars, io, cpuVars, semVars,
                 memVars, fines, caido>>

\* ESTRUCTURA_INICIADA_KERNEL_MEMORIA, and its answer.
SinIniciarEnMemoria(p) == iniciados  \* mutant: memoria is not told
IniciarEnMemoria(p) == iniciados \union {p}

\* ... and while memoria builds the structures of the first of the list.  The
\* slot is spent even when FINALIZAR_PROCESO has emptied the list.
TomarCupo(t) ==
  /\ EnPc(t, "plp_cupo")
  /\ cupo > 0
  /\ cupo' = cupo - 1
  /\ \/ /\ lista["NEW"] = <<>>
        /\ Pasa(t, LlamaPcp(t, {}))
        /\ UNCHANGED <<lista, iniciados>>
     \/ /\ lista["NEW"] # <<>>
        /\ LET p == Head(lista["NEW"]) IN
             /\ lista' = [lista EXCEPT !["NEW"] = Tail(@)]
             /\ iniciados' = IniciarEnMemoria(p)
             /\ Pasa(t, [hilos[t] EXCEPT !.pc = "plp_ready", !.p = p])
  /\ UNCHANGED <<estado, flagVars, vrr, recVars, io, cpuVars, semVars, fines,
                 caido>>

PasarAReady(t) ==
  /\ EnPc(t, "plp_ready")
  /\ Desocupado("READY")
  /\ LET p == hilos[t].p IN
       /\ estado' = [estado EXCEPT ![p] = "READY"]
       /\ lista' = [lista EXCEPT !["READY"] = Append(@, p)]
  /\ Pasa(t, LlamaPcp(t, {}))
  /\ UNCHANGED <<flagVars, vrr, recVars, io, cpuVars, semVars, memVars, fines,
                 caido>>

-----------------------------------------------------------------------------
(* Lookup of a pcb by pid, one list at a time *)

Siguiente == [NEW |-> "READY", READY |-> "EXEC", EXEC |-> "EXIT",
              EXIT |-> "BLOCKED", BLOCKED |-> ""]

\* What the callers of buscar_y_remover_pcb_por_pid do with its result q:
\* plp_planificar_proceso_exit reads the pcb at once, atender_fin_entradasalida
\* keeps it for later.
Encontrado(t, q) ==
  \/ /\ hilos[t].op = "fin"
     /\ Pasa(t, [hilos[t] EXCEPT !.pc = "io_siguiente", !.p = q, !.l = ""])
     /\ UNCHANGED flag_finalizar
  \/ /\ hilos[t].op = "finalizar"
     /\ q # Nadie
     /\ Pasa(t, [hilos[t] EXCEPT !.pc = "segun_estado", !.l = ""])
     /\ flag_finalizar' =
          IF estado[q] = "EXEC" /\ q \in flag_desalojado
          THEN flag_finalizar \union {q} ELSE flag_finalizar

Buscar(t) ==
  /\ EnPc(t, "buscar")
  /\ LET l == hilos[t].l
         p == hilos[t].p IN
     /\ Desocupado(l)
     /\ \/ /\ EnLista(p, l)
           /\ lista' = IF l \in {"NEW", "READY", "BLOCKED"}
                       THEN [lista EXCEPT ![l] = Sin(@, p)] ELSE lista
           /\ Encontrado(t, p)
        \/ /\ ~EnLista(p, l)
           /\ Siguiente[l] # ""
           /\ Pasa(t, [hilos[t] EXCEPT !.l = Siguiente[l]])
           /\ UNCHANGED <<lista, flag_finalizar>>
        \/ /\ ~EnLista(p, l)
           /\ Siguiente[l] = ""
           /\ Encontrado(t, Nadie)
           /\ UNCHANGED lista
  /\ UNCHANGED <<estado, flag_desalojado, vrr, recVars, io, cpuVars, semVars,
                 memVars, fines, caido>>

\* un_pcb->estado of a pid that is in none of the lists.
BuscarNulo(t) ==
  /\ EnPc(t, "buscar")
  /\ hilos[t].l = "BLOCKED"
  /\ hilos[t].op = "finalizar"
  /\ Desocupado("BLOCKED")
  /\ ~EnLista(hilos[t].p, "BLOCKED")
  /\ Cae("puntero nulo")

-----------------------------------------------------------------------------
(* The end of a process *)

\* Console command FINALIZAR_PROCESO, for a process in one of the states the
\* instance covers; "NINGUNO" stands for a pid that does not exist.
FinalizarProceso(p) ==
  /\ caido = ""
  /\ fines < MaxFin
  /\ estado[p] \in EstadosFinalizables
  /\ fines' = fines + 1
  /\ Lanza([Arranca("buscar", p, Nadie) EXCEPT !.op = "finalizar", !.l = "NEW"])
  /\ UNCHANGED <<planVars, flagVars, vrr, recVars, io, cpuVars, semVars,
                 memVars, caido>>

\* Thread t, which has just locked l, ends its process: it releases the
\* resources (not of a NEW process), tells memoria and moves it to EXIT.
Terminar(t, op, l, rs) ==
  Pasa(t, [hilos[t] EXCEPT !.pc = IF rs = <<>> THEN "avisar" ELSE "liberar",
                           !.op = op, !.rs = rs, !.tiene = {l}])

\* The switch of plp_planificar_proceso_exit, on the state the pcb has by now.
SegunEstado(t) ==
  /\ EnPc(t, "segun_estado")
  /\ LET p == hilos[t].p
         e == estado[p] IN
     \/ /\ e = "NEW"
        /\ Desocupado(e)
        /\ Terminar(t, "finalizar_nuevo", e, <<>>)
        /\ UNCHANGED <<flag_finalizar, sem>>
     \/ /\ e \in {"READY", "READY_PRIORIDAD", "BLOCKED"}
        /\ Desocupado(e)
        /\ Terminar(t, "finalizar", e, recursos_pcb[p])
        /\ UNCHANGED <<flag_finalizar, sem>>
     \/ /\ e = "EXEC"
        /\ flag_finalizar' = flag_finalizar \union {p}
        /\ sem' = [sem EXCEPT !["DESALOJO_POR_CONSOLA"] = @ + 1]
        /\ Vuelve(t)
     \/ /\ e = "EXIT"
        /\ Desocupado(e)
        /\ EnLista(p, "EXIT")
        /\ Vuelve(t)
        /\ UNCHANGED <<flag_finalizar, sem>>
  /\ UNCHANGED <<planVars, flag_desalojado, vrr, recVars, io, cpuVars, quantum,
                 memVars, fines, caido>>

\* A pcb marked EXIT by a thread that has still to list it.
SegunEstadoAusente(t) ==
  /\ EnPc(t, "segun_estado")
  /\ estado[hilos[t].p] = "EXIT"
  /\ Desocupado("EXIT")
  /\ ~EnLista(hilos[t].p, "EXIT")
  /\ Cae("EXIT_FAILURE")

\* plp_exit and _desalojar_proceso: from EXEC only, and only if still there.
SalirDeExec(t) ==
  /\ \E op \in {"plp_exit", "desalojar"} :
       /\ EnPc(t, op)
       /\ Desocupado("EXEC")
       /\ hilos[t].p # Nadie
       /\ EnLista(hilos[t].p, "EXEC")
       /\ lista' = [lista EXCEPT !["EXEC"] = Sin(@, hilos[t].p)]
       /\ Terminar(t, op, "EXEC", recursos_pcb[hilos[t].p])
  /\ UNCHANGED <<estado, flagVars, vrr, recVars, io, cpuVars, semVars, memVars,
                 fines, caido>>

SalirDeExecAusente(t) ==
  /\ \E op \in {"plp_exit", "desalojar"} : EnPc(t, op)
  /\ Desocupado("EXEC")
  /\ hilos[t].p = Nadie \/ ~EnLista(hilos[t].p, "EXEC")
  /\ Cae("EXIT_FAILURE")

\* What thread h, which ends a process, does after the first of its resources.
OtroRecurso(h) ==
  [h EXCEPT !.rs = Tail(@),
            !.pc = IF Tail(h.rs) = <<>> THEN "avisar" ELSE "liberar"]

\* One turn of liberar_recursos_pcb: a request still queued is withdrawn; an
\* instance granted goes back.
LiberarRecurso(t) ==
  /\ EnPc(t, "liberar")
  /\ LET p == hilos[t].p
         r == Head(hilos[t].rs) IN
     /\ Desocupado(r)
     /\ \/ /\ Contains(cola_recurso[r], p)
           /\ cola_recurso' = [cola_recurso EXCEPT ![r] = Sin(@, p)]
           /\ recursos_pcb' = [recursos_pcb EXCEPT ![p] = Sin(@, r)]
           /\ Pasa(t, OtroRecurso(hilos[t]))
        \/ /\ ~Contains(cola_recurso[r], p)
           /\ Pasa(t, [hilos[t] EXCEPT !.pc = "liberar_suma",
                         !.n = instancias[r], !.tiene = @ \union {r}])
           /\ UNCHANGED <<recursos_pcb, cola_recurso>>
  /\ UNCHANGED <<planVars, flagVars, vrr, instancias, io, cpuVars, semVars,
                 memVars, fines, caido>>

\* The mutex of the resource is kept from the load of `instancias++' to the
\* start of the thread that looks for whom to give the instance to.
LiberarSumar(t) ==
  /\ EnPc(t, "liberar_suma")
  /\ LET r == Head(hilos[t].rs) IN
       /\ instancias' = [instancias EXCEPT ![r] = hilos[t].n + 1]
       /\ PasaYLanza(t, [OtroRecurso(hilos[t]) EXCEPT !.n = 0, !.tiene = @ \ {r}],
                     Arranca("asignar", Nadie, r))
  /\ UNCHANGED <<planVars, flagVars, vrr, recursos_pcb, cola_recurso, io,
                 cpuVars, semVars, memVars, fines, caido>>

\* avisar_a_memoria_para_liberar_estructuras and the wait for its answer.
AvisarMemoria(t) ==
  /\ EnPc(t, "avisar")
  /\ hilos[t].p \in iniciados
  /\ iniciados' = iniciados \ {hilos[t].p}
  /\ Pasa(t, [hilos[t] EXCEPT !.pc = "transferir", !.l = "EXIT"])
  /\ UNCHANGED <<planVars, flagVars, vrr, recVars, io, cpuVars, semVars, cupo,
                 fines, caido>>

\* memoria dies of a pid it does not know (eliminar_proceso).
AvisarDesconocido(t) ==
  /\ EnPc(t, "avisar")
  /\ hilos[t].p \notin iniciados
  /\ Cae("memoria")

\* transferir_from_actual_to_siguiente changes the state before it lists the
\* pcb.  The mutex of the list is passed by value: a copy taken while the mutex
\* is held stays locked, and its thread never gets past it.
Transferir(t) ==
  /\ EnPc(t, "transferir")
  /\ estado' = [estado EXCEPT ![hilos[t].p] = hilos[t].l]
  /\ Sigue(t, IF Desocupado(hilos[t].l) THEN "agregar" ELSE "colgado")
  /\ UNCHANGED <<lista, flagVars, vrr, recVars, io, cpuVars, semVars, memVars,
                 fines, caido>>

\* agregar_pcb_lista, as the end of the transfer to list l.
Agregar(t, l) ==
  /\ EnPc(t, "agregar")
  /\ hilos[t].l = l
  /\ lista' = [lista EXCEPT ![l] = Append(@, hilos[t].p)]

\* sem_post(&sem_procesos_en_memoria), but for a process that never left NEW.
CupoSinDevolver(op) == cupo  \* mutant: no sem_post
CupoDevuelto(op) == IF op = "finalizar_nuevo" THEN cupo ELSE cupo + 1

\* In EXIT: the unlock and the sem_post that follow the transfer, and what the
\* caller does next.
AgregarAExit(t) ==
  /\ Agregar(t, "EXIT")
  /\ hilos[t].op # "wait"
  /\ LET p == hilos[t].p
         op == hilos[t].op IN
       /\ cupo' = CupoDevuelto(op)
       /\ IF op = "desalojar"
          THEN /\ flag_finalizar' = flag_finalizar \ {p}
               /\ flag_desalojado' = flag_desalojado \ {p}
          ELSE UNCHANGED flagVars
       /\ IF op \in {"plp_exit", "desalojar"}
          THEN Pasa(t, LlamaPcp(t, {})) ELSE Vuelve(t)
  /\ UNCHANGED <<estado, vrr, recVars, io, cpuVars, semVars, iniciados, fines,
                 caido>>

HiloLargoPlazo(t) ==
  \/ Nuevo(t) \/ TomarNew(t) \/ TomarCupo(t) \/ PasarAReady(t)
  \/ Buscar(t) \/ BuscarNulo(t) \/ SegunEstado(t) \/ SegunEstadoAusente(t)
  \/ SalirDeExec(t) \/ SalirDeExecAusente(t) \/ LiberarRecurso(t)
  \/ LiberarSumar(t) \/ AvisarMemoria(t) \/ AvisarDesconocido(t) \/ Transferir(t)
  \/ AgregarAExit(t)
=============================================================================
