------------------------------ MODULE Despacho ------------------------------
(***************************************************************************)
(* The thread that serves the dispatch socket (atender_kernel_cpu_dispatch *)
(* of kernel_cpu_dispatch.c): it takes one message of the CPU at a time    *)
(* and runs the whole service, replanning included, before the next one.   *)
(* The I/O services and the threads that hear the interfaces               *)
(* (kernel_entradasalida.c, entrada_salida.c) are here too.                *)
(***************************************************************************)
EXTENDS Recursos

Instrucciones == {"WAIT", "SIGNAL", "IO", "IO_INADMISIBLE", "IO_DESCONOCIDA"}

-----------------------------------------------------------------------------
(* I/O requests *)

\* The interface admits the operation: the process leaves EXEC for BLOCKED and,
\* as `libre' was when it was read, starts at once or goes to the queue.
AtenderIO(p, i) ==
  /\ lista' = [lista EXCEPT !["EXEC"] = Sin(@, p)]
  /\ Pasa(Despacho, [Arranca("transferir", p, i) EXCEPT !.l = "BLOCKED",
                       !.op = IF io[i].libre THEN "io_libre" ELSE "io_ocupada"])
  /\ UNCHANGED <<estado, vrr, recVars, cpuq>>

\* IO_GEN_SLEEP ends the process itself; the other operations go through
\* plp_planificar_proceso_exit, the console's way.
AtenderInadmisible(p, tipo) ==
  /\ Pasa(Despacho,
          IF tipo = "GENERICA" THEN Arranca("plp_exit", p, Nadie)
          ELSE [Arranca("buscar", p, Nadie) EXCEPT !.op = "finalizar",
                                                   !.l = "NEW"])
  /\ UNCHANGED <<planVars, vrr, recVars, cpuq>>

\* IO_GEN_SLEEP on an interface nobody connected is only logged.
AtenderDesconocida(tipo) ==
  /\ tipo = "GENERICA"
  /\ Vuelve(Despacho)
  /\ UNCHANGED <<planVars, vrr, recVars, cpuq>>

\* In lista_blocked: the process joins the queue of what it waits for.
AgregarABlocked(t) ==
  /\ Agregar(t, "BLOCKED")
  /\ Sigue(t, CASE hilos[t].op = "wait" -> "wait_encolar"
                [] hilos[t].op = "io_libre" -> "io_mandar"
                [] OTHER -> "io_encolar")
  /\ UNCHANGED <<estado, flagVars, vrr, recVars, io, cpuVars, semVars, memVars,
                 fines, caido>>

MandarIO(t) ==
  /\ EnPc(t, "io_mandar")
  /\ io' = [io EXCEPT ![hilos[t].r].libre = FALSE,
                      ![hilos[t].r].pedido = hilos[t].p]
  /\ Pasa(t, LlamaPcp(t, {}))
  /\ UNCHANGED <<planVars, flagVars, vrr, recVars, cpuVars, semVars, memVars,
                 fines, caido>>

\* Nothing is replanned when the process had to queue.
EncolarIO(t) ==
  /\ EnPc(t, "io_encolar")
  /\ io' = [io EXCEPT ![hilos[t].r].espera = Append(@, hilos[t].p)]
  /\ Vuelve(t)
  /\ UNCHANGED <<planVars, flagVars, vrr, recVars, cpuVars, semVars, memVars,
                 fines, caido>>

-----------------------------------------------------------------------------
(* The end of an I/O: atender_fin_entradasalida, in the interface's thread *)

FinEntradaSalida(i) ==
  /\ EnPc(i, "reposo")
  /\ io[i].pedido # Nadie
  /\ io' = [io EXCEPT ![i].pedido = Nadie]
  /\ LET p == io[i].pedido IN
     \/ Pasa(i, [Arranca("buscar", p, Nadie) EXCEPT !.op = "fin", !.l = "NEW"])
     \/ /\ "IO_ERROR" \in Sucesos
        /\ Pasa(i, Arranca("plp_exit",
                           IF EnLista(p, "BLOCKED") THEN p ELSE Nadie, Nadie))
  /\ UNCHANGED <<planVars, flagVars, vrr, recVars, cpuVars, semVars, memVars,
                 fines, caido>>

\* The queue after its first was popped.
SinSacar(i) == io[i].espera  \* mutant: queue_peek
Restantes(i) == Tail(io[i].espera)

\* The queue is tested with no mutex, and `libre' is set afterwards.
SiguienteIO(i) ==
  /\ EnPc(i, "io_siguiente")
  /\ \/ /\ io[i].espera # <<>>
        /\ io' = [io EXCEPT ![i].espera = Restantes(i),
                            ![i].pedido = Head(io[i].espera)]
        /\ Sigue(i, "analizar")
     \/ /\ io[i].espera = <<>>
        /\ Sigue(i, "io_liberar")
        /\ UNCHANGED io
  /\ UNCHANGED <<planVars, flagVars, vrr, recVars, cpuVars, semVars, memVars,
                 fines, caido>>

\* The one number an IO_GEN_SLEEP carries was freed by the dispatch thread: the
\* queued copy of the mochila shares it, and to read and free it again may go
\* unnoticed, as in SiguienteIO, or end the kernel.
SiguienteIOLiberada(i) ==
  /\ EnPc(i, "io_siguiente")
  /\ "GENERICA" \in Sucesos
  /\ io[i].espera # <<>>
  /\ Cae("doble_free")

LiberarIO(i) ==
  /\ EnPc(i, "io_liberar")
  /\ io' = [io EXCEPT ![i].libre = TRUE]
  /\ Sigue(i, "analizar")
  /\ UNCHANGED <<planVars, flagVars, vrr, recVars, cpuVars, semVars, memVars,
                 fines, caido>>

-----------------------------------------------------------------------------
(* The messages of the CPU *)

\* obtener_proceso_desalojado takes mutex_lista_exec.
HayMensaje ==
  /\ EnPc(Despacho, "reposo")
  /\ canal # <<>>
  /\ Desocupado("EXEC")

Actual == Head(canal)

Presente == EnLista(Actual.p, "EXEC")

\* flag_cancelar_quantum voids the ticket of the quantum thread.
Recibido ==
  /\ canal' = Tail(canal)
  /\ quantum' = IF quantum = Actual.p THEN Nadie ELSE quantum
  /\ flag_desalojado' = flag_desalojado \union {Actual.p}

\* The context is of a process that is no longer in EXEC.
RecibirAusente ==
  /\ HayMensaje
  /\ ~Presente
  /\ canal' = Tail(canal)
  /\ cpuq' = IF Actual.t \in Instrucciones THEN Append(cpuq, RTA("-1"))
             ELSE cpuq
  /\ UNCHANGED <<planVars, flagVars, vrr, recVars, io, hilos, cpu, irqs, pasos,
                 semVars, memVars, fines, caido>>

\* A process to be finalised is taken out instead of being served, and the CPU
\* gets no answer.
RecibirFinalizado ==
  /\ HayMensaje
  /\ Presente
  /\ Actual.t \in Instrucciones
  /\ Actual.p \in flag_finalizar
  /\ Recibido
  /\ Lanza(Arranca("desalojar", Actual.p, Nadie))
  /\ UNCHANGED <<planVars, flag_finalizar, vrr, recVars, io, cpu, cpuq, irqs,
                 pasos, sem, memVars, fines, caido>>

Sirve == HayMensaje /\ Presente /\ Actual.p \notin flag_finalizar

RecibirInstruccion ==
  /\ Sirve
  /\ Recibido
  /\ \/ Actual.t = "WAIT" /\ AtenderWait(Actual.p, Actual.x)
     \/ Actual.t = "SIGNAL" /\ AtenderSignal(Actual.p, Actual.x)
     \/ Actual.t = "IO" /\ AtenderIO(Actual.p, Actual.x)
     \/ Actual.t = "IO_INADMISIBLE" /\ AtenderInadmisible(Actual.p, Actual.x)
     \/ Actual.t = "IO_DESCONOCIDA" /\ AtenderDesconocida(Actual.x)
  /\ UNCHANGED <<flag_finalizar, io, cpu, irqs, pasos, sem, memVars, fines,
                 caido>>

\* instancia_entradasalida->nombre of an interface that was not found, and the
\* timer a WAIT does not find.
RecibirInstruccionNulo ==
  /\ Sirve
  /\ \/ Actual.t = "WAIT" /\ WaitSinTimer(Actual.p, Actual.x)
     \/ Actual.t = "IO_DESCONOCIDA" /\ Actual.x = "OTRA"
  /\ Cae("puntero nulo")

\* destruir_pcb_con_mochila of a rejected IO_GEN_SLEEP reads a mochila that was
\* never set: what it finds may be NULL, as in AtenderInadmisible, or not.
RecibirInadmisibleSinIniciar ==
  /\ Sirve
  /\ Actual.t = "IO_INADMISIBLE"
  /\ Actual.x = "GENERICA"
  /\ Cae("sin_iniciar")

RecibirDesalojo ==
  /\ HayMensaje
  /\ Presente
  /\ Actual.t = "DESALOJO"
  /\ Recibido
  /\ vrr' = IF Actual.x = "PRIORIDAD"
            THEN [vrr EXCEPT ![Actual.p].prioridad = TRUE] ELSE vrr
  /\ Pasa(Despacho, [Arranca("motivo", Actual.p, Nadie) EXCEPT !.op = Actual.x])
  /\ UNCHANGED <<planVars, flag_finalizar, recVars, io, cpu, cpuq, irqs, pasos,
                 sem, memVars, fines, caido>>

\* ATENDER_EXIT and ATENDER_OUT_OF_MEMORY
RecibirFin ==
  /\ HayMensaje
  /\ Presente
  /\ Actual.t \in {"ATENDER_EXIT", "ATENDER_OUT_OF_MEMORY"}
  /\ Recibido
  /\ Pasa(Despacho, Arranca("plp_exit", Actual.p, Nadie))
  /\ UNCHANGED <<planVars, flag_finalizar, vrr, recVars, io, cpu, cpuq, irqs,
                 pasos, sem, memVars, fines, caido>>

RecibirDelCpu ==
  \/ RecibirAusente \/ RecibirFinalizado \/ RecibirInstruccion
  \/ RecibirInstruccionNulo \/ RecibirInadmisibleSinIniciar \/ RecibirDesalojo
  \/ RecibirFin

HiloDespacho(t) == AgregarABlocked(t) \/ MandarIO(t) \/ EncolarIO(t)

HiloInterfaz(i) ==
  FinEntradaSalida(i) \/ SiguienteIO(i) \/ SiguienteIOLiberada(i) \/ LiberarIO(i)
=============================================================================
