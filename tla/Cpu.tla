-------------------------------- MODULE Cpu --------------------------------
(***************************************************************************)
(* The CPU process seen from its sockets (cpu_kernel_dispatch.c,           *)
(* cpu_kernel_interrupt.c and the system calls of ciclo_instruccion.c).    *)
(* There is one context, overwritten as soon as a process arrives, and one *)
(* interrupt flag; the instruction loop holds mutex_tipo_desalojo, so a    *)
(* process that arrives early waits for the loop of the one before.        *)
(***************************************************************************)
EXTENDS Despacho

\* atender_cpu_kernel_dispatch
CpuRecibe ==
  /\ caido = ""
  /\ cpuq # <<>>
  /\ cpuq' = Tail(cpuq)
  /\ LET m == Head(cpuq) IN
     \/ /\ m.t = "EJECUTAR"
        /\ cpu' = [cpu EXCEPT !.ctx = m.p, !.pendientes = @ + 1]
     \/ /\ m.t = "RTA"
        /\ cpu' = [cpu EXCEPT !.rta = @ + 1, !.negada = @ \/ m.v = "-1"]
  /\ UNCHANGED <<planVars, flagVars, vrr, recVars, io, hilos, irqs, canal,
                 pasos, semVars, memVars, fines, caido>>

\* The thread of atender_proceso_kernel gets mutex_tipo_desalojo.
CpuEmpieza ==
  /\ caido = ""
  /\ cpu.modo = "libre"
  /\ cpu.pendientes > 0
  /\ cpu' = [cpu EXCEPT !.modo = "ejecuta", !.pendientes = @ - 1]
  /\ UNCHANGED <<planVars, flagVars, vrr, recVars, io, hilos, cpuq, irqs, canal,
                 pasos, semVars, memVars, fines, caido>>

\* manejar_interrupcion compares the pid with the context, executing or not.
CpuInterrupcion ==
  /\ caido = ""
  /\ irqs # <<>>
  /\ irqs' = Tail(irqs)
  /\ cpu' = IF Head(irqs)[1] = cpu.ctx
            THEN [cpu EXCEPT !.irq = Head(irqs)[2]] ELSE cpu
  /\ UNCHANGED <<planVars, flagVars, vrr, recVars, io, hilos, cpuq, canal,
                 pasos, semVars, memVars, fines, caido>>

-----------------------------------------------------------------------------
(* System calls.  Other instructions only pass the time until an interrupt. *)

Pide(t, x) == [t |-> t, p |-> cpu.ctx, x |-> x]

\* The arguments a system call may carry; a process asks for a resource while
\* it holds another one only when "WAIT_ANIDADO" is covered.
Pedidos ==
  {Pide("WAIT", r) : r \in
     IF "WAIT_ANIDADO" \in Sucesos
          \/ ("WAIT" \in Sucesos /\ recursos_pcb[cpu.ctx] = <<>>)
     THEN Recursos ELSE {}}
  \union {Pide("SIGNAL", r) : r \in ToSet(recursos_pcb[cpu.ctx])}
  \union {Pide(t, Nadie) : t \in {s \in {"WAIT", "SIGNAL"} :
            \/ s = "WAIT" /\ "WAIT_DESCONOCIDO" \in Sucesos
            \/ s = "SIGNAL" /\ "SIGNAL_DESCONOCIDO" \in Sucesos}}
  \union {Pide("IO", i) : i \in IF "IO" \in Sucesos THEN Interfaces ELSE {}}
  \union {Pide(t, x) :
            t \in {"IO_INADMISIBLE", "IO_DESCONOCIDA"} \intersect Sucesos,
            x \in {"GENERICA", "OTRA"} \intersect Sucesos}

\* WAIT and SIGNAL wait for the kernel; after an I/O the loop ends at once.
CpuPide ==
  /\ caido = ""
  /\ cpu.modo = "ejecuta"
  /\ \E m \in Pedidos :
       /\ m.t # "SIGNAL" => pasos[cpu.ctx] < MaxPasos
       /\ pasos' = IF m.t = "SIGNAL" THEN pasos
                   ELSE [pasos EXCEPT ![cpu.ctx] = @ + 1]
       /\ canal' = Append(canal, m)
       /\ cpu' = [cpu EXCEPT !.modo = IF m.t \in {"WAIT", "SIGNAL"}
                                      THEN "espera" ELSE "sale"]
  /\ UNCHANGED <<planVars, flagVars, vrr, recVars, io, hilos, cpuq, irqs,
                 semVars, memVars, fines, caido>>

\* ejecute_wait_y_no_hay_instancias, or an interrupt.
SoloInterrupcion == cpu.irq # ""  \* mutant: the "-1" is ignored
DejaDeEjecutar == cpu.negada \/ cpu.irq # ""

\* sem_wait(&sem_rta_kernel) and the test of the loop after execute().
CpuRespondido ==
  /\ caido = ""
  /\ cpu.modo = "espera"
  /\ cpu.rta > 0
  /\ cpu' = [cpu EXCEPT !.rta = @ - 1,
               !.modo = IF DejaDeEjecutar THEN "sale" ELSE "ejecuta"]
  /\ UNCHANGED <<planVars, flagVars, vrr, recVars, io, hilos, cpuq, irqs, canal,
                 pasos, semVars, memVars, fines, caido>>

\* A process ends while it holds resources only when that is covered.
PuedeTerminar ==
  recursos_pcb[cpu.ctx] # <<>> => "EXIT_CON_RECURSOS" \in Sucesos

\* desalojar and tipo_desalojo: the loop ends after this instruction.
Desaloja(tipo) ==
  /\ caido = ""
  /\ cpu.modo = "ejecuta"
  /\ PuedeTerminar
  /\ cpu' = [cpu EXCEPT !.modo = "sale", !.desalojar = tipo]
  /\ UNCHANGED <<planVars, flagVars, vrr, recVars, io, hilos, cpuq, irqs, canal,
                 pasos, semVars, memVars, fines, caido>>

CpuExit == Desaloja("ATENDER_EXIT")

\* A RESIZE that memoria answers with OUT OF MEMORY.
CpuSinMemoria ==
  "OUT_OF_MEMORY" \in Sucesos /\ Desaloja("ATENDER_OUT_OF_MEMORY")

\* An instruction is over: the loop looks at both flags after each of them, and
\* the "-1" may answer an I/O request of a process that was gone.
CpuVeInterrupcion ==
  /\ caido = ""
  /\ cpu.modo = "ejecuta"
  /\ DejaDeEjecutar
  /\ cpu' = [cpu EXCEPT !.modo = "sale"]
  /\ UNCHANGED <<planVars, flagVars, vrr, recVars, io, hilos, cpuq, irqs, canal,
                 pasos, semVars, memVars, fines, caido>>

\* After the loop: the interrupt is reported unless the process did EXIT, then
\* the end, both with the context of the moment, and every flag is cleared.
CpuSale ==
  /\ caido = ""
  /\ cpu.modo = "sale"
  /\ LET avisa == cpu.irq # "" /\ cpu.desalojar # "ATENDER_EXIT"
         desalojo == IF avisa THEN <<Pide("DESALOJO", cpu.irq)>> ELSE <<>>
         fin == IF cpu.desalojar # "" THEN <<Pide(cpu.desalojar, Nadie)>>
                ELSE <<>> IN
       canal' = canal \o desalojo \o fin
  /\ cpu' = [cpu EXCEPT !.modo = "libre", !.irq = "", !.negada = FALSE,
                        !.desalojar = ""]
  /\ UNCHANGED <<planVars, flagVars, vrr, recVars, io, hilos, cpuq, irqs, pasos,
                 semVars, memVars, fines, caido>>

CpuEjecuta ==
  \/ CpuRecibe \/ CpuEmpieza \/ CpuInterrupcion \/ CpuPide \/ CpuRespondido
  \/ CpuExit \/ CpuSinMemoria \/ CpuVeInterrupcion \/ CpuSale
=============================================================================
