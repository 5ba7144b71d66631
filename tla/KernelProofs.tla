---------------------------- MODULE KernelProofs ----------------------------
(***************************************************************************)
(* Proofs about Kernel, for any processes, resources, interfaces, degree   *)
(* of multiprogramming and scheduling algorithm.                           *)
(***************************************************************************)
EXTENDS Kernel, SequenceTheorems, WellFoundedInduction, TLAPS

-----------------------------------------------------------------------------
(* The inductive strengthening of the types *)

\* What the arguments of a function are, by the point where its thread is.
Argumentos(h) ==
  /\ h.pc \in {"nuevo", "plp_ready", "buscar", "segun_estado", "liberar",
               "avisar", "transferir", "agregar", "motivo", "reubicar",
               "reubicar_ready", "reubicar_prioridad", "liberar_suma",
               "asignar_resta", "desbloquear", "wait_leer", "wait_resta",
               "wait_bloquear", "wait_encolar", "io_mandar",
               "io_encolar"} => h.p \in Pids
  /\ h.pc = "buscar" => h.l \in DOMAIN Siguiente
  /\ h.pc \in {"transferir", "agregar"} => h.l \in Colas
  /\ h.pc \in {"liberar", "liberar_suma"} => h.rs # <<>>
  /\ h.pc \in {"asignar", "asignar_resta", "desbloquear", "signal_suma",
               "wait_leer", "wait_resta", "wait_bloquear", "wait_encolar"} =>
       h.r \in Recursos
  /\ h.pc \in {"io_mandar", "io_encolar"} => h.r \in Interfaces
  /\ h.pc \in {"transferir", "agregar"} /\ h.l = "BLOCKED" =>
       h.r \in (IF h.op = "wait" THEN Recursos ELSE Interfaces)

HilosBien == /\ hilos \in [Hilos -> Hilo]
             /\ \A t \in Hilos : Argumentos(hilos[t])

\* The CPU has a context whenever it executes or is about to.
CpuConProceso == cpu.modo # "libre" \/ cpu.pendientes > 0 => cpu.ctx \in Pids

Tipos == TypeOK /\ HilosBien /\ CpuConProceso

-----------------------------------------------------------------------------
(* Sequences *)

LEMMA MinimoDeIndices ==
  ASSUME NEW I, I \subseteq Nat, I # {}
  PROVE  Min(I) \in I
<1> DEFINE R == {ss \in Nat \X Nat : ss[1] < ss[2]}
<1>1. IsWellFoundedOn(R, Nat)
  BY NatLessThanWellFounded DEF OpToRel
<1> HIDE DEF R
<1>2. \E x \in I : \A y \in I : ~(<<y, x>> \in R)
  BY <1>1, WFMin
<1> USE DEF R
<1>3. PICK x \in I : \A y \in I : ~(<<y, x>> \in R)
  BY <1>2
<1>4. ASSUME NEW y \in I PROVE x <= y
  <2>1. y \in Nat /\ x \in Nat /\ <<y, x>> \in Nat \X Nat
    OBVIOUS
  <2>2. ~(y < x)
    BY <1>3, <2>1
  <2> QED
    BY <2>1, <2>2
<1> QED
  BY <1>4 DEF Min

\* Removing an element from a sequence of pids or of resources.
LEMMA SinTipo ==
  ASSUME NEW S, NEW s \in Seq(S), NEW e
  PROVE  /\ Sin(s, e) \in Seq(S)
         /\ Len(Sin(s, e)) <= Len(s)
<1>1. CASE \E i \in 1..Len(s) : s[i] = e
  <2> DEFINE I == {i \in 1..Len(s) : s[i] = e}
  <2>1. Min(I) \in 1..Len(s)
    <3>1. Len(s) \in Nat /\ I \subseteq Nat /\ I # {}
      BY <1>1, LenProperties
    <3> HIDE DEF I
    <3>2. Min(I) \in I
      BY <3>1, MinimoDeIndices
    <3> QED
      BY <3>2 DEF I
  <2>2. Sin(s, e) = SubSeq(s, 1, Min(I) - 1) \o SubSeq(s, Min(I) + 1, Len(s))
    BY <1>1 DEF Sin, RemoveFirst, RemoveAt, SelectInSeq
  <2> HIDE DEF I
  <2>3. /\ SubSeq(s, 1, Min(I) - 1) \in Seq(S)
        /\ Len(SubSeq(s, 1, Min(I) - 1)) = Min(I) - 1
    BY <2>1, SubSeqProperties
  <2>4. /\ SubSeq(s, Min(I) + 1, Len(s)) \in Seq(S)
        /\ Len(SubSeq(s, Min(I) + 1, Len(s))) = Len(s) - Min(I)
    BY <2>1, SubSeqProperties
  <2> QED
    BY <2>1, <2>2, <2>3, <2>4, ConcatProperties
<1>2. CASE ~\E i \in 1..Len(s) : s[i] = e
  BY <1>2 DEF Sin, RemoveFirst
<1> QED
  BY <1>1, <1>2

-----------------------------------------------------------------------------
(* Threads *)

LEMMA ReposoTipo == Reposo \in Hilo /\ Argumentos(Reposo)
  BY DEF Reposo, Hilo, Argumentos, Pcs, Ops, Mutexes

LEMMA PcpTipo ==
  ASSUME NEW t, NEW ms, ms \subseteq Mutexes
  PROVE  /\ LlamaPcp(t, ms) \in Hilo
         /\ Argumentos(LlamaPcp(t, ms))
         /\ LlamaPcp(t, ms).pc = "pcp"
         /\ LlamaPcp(t, ms).tiene = ms
<1>1. "pcp" \in Pcs
  BY DEF Pcs
<1>2. /\ LlamaPcp(t, ms) \in Hilo
      /\ LlamaPcp(t, ms).pc = "pcp"
      /\ LlamaPcp(t, ms).tiene = ms
  BY <1>1, ReposoTipo DEF LlamaPcp, Hilo
<1>3. Argumentos(LlamaPcp(t, ms))
  BY <1>2 DEF Argumentos
<1> QED
  BY <1>2, <1>3

LEMMA ArrancaTipo ==
  ASSUME NEW pc \in Pcs, NEW p \in Pids \union {Nadie},
         NEW r \in Recursos \union Interfaces \union {Nadie}
  PROVE  /\ Arranca(pc, p, r) \in Hilo
         /\ Arranca(pc, p, r).pc = pc
         /\ Arranca(pc, p, r).p = p
         /\ Arranca(pc, p, r).r = r
         /\ Arranca(pc, p, r).tiene = {}
<1>1. Reposo.tiene = {}
  BY DEF Reposo
<1> QED
  BY <1>1, ReposoTipo DEF Arranca, Hilo

LEMMA AsignacionTipo ==
  ASSUME NEW r \in Recursos
  PROVE  /\ Arranca("asignar", Nadie, r) \in Hilo
         /\ Argumentos(Arranca("asignar", Nadie, r))
  BY ArrancaTipo DEF Argumentos, Pcs

LEMMA PasaTipo ==
  ASSUME HilosBien, NEW t \in Hilos, NEW h \in Hilo, Argumentos(h), Pasa(t, h)
  PROVE  HilosBien'
  BY DEF HilosBien, Pasa, Argumentos

LEMMA LanzaTipo ==
  ASSUME HilosBien, NEW n \in Hilo, Argumentos(n), Lanza(n)
  PROVE  HilosBien'
  BY DEF HilosBien, Lanza, Argumentos, Hilos

LEMMA PasaYLanzaTipo ==
  ASSUME HilosBien, NEW t \in Hilos, NEW h \in Hilo, Argumentos(h),
         NEW n \in Hilo, Argumentos(n), PasaYLanza(t, h, n)
  PROVE  HilosBien'
  BY DEF HilosBien, PasaYLanza, Argumentos, Hilos

-----------------------------------------------------------------------------
(* The initial state *)

LEMMA InitTipos == ASSUME Init PROVE Tipos
<1>1. lista \in [Colas -> Seq(Pids)] /\ cola_recurso \in [Recursos -> Seq(Pids)]
  BY EmptySeq DEF Init
<1>2. /\ estado \in [Pids -> Estados]
      /\ recursos_pcb \in [Pids -> Seq(Recursos)]
  BY EmptySeq DEF Init, Estados
<1>9. instancias \in [Recursos -> Int]
  <2>1. InstanciasDe \in [Recursos -> Nat]
    BY KernelAssumption
  <2>2. instancias = InstanciasDe
    BY DEF Init
  <2> QED
    BY <2>1, <2>2
<1>3. vrr \in [Pids -> [timer: BOOLEAN, venia: BOOLEAN, prioridad: BOOLEAN,
                        parcial: BOOLEAN]]
  BY DEF Init
<1>4. io \in [Interfaces -> Instancia] /\ cpu \in Cpu
  BY EmptySeq DEF Init, Instancia, Cpu
<1>5. HilosBien
  BY ReposoTipo DEF Init, HilosBien
<1>6. /\ canal \in Seq(Pedido)
      /\ cpuq \in Seq(Mensaje)
      /\ irqs \in Seq(Pids \X Motivos)
  BY EmptySeq DEF Init
<1>7. CpuConProceso
  <2>1. cpu.modo = "libre" /\ cpu.pendientes = 0
    BY DEF Init
  <2> QED
    BY <2>1 DEF CpuConProceso
<1>8. sem \in [Motivos -> Nat] /\ cupo \in Nat
  BY KernelAssumption DEF Init
<1>10. pasos \in [Pids -> 0..MaxPasos] /\ fines \in 0..MaxFin
  <2>1. 0 \in 0..MaxPasos /\ 0 \in 0..MaxFin
    BY KernelAssumption
  <2> QED
    BY <2>1 DEF Init
<1> QED
  BY <1>1, <1>2, <1>3, <1>4, <1>5, <1>6, <1>7, <1>8, <1>9,
     <1>10
  DEF Init, Tipos, TypeOK, HilosBien, Causas

-----------------------------------------------------------------------------
(* Types: the long-term scheduler *)

USE DEF planVars, flagVars, recVars, cpuVars, semVars, memVars

LEMMA CaeTipos ==
  ASSUME Tipos, NEW c \in Causas, Cae(c)
  PROVE  Tipos'
  BY DEF Tipos, TypeOK, HilosBien, CpuConProceso, Argumentos, Cae

LEMMA IniciarProcesoTipos ==
  ASSUME Tipos, NEW p \in Pids, IniciarProceso(p)
  PROVE  Tipos'
<1> DEFINE n == Arranca("nuevo", p, Nadie)
<1>1. n \in Hilo /\ Argumentos(n)
  BY ArrancaTipo DEF Argumentos, Pcs
<1>2. HilosBien'
  BY <1>1, LanzaTipo DEF Tipos, IniciarProceso
<1> QED
  BY <1>2 DEF Tipos, TypeOK, HilosBien, CpuConProceso, IniciarProceso

LEMMA NuevoTipos ==
  ASSUME Tipos, NEW t \in Hilos, Nuevo(t)
  PROVE  Tipos'
<1>1. hilos[t].p \in Pids
  BY DEF Tipos, HilosBien, Argumentos, Nuevo, EnPc
<1>2. /\ lista' \in [Colas -> Seq(Pids)]
      /\ estado' \in [Pids -> Estados]
  BY <1>1 DEF Tipos, TypeOK, Nuevo, Colas, Estados
<1>3. HilosBien'
  BY PasaTipo, ArrancaTipo DEF Tipos, Nuevo, Argumentos, Pcs
<1> QED
  BY <1>2, <1>3 DEF Tipos, TypeOK, HilosBien, CpuConProceso, Nuevo

LEMMA TomarNewTipos ==
  ASSUME Tipos, NEW t \in Hilos, TomarNew(t)
  PROVE  Tipos'
<1> DEFINE h == [hilos[t] EXCEPT !.pc = "plp_cupo", !.tiene = {"NEW"}]
<1>1. h \in Hilo /\ Argumentos(h)
  BY DEF Tipos, HilosBien, Argumentos, Hilo, Pcs, Mutexes, Colas
<1>2. HilosBien'
  BY <1>1, PasaTipo DEF Tipos, TomarNew
<1> QED
  BY <1>2 DEF Tipos, TypeOK, HilosBien, CpuConProceso, TomarNew

LEMMA TomarCupoTipos ==
  ASSUME Tipos, NEW t \in Hilos, TomarCupo(t)
  PROVE  Tipos'
<1>1. cupo' \in Nat
  BY DEF Tipos, TypeOK, TomarCupo
<1>2. CASE lista["NEW"] = <<>>
  <2>1. HilosBien'
    BY <1>2, PcpTipo, PasaTipo DEF Tipos, TomarCupo
  <2> QED
    BY <1>1, <1>2, <2>1
    DEF Tipos, TypeOK, HilosBien, CpuConProceso, TomarCupo
<1>3. CASE lista["NEW"] # <<>>
  <2> DEFINE p == Head(lista["NEW"])
             h == [hilos[t] EXCEPT !.pc = "plp_ready", !.p = p]
  <2>1. p \in Pids /\ Tail(lista["NEW"]) \in Seq(Pids)
    BY <1>3 DEF Tipos, TypeOK, Colas
  <2>4. lista' \in [Colas -> Seq(Pids)] /\ iniciados' \subseteq Pids
    BY <1>3, <2>1 DEF Tipos, TypeOK, TomarCupo, IniciarEnMemoria
  <2>2. h \in Hilo /\ Argumentos(h)
    <3>1. h \in Hilo
      <4>1. hilos[t] \in Hilo
        BY DEF Tipos, HilosBien
      <4> QED
        BY <2>1, <4>1 DEF Hilo, Pcs
    <3>2. Argumentos(h)
      BY <2>1 DEF Tipos, HilosBien, Argumentos, Hilo, Pcs
    <3> QED
      BY <3>1, <3>2
  <2>3. HilosBien'
    BY <1>3, <2>2, PasaTipo DEF Tipos, TomarCupo
  <2> QED
    BY <1>1, <1>3, <2>4, <2>3
    DEF Tipos, TypeOK, HilosBien, CpuConProceso, TomarCupo
<1> QED
  BY <1>2, <1>3

LEMMA PasarAReadyTipos ==
  ASSUME Tipos, NEW t \in Hilos, PasarAReady(t)
  PROVE  Tipos'
<1>1. hilos[t].p \in Pids
  BY DEF Tipos, HilosBien, Argumentos, PasarAReady, EnPc
<1>2. /\ lista' \in [Colas -> Seq(Pids)]
      /\ estado' \in [Pids -> Estados]
  BY <1>1 DEF Tipos, TypeOK, PasarAReady, Colas, Estados
<1>3. HilosBien'
  BY PasaTipo, PcpTipo DEF Tipos, PasarAReady
<1> QED
  BY <1>2, <1>3 DEF Tipos, TypeOK, HilosBien, CpuConProceso, PasarAReady

LEMMA SiguienteTipo ==
  ASSUME NEW l \in DOMAIN Siguiente
  PROVE  Siguiente[l] \in (DOMAIN Siguiente) \union {""}
<1>1. DOMAIN Siguiente = {"NEW", "READY", "EXEC", "EXIT", "BLOCKED"}
  BY DEF Siguiente
<1>2. /\ Siguiente["NEW"] = "READY" /\ Siguiente["READY"] = "EXEC"
      /\ Siguiente["EXEC"] = "EXIT" /\ Siguiente["EXIT"] = "BLOCKED"
      /\ Siguiente["BLOCKED"] = ""
  BY DEF Siguiente
<1> QED
  BY <1>1, <1>2

LEMMA BuscarTipos ==
  ASSUME Tipos, NEW t \in Hilos, Buscar(t)
  PROVE  Tipos'
<1> DEFINE p == hilos[t].p
           l == hilos[t].l
<1>1. p \in Pids /\ l \in DOMAIN Siguiente /\ l \in Colas
  BY DEF Tipos, HilosBien, Argumentos, Buscar, EnPc, Siguiente, Colas
<1>2. lista' \in [Colas -> Seq(Pids)] /\ flag_finalizar' \subseteq Pids
  <2>1. Sin(lista[l], p) \in Seq(Pids)
    BY <1>1, SinTipo DEF Tipos, TypeOK
  <2>2. lista' = lista \/ lista' = [lista EXCEPT ![l] = Sin(lista[l], p)]
    BY DEF Buscar
  <2>3. \/ flag_finalizar' = flag_finalizar
        \/ flag_finalizar' = flag_finalizar \union {p}
    BY DEF Buscar, Encontrado
  <2> QED
    BY <1>1, <2>1, <2>2, <2>3 DEF Tipos, TypeOK
<1>3. HilosBien'
  <2>1. ASSUME NEW q \in Pids \union {Nadie}, Encontrado(t, q)
        PROVE  HilosBien'
    <3>1. CASE hilos[t].op = "fin"
      <4> DEFINE h == [hilos[t] EXCEPT !.pc = "io_siguiente", !.p = q, !.l = ""]
      <4>1. h \in Hilo /\ Argumentos(h)
        <5>1. h \in Hilo
          <6>1. hilos[t] \in Hilo
            BY DEF Tipos, HilosBien
          <6> QED
            BY <6>1 DEF Hilo, Pcs
        <5>2. Argumentos(h)
          BY DEF Tipos, HilosBien, Argumentos, Hilo, Pcs
        <5> QED
          BY <5>1, <5>2
      <4> QED
        BY <2>1, <3>1, <4>1, PasaTipo DEF Tipos, Encontrado
    <3>2. CASE hilos[t].op = "finalizar"
      <4> DEFINE h == [hilos[t] EXCEPT !.pc = "segun_estado", !.l = ""]
      <4>1. h \in Hilo /\ Argumentos(h)
        <5>1. h \in Hilo
          <6>1. hilos[t] \in Hilo
            BY DEF Tipos, HilosBien
          <6> QED
            BY <1>1, <6>1 DEF Hilo, Pcs
        <5>2. Argumentos(h)
          BY <1>1 DEF Tipos, HilosBien, Argumentos, Hilo, Pcs
        <5> QED
          BY <5>1, <5>2
      <4> QED
        BY <2>1, <3>2, <4>1, PasaTipo DEF Tipos, Encontrado
    <3> QED
      BY <2>1, <3>1, <3>2 DEF Encontrado
  <2>2. ASSUME Siguiente[l] # "", Pasa(t, [hilos[t] EXCEPT !.l = Siguiente[l]])
        PROVE  HilosBien'
    <3> DEFINE h == [hilos[t] EXCEPT !.l = Siguiente[l]]
    <3>1. Siguiente[l] \in Colas /\ Siguiente[l] \in DOMAIN Siguiente
      BY <1>1, <2>2, SiguienteTipo DEF Siguiente, Colas
    <3>2. h \in Hilo /\ Argumentos(h)
      BY <1>1, <3>1 DEF Tipos, HilosBien, Argumentos, Hilo, Buscar, EnPc
    <3> QED
      BY <2>2, <3>2, PasaTipo DEF Tipos
  <2> QED
    BY <1>1, <2>1, <2>2 DEF Buscar
<1> QED
  BY <1>2, <1>3 DEF Tipos, TypeOK, HilosBien, CpuConProceso, Buscar

\* buscar_y_remover_pcb_por_pid starts with lista_new.
LEMMA BuscarTipo ==
  ASSUME NEW p \in Pids, NEW op \in Ops
  PROVE  LET n == [Arranca("buscar", p, Nadie) EXCEPT !.op = op, !.l = "NEW"] IN
           /\ n \in Hilo /\ Argumentos(n)
           /\ n.pc = "buscar" /\ n.tiene = {}
<1> DEFINE a == Arranca("buscar", p, Nadie)
           n == [a EXCEPT !.op = op, !.l = "NEW"]
<1>1. a \in Hilo /\ a.pc = "buscar" /\ a.p = p /\ a.tiene = {}
  BY ArrancaTipo DEF Pcs
<1> HIDE DEF a
<1>2. /\ n \in Hilo
      /\ n.pc = "buscar" /\ n.p = p /\ n.l = "NEW" /\ n.tiene = {}
  BY <1>1 DEF Hilo, Colas
<1>3. "NEW" \in DOMAIN Siguiente
  BY DEF Siguiente
<1>4. Argumentos(n)
  <2> HIDE DEF n
  <2> QED
    BY <1>2, <1>3 DEF Argumentos
<1> QED
  BY <1>2, <1>4 DEF a

LEMMA FinalizarProcesoTipos ==
  ASSUME Tipos, NEW p \in Pids, FinalizarProceso(p)
  PROVE  Tipos'
<1> DEFINE n == [Arranca("buscar", p, Nadie) EXCEPT !.op = "finalizar",
                                                    !.l = "NEW"]
<1>1. n \in Hilo /\ Argumentos(n)
  BY BuscarTipo DEF Ops
<1>2. HilosBien'
  BY <1>1, LanzaTipo DEF Tipos, FinalizarProceso
<1>3. fines' \in 0..MaxFin
  <2>1. MaxFin \in Nat /\ fines \in 0..MaxFin /\ fines < MaxFin
    BY KernelAssumption DEF Tipos, TypeOK, FinalizarProceso
  <2>2. fines' = fines + 1
    BY DEF FinalizarProceso
  <2> QED
    BY <2>1, <2>2
<1> QED
  BY <1>2, <1>3
  DEF Tipos, TypeOK, HilosBien, CpuConProceso, FinalizarProceso

LEMMA TerminarTipo ==
  ASSUME Tipos, NEW t \in Hilos, hilos[t].p \in Pids, NEW op \in Ops,
         NEW l \in Colas, NEW rs \in Seq(Recursos), Terminar(t, op, l, rs)
  PROVE  HilosBien'
<1> DEFINE h == [hilos[t] EXCEPT
                   !.pc = IF rs = <<>> THEN "avisar" ELSE "liberar",
                   !.op = op, !.rs = rs, !.tiene = {l}]
<1>1. h \in Hilo /\ Argumentos(h)
  <2>1. h \in Hilo
    <3>1. hilos[t] \in Hilo
      BY DEF Tipos, HilosBien
    <3> QED
      BY <3>1 DEF Hilo, Pcs, Mutexes
  <2>2. Argumentos(h)
    BY DEF Tipos, HilosBien, Argumentos, Hilo, Pcs, Mutexes
  <2> QED
    BY <2>1, <2>2
<1> QED
  BY <1>1, PasaTipo DEF Tipos, Terminar

LEMMA SegunEstadoTipos ==
  ASSUME Tipos, NEW t \in Hilos, SegunEstado(t)
  PROVE  Tipos'
<1> DEFINE p == hilos[t].p
           e == estado[p]
<1>1. p \in Pids
  BY DEF Tipos, HilosBien, Argumentos, SegunEstado, EnPc
<1>2. sem' \in [Motivos -> Nat] /\ flag_finalizar' \subseteq Pids
  BY <1>1 DEF Tipos, TypeOK, SegunEstado, Motivos
<1>3. HilosBien'
  <2>1. CASE Vuelve(t)
    BY <2>1, ReposoTipo, PasaTipo DEF Tipos, Vuelve
  <2>2. CASE Terminar(t, "finalizar_nuevo", e, <<>>) /\ e = "NEW"
    <3>1. <<>> \in Seq(Recursos) /\ "finalizar_nuevo" \in Ops /\ e \in Colas
      BY <2>2, EmptySeq DEF Ops, Colas
    <3> QED
      BY <1>1, <2>2, <3>1, TerminarTipo
  <2>3. CASE /\ Terminar(t, "finalizar", e, recursos_pcb[p])
             /\ e \in {"READY", "READY_PRIORIDAD", "BLOCKED"}
    <3>1. recursos_pcb[p] \in Seq(Recursos) /\ "finalizar" \in Ops /\ e \in Colas
      BY <1>1, <2>3 DEF Tipos, TypeOK, Ops, Colas
    <3> QED
      BY <1>1, <2>3, <3>1, TerminarTipo
  <2> QED
    BY <2>1, <2>2, <2>3 DEF SegunEstado
<1> QED
  BY <1>2, <1>3 DEF Tipos, TypeOK, HilosBien, CpuConProceso, SegunEstado

LEMMA SalirDeExecTipos ==
  ASSUME Tipos, NEW t \in Hilos, SalirDeExec(t)
  PROVE  Tipos'
<1> DEFINE p == hilos[t].p
<1>1. PICK op \in {"plp_exit", "desalojar"} :
        /\ p # Nadie
        /\ lista' = [lista EXCEPT !["EXEC"] = Sin(@, p)]
        /\ Terminar(t, op, "EXEC", recursos_pcb[p])
  BY DEF SalirDeExec
<1>2. /\ p \in Pids
      /\ recursos_pcb[p] \in Seq(Recursos)
      /\ op \in Ops
      /\ "EXEC" \in Colas
  BY <1>1 DEF Tipos, TypeOK, HilosBien, Hilo, Ops, Colas
<1>3. HilosBien'
  BY <1>1, <1>2, TerminarTipo
<1>4. lista' \in [Colas -> Seq(Pids)]
  <2>1. Sin(lista["EXEC"], p) \in Seq(Pids)
    BY <1>2, SinTipo DEF Tipos, TypeOK
  <2> QED
    BY <1>1, <2>1 DEF Tipos, TypeOK
<1> QED
  BY <1>3, <1>4 DEF Tipos, TypeOK, HilosBien, CpuConProceso, SalirDeExec

LEMMA OtroRecursoTipo ==
  ASSUME NEW h \in Hilo, h.rs # <<>>, h.p \in Pids
  PROVE  /\ OtroRecurso(h) \in Hilo /\ Argumentos(OtroRecurso(h))
         /\ OtroRecurso(h).pc \in {"avisar", "liberar"}
         /\ OtroRecurso(h).pc = "liberar" => OtroRecurso(h).rs # <<>>
         /\ OtroRecurso(h).p = h.p
         /\ OtroRecurso(h).tiene = h.tiene
<1>1. h.rs \in Seq(Recursos)
  BY DEF Hilo
<1>2. Tail(h.rs) \in Seq(Recursos)
  BY <1>1, HeadTailProperties
<1> QED
  BY <1>2 DEF OtroRecurso, Argumentos, Hilo, Pcs

LEMMA LeidoTipo ==
  ASSUME instancias \in [Recursos -> Int], NEW h \in Hilo, NEW pc \in Pcs,
         NEW r \in Recursos
  PROVE  /\ Leido(h, pc, r) \in Hilo
         /\ Leido(h, pc, r).pc = pc
         /\ Leido(h, pc, r).p = h.p
         /\ Leido(h, pc, r).r = h.r
         /\ Leido(h, pc, r).tiene = h.tiene
  BY DEF Leido, Hilo

LEMMA LiberarRecursoTipos ==
  ASSUME Tipos, NEW t \in Hilos, LiberarRecurso(t)
  PROVE  Tipos'
<1> DEFINE p == hilos[t].p
           r == Head(hilos[t].rs)
           h == [hilos[t] EXCEPT !.pc = "liberar_suma",
                   !.n = instancias[r], !.tiene = @ \union {r}]
<1>1. /\ hilos[t] \in Hilo /\ p \in Pids
      /\ hilos[t].rs \in Seq(Recursos) /\ hilos[t].rs # <<>>
  BY DEF Tipos, HilosBien, Hilo, Argumentos, LiberarRecurso, EnPc
<1>2. r \in Recursos
  BY <1>1, HeadTailProperties
<1>3. h \in Hilo /\ Argumentos(h)
  <2>1. instancias[r] \in Int /\ r \in Mutexes
    BY <1>2 DEF Tipos, TypeOK, Mutexes
  <2> QED
    BY <1>1, <2>1 DEF Argumentos, Hilo, Pcs
<1>4. Pasa(t, OtroRecurso(hilos[t])) \/ Pasa(t, h)
  BY DEF LiberarRecurso
<1> HIDE DEF h
<1>5. HilosBien'
  BY <1>1, <1>3, <1>4, OtroRecursoTipo, PasaTipo DEF Tipos
<1>6. /\ cola_recurso' \in [Recursos -> Seq(Pids)]
      /\ recursos_pcb' \in [Pids -> Seq(Recursos)]
  <2>1. /\ Sin(cola_recurso[r], p) \in Seq(Pids)
        /\ Sin(recursos_pcb[p], r) \in Seq(Recursos)
    BY <1>1, <1>2, SinTipo DEF Tipos, TypeOK
  <2>2. \/ cola_recurso' = cola_recurso
        \/ cola_recurso' = [cola_recurso EXCEPT ![r] = Sin(cola_recurso[r], p)]
    BY DEF LiberarRecurso
  <2>3. \/ recursos_pcb' = recursos_pcb
        \/ recursos_pcb' = [recursos_pcb EXCEPT ![p] = Sin(recursos_pcb[p], r)]
    BY DEF LiberarRecurso
  <2> QED
    BY <1>1, <1>2, <2>1, <2>2, <2>3 DEF Tipos, TypeOK
<1> QED
  BY <1>5, <1>6 DEF Tipos, TypeOK, HilosBien, CpuConProceso, LiberarRecurso

LEMMA LiberarSumarTipos ==
  ASSUME Tipos, NEW t \in Hilos, LiberarSumar(t)
  PROVE  Tipos'
<1> DEFINE r == Head(hilos[t].rs)
           o == OtroRecurso(hilos[t])
           h == [o EXCEPT !.n = 0, !.tiene = @ \ {r}]
           n == Arranca("asignar", Nadie, r)
<1>1. /\ hilos[t] \in Hilo /\ hilos[t].p \in Pids /\ hilos[t].n \in Int
      /\ hilos[t].rs \in Seq(Recursos) /\ hilos[t].rs # <<>>
  BY DEF Tipos, HilosBien, Hilo, Argumentos, LiberarSumar, EnPc
<1>2. r \in Recursos
  BY <1>1, HeadTailProperties
<1>3. h \in Hilo /\ Argumentos(h)
  <2>1. /\ o \in Hilo /\ Argumentos(o) /\ o.pc \in {"avisar", "liberar"}
        /\ o.pc = "liberar" => o.rs # <<>>
        /\ o.p \in Pids
    BY <1>1, OtroRecursoTipo
  <2> HIDE DEF o
  <2>2. 0 \in Int /\ o.tiene \ {r} \in SUBSET Mutexes
    <3>1. o.tiene \in SUBSET Mutexes
      BY <2>1 DEF Hilo
    <3> QED
      BY <3>1
  <2>3. /\ h \in Hilo
        /\ h.pc = o.pc /\ h.p = o.p /\ h.rs = o.rs
    BY <2>1, <2>2 DEF Hilo
  <2> HIDE DEF h
  <2> QED
    BY <2>1, <2>3 DEF Argumentos
<1>4. n \in Hilo /\ Argumentos(n)
  BY <1>2, AsignacionTipo
<1>5. PasaYLanza(t, h, n)
  BY DEF LiberarSumar
<1>6. instancias' \in [Recursos -> Int]
  BY <1>1, <1>2 DEF Tipos, TypeOK, LiberarSumar
<1> HIDE DEF h, n
<1>7. HilosBien'
  BY <1>3, <1>4, <1>5, PasaYLanzaTipo DEF Tipos
<1> QED
  BY <1>6, <1>7 DEF Tipos, TypeOK, HilosBien, CpuConProceso, LiberarSumar

LEMMA AvisarMemoriaTipos ==
  ASSUME Tipos, NEW t \in Hilos, AvisarMemoria(t)
  PROVE  Tipos'
<1> DEFINE h == [hilos[t] EXCEPT !.pc = "transferir", !.l = "EXIT"]
<1>1. h \in Hilo /\ Argumentos(h)
  BY DEF Tipos, HilosBien, Argumentos, Hilo, Pcs, Colas, AvisarMemoria, EnPc
<1>2. HilosBien'
  BY <1>1, PasaTipo DEF Tipos, AvisarMemoria
<1> QED
  BY <1>2 DEF Tipos, TypeOK, HilosBien, CpuConProceso, AvisarMemoria

LEMMA TransferirTipos ==
  ASSUME Tipos, NEW t \in Hilos, Transferir(t)
  PROVE  Tipos'
<1> DEFINE h == [hilos[t] EXCEPT !.pc = IF Desocupado(hilos[t].l)
                                        THEN "agregar" ELSE "colgado"]
<1>1. hilos[t].p \in Pids /\ hilos[t].l \in Colas
  BY DEF Tipos, HilosBien, Argumentos, Transferir, EnPc
<1>2. h \in Hilo /\ Argumentos(h)
  BY DEF Tipos, HilosBien, Argumentos, Hilo, Pcs, Transferir, EnPc
<1>3. HilosBien'
  BY <1>2, PasaTipo DEF Tipos, Transferir, Sigue
<1>4. estado' \in [Pids -> Estados]
  BY <1>1 DEF Tipos, TypeOK, Transferir, Estados
<1> QED
  BY <1>3, <1>4 DEF Tipos, TypeOK, HilosBien, CpuConProceso, Transferir

LEMMA AgregarTipo ==
  ASSUME Tipos, NEW t \in Hilos, NEW l \in Colas, Agregar(t, l)
  PROVE  hilos[t].p \in Pids /\ lista' \in [Colas -> Seq(Pids)]
<1>1. hilos[t].p \in Pids
  BY DEF Tipos, HilosBien, Argumentos, Agregar, EnPc
<1> QED
  BY <1>1 DEF Tipos, TypeOK, Agregar

LEMMA AgregarAExitTipos ==
  ASSUME Tipos, NEW t \in Hilos, AgregarAExit(t)
  PROVE  Tipos'
<1>1. hilos[t].p \in Pids /\ lista' \in [Colas -> Seq(Pids)]
  BY AgregarTipo DEF AgregarAExit, Colas
<1>2. cupo' \in Nat /\ flag_finalizar' \subseteq Pids
        /\ flag_desalojado' \subseteq Pids
  BY DEF Tipos, TypeOK, AgregarAExit, CupoDevuelto
<1>3. HilosBien'
  BY ReposoTipo, PcpTipo, PasaTipo DEF Tipos, AgregarAExit, Vuelve
<1> QED
  BY <1>1, <1>2, <1>3 DEF Tipos, TypeOK, HilosBien, CpuConProceso, AgregarAExit

LEMMA HiloLargoPlazoTipos ==
  ASSUME Tipos, NEW t \in Hilos, HiloLargoPlazo(t)
  PROVE  Tipos'
<1>1. ASSUME BuscarNulo(t) \/ SegunEstadoAusente(t) \/ SalirDeExecAusente(t)
               \/ AvisarDesconocido(t)
      PROVE  Tipos'
  BY <1>1, CaeTipos DEF BuscarNulo, SegunEstadoAusente, SalirDeExecAusente,
                        AvisarDesconocido, Causas
<1> QED
  BY <1>1, NuevoTipos, TomarNewTipos, TomarCupoTipos, PasarAReadyTipos,
     BuscarTipos, SegunEstadoTipos, SalirDeExecTipos, LiberarRecursoTipos,
     LiberarSumarTipos, AvisarMemoriaTipos, TransferirTipos, AgregarAExitTipos
  DEF HiloLargoPlazo

-----------------------------------------------------------------------------
(* Types: the short-term scheduler *)

LEMMA MirarReadyTipos ==
  ASSUME Tipos, NEW t \in Hilos, MirarReady(t)
  PROVE  Tipos'
<1>1. VistoReady(t) \in Hilo /\ Argumentos(VistoReady(t))
  BY DEF Tipos, HilosBien, Argumentos, Hilo, Pcs, VistoReady
<1>2. HilosBien'
  BY <1>1, ReposoTipo, PasaTipo DEF Tipos, MirarReady, Vuelve
<1> QED
  BY <1>2 DEF Tipos, TypeOK, HilosBien, CpuConProceso, MirarReady

LEMMA TomarExecTipos ==
  ASSUME Tipos, NEW t \in Hilos, TomarExec(t)
  PROVE  Tipos'
<1>1. ReteniendoExec(t) \in Hilo /\ Argumentos(ReteniendoExec(t))
  BY DEF Tipos, HilosBien, Argumentos, Hilo, Pcs, Mutexes, Colas,
         ReteniendoExec
<1>2. HilosBien'
  BY <1>1, ReposoTipo, PasaTipo DEF Tipos, TomarExec, Vuelve
<1> QED
  BY <1>2 DEF Tipos, TypeOK, HilosBien, CpuConProceso, TomarExec

LEMMA TomarReadyTipos ==
  ASSUME Tipos, NEW t \in Hilos, TomarReady(t)
  PROVE  Tipos'
<1> DEFINE h == [hilos[t] EXCEPT !.pc = "pcp_prioridad",
                                 !.tiene = @ \union {"READY"}]
<1>1. h \in Hilo /\ Argumentos(h)
  BY DEF Tipos, HilosBien, Argumentos, Hilo, Pcs, Mutexes, Colas
<1>2. HilosBien'
  BY <1>1, PasaTipo DEF Tipos, TomarReady
<1> QED
  BY <1>2 DEF Tipos, TypeOK, HilosBien, CpuConProceso, TomarReady

Vrr == [timer: BOOLEAN, venia: BOOLEAN, prioridad: BOOLEAN, parcial: BOOLEAN]

LEMMA DespacharTipos ==
  ASSUME Tipos, NEW l \in {"READY", "READY_PRIORIDAD"}, lista[l] # <<>>,
         Despachar(l)
  PROVE  /\ lista' \in [Colas -> Seq(Pids)]
         /\ estado' \in [Pids -> Estados]
         /\ cpuq' \in Seq(Mensaje)
         /\ quantum' \in Pids \union {Nadie}
         /\ vrr' \in [Pids -> Vrr]
<1> DEFINE p == Head(lista[l])
<1>1. /\ l \in Colas /\ "EXEC" \in Colas /\ l # "EXEC"
      /\ lista[l] \in Seq(Pids) /\ lista["EXEC"] \in Seq(Pids)
  BY DEF Tipos, TypeOK, Colas
<1>2. /\ p \in Pids
      /\ Tail(lista[l]) \in Seq(Pids)
      /\ Append(lista["EXEC"], p) \in Seq(Pids)
  BY <1>1
<1>3. lista' \in [Colas -> Seq(Pids)]
  BY <1>1, <1>2 DEF Tipos, TypeOK, Despachar
<1>4. estado' \in [Pids -> Estados] /\ quantum' \in Pids \union {Nadie}
  BY <1>2 DEF Tipos, TypeOK, Despachar, Estados, Colas
<1>5. cpuq' \in Seq(Mensaje)
  <2>1. EJECUTAR(p) \in Mensaje
    BY <1>2 DEF EJECUTAR, Mensaje
  <2> QED
    BY <2>1 DEF Tipos, TypeOK, Despachar
<1>6. vrr' \in [Pids -> Vrr]
  <2>1. vrr \in [Pids -> Vrr]
    BY DEF Tipos, TypeOK, Vrr
  <2>2. CASE vrr' = vrr
    BY <2>1, <2>2
  <2>3. CASE vrr' = [vrr EXCEPT ![p].venia = TRUE]
    BY <2>1, <2>3, <1>2 DEF Vrr
  <2>4. CASE vrr' = [vrr EXCEPT ![p].venia = FALSE, ![p].prioridad = FALSE,
                                ![p].timer = TRUE]
    BY <2>1, <2>4, <1>2 DEF Vrr
  <2> QED
    BY <2>2, <2>3, <2>4 DEF Despachar
<1> QED
  BY <1>3, <1>4, <1>5, <1>6

LEMMA TomarTipos ==
  ASSUME Tipos, NEW t \in Hilos, Tomar(t)
  PROVE  Tipos'
<1>1. HilosBien'
  BY ReposoTipo, PasaTipo DEF Tipos, Tomar, Vuelve
<1>2. sem' \in [Motivos -> Nat]
  BY DEF Tipos, TypeOK, Tomar, Motivos
<1>3. CASE lista[Origen] # <<>> /\ Despachar(Origen)
  <2>1. Origen \in {"READY", "READY_PRIORIDAD"}
    BY DEF Origen
  <2>2. /\ lista' \in [Colas -> Seq(Pids)]
        /\ estado' \in [Pids -> Estados]
        /\ cpuq' \in Seq(Mensaje)
        /\ quantum' \in Pids \union {Nadie}
        /\ vrr' \in [Pids -> Vrr]
    BY <1>3, <2>1, DespacharTipos
  <2> QED
    BY <1>1, <1>2, <2>2
    DEF Tipos, TypeOK, HilosBien, CpuConProceso, Tomar, Vrr
<1>4. CASE UNCHANGED <<planVars, cpuq, quantum, vrr>>
  BY <1>1, <1>2, <1>4 DEF Tipos, TypeOK, HilosBien, CpuConProceso, Tomar
<1> QED
  BY <1>3, <1>4 DEF Tomar

LEMMA VenceQuantumTipos ==
  ASSUME Tipos, VenceQuantum
  PROVE  Tipos'
<1>1. sem' \in [Motivos -> Nat]
  <2>1. sem \in [Motivos -> Nat] /\ "FIN_QUANTUM" \in Motivos
    BY DEF Tipos, TypeOK, Motivos
  <2>2. sem' = [sem EXCEPT !["FIN_QUANTUM"] = @ + 1]
    BY DEF VenceQuantum
  <2> QED
    BY <2>1, <2>2
<1> QED
  BY <1>1 DEF Tipos, TypeOK, HilosBien, CpuConProceso, Argumentos, VenceQuantum

LEMMA InterrumpirTipos ==
  ASSUME Tipos, NEW m \in Motivos, Interrumpir(m)
  PROVE  Tipos'
<1>1. sem' \in [Motivos -> Nat]
  <2>1. sem \in [Motivos -> Nat] /\ sem[m] > 0
    BY DEF Tipos, TypeOK, Interrumpir, HayQueInterrumpir
  <2>2. sem' = [sem EXCEPT ![m] = @ - 1]
    BY DEF Interrumpir
  <2> QED
    BY <2>1, <2>2
<1>2. irqs' \in Seq(Pids \X Motivos)
  <2> DEFINE p == Head(lista["EXEC"])
  <2>1. p \in Pids /\ "DESALOJO_POR_CONSOLA" \in Motivos
    <3>1. lista["EXEC"] \in Seq(Pids) /\ lista["EXEC"] # <<>>
      BY DEF Tipos, TypeOK, Interrumpir, Colas
    <3> QED
      BY <3>1 DEF Motivos
  <2>2. /\ <<p, "DESALOJO_POR_CONSOLA">> \in Pids \X Motivos
        /\ <<p, m>> \in Pids \X Motivos
    BY <2>1
  <2>3. \/ irqs' = irqs
        \/ irqs' = Append(irqs, <<p, "DESALOJO_POR_CONSOLA">>)
        \/ irqs' = Append(irqs, <<p, m>>)
    BY DEF Interrumpir
  <2>4. irqs \in Seq(Pids \X Motivos)
    BY DEF Tipos, TypeOK
  <2> DEFINE S == Pids \X Motivos
  <2>5. ASSUME NEW e \in S PROVE Append(irqs, e) \in Seq(S)
    <3>1. irqs \in Seq(S)
      BY <2>4
    <3> HIDE DEF S
    <3> QED
      BY <3>1
  <2> QED
    BY <2>2, <2>3, <2>4, <2>5
<1> QED
  BY <1>1, <1>2
  DEF Tipos, TypeOK, HilosBien, CpuConProceso, Argumentos, Interrumpir

LEMMA AtenderMotivoTipos ==
  ASSUME Tipos, NEW t \in Hilos, AtenderMotivo(t)
  PROVE  Tipos'
<1> DEFINE p == hilos[t].p
           n == Arranca("desalojar", p, Nadie)
<1>1. p \in Pids
  BY DEF Tipos, HilosBien, Argumentos, AtenderMotivo, EnPc
<1>2. n \in Hilo /\ Argumentos(n)
  BY <1>1, ArrancaTipo DEF Argumentos, Pcs
<1>3. ASSUME NEW pc \in {"desalojar", "reubicar"}, Sigue(t, pc)
      PROVE  HilosBien'
  <2> DEFINE h == [hilos[t] EXCEPT !.pc = pc]
  <2>1. h \in Hilo /\ Argumentos(h)
    BY <1>1 DEF Tipos, HilosBien, Argumentos, Hilo, Pcs
  <2> QED
    BY <1>3, <2>1, PasaTipo DEF Tipos, Sigue
<1>4. HilosBien'
  BY <1>2, <1>3, ReposoTipo, PasaYLanzaTipo DEF Tipos, AtenderMotivo
<1> QED
  BY <1>4 DEF Tipos, TypeOK, HilosBien, CpuConProceso, AtenderMotivo

LEMMA ReubicarTipos ==
  ASSUME Tipos, NEW t \in Hilos, Reubicar(t)
  PROVE  Tipos'
<1> DEFINE h == [hilos[t] EXCEPT !.pc = "reubicar_ready", !.tiene = {"EXEC"}]
<1>1. h \in Hilo /\ Argumentos(h)
  BY DEF Tipos, HilosBien, Argumentos, Hilo, Pcs, Mutexes, Colas, Reubicar, EnPc
<1>2. HilosBien'
  BY <1>1, PasaTipo DEF Tipos, Reubicar
<1> QED
  BY <1>2 DEF Tipos, TypeOK, HilosBien, CpuConProceso, Reubicar

LEMMA ReubicarReadyTipos ==
  ASSUME Tipos, NEW t \in Hilos, ReubicarReady(t)
  PROVE  Tipos'
<1> DEFINE h == [hilos[t] EXCEPT !.pc = "reubicar_prioridad",
                                 !.tiene = @ \union {"READY"}]
<1>1. h \in Hilo /\ Argumentos(h)
  BY DEF Tipos, HilosBien, Argumentos, Hilo, Pcs, Mutexes, Colas,
         ReubicarReady, EnPc
<1>2. HilosBien'
  BY <1>1, PasaTipo DEF Tipos, ReubicarReady
<1> QED
  BY <1>2 DEF Tipos, TypeOK, HilosBien, CpuConProceso, ReubicarReady

LEMMA ReubicarAReadyTipos ==
  ASSUME Tipos, NEW t \in Hilos, ReubicarAReady(t)
  PROVE  Tipos'
<1> DEFINE p == hilos[t].p
<1>1. p \in Pids
  BY DEF Tipos, HilosBien, Argumentos, ReubicarAReady, EnPc
<1>2. lista' \in [Colas -> Seq(Pids)]
  <2>1. lista["EXEC"] \in Seq(Pids) /\ lista["READY"] \in Seq(Pids)
    BY DEF Tipos, TypeOK, Colas
  <2>2. Sin(lista["EXEC"], p) \in Seq(Pids) /\ Append(lista["READY"], p) \in Seq(Pids)
    BY <1>1, <2>1, SinTipo
  <2>3. lista' = [lista EXCEPT !["EXEC"] = Sin(lista["EXEC"], p),
                               !["READY"] = Append(lista["READY"], p)]
    BY DEF ReubicarAReady
  <2> QED
    BY <2>2, <2>3 DEF Tipos, TypeOK
<1>3. estado' \in [Pids -> Estados] /\ flag_desalojado' \subseteq Pids
  BY <1>1 DEF Tipos, TypeOK, ReubicarAReady, EstadoReady, Estados, Colas
<1>4. HilosBien'
  BY PcpTipo, PasaTipo DEF Tipos, ReubicarAReady, Replanificar
<1> QED
  BY <1>2, <1>3, <1>4 DEF Tipos, TypeOK, HilosBien, CpuConProceso, ReubicarAReady

LEMMA AnalizarTipos ==
  ASSUME Tipos, NEW t \in Hilos, Analizar(t)
  PROVE  Tipos'
<1> DEFINE p == hilos[t].p
           h(l) == [hilos[t] EXCEPT !.pc = "transferir", !.l = l]
<1>1. p \in Pids
  BY DEF Tipos, HilosBien, Hilo, Analizar
<1>2. PICK l \in {"READY", "READY_PRIORIDAD"} :
        /\ \/ vrr' = vrr
           \/ vrr' = [vrr EXCEPT ![p].parcial = (l = "READY_PRIORIDAD")]
        /\ Pasa(t, h(l))
  BY DEF Analizar, Destinos, DestinosVRR
<1>3. h(l) \in Hilo /\ Argumentos(h(l))
  BY <1>1 DEF Tipos, HilosBien, Argumentos, Hilo, Pcs, Colas
<1>4. HilosBien'
  BY <1>2, <1>3, PasaTipo DEF Tipos
<1>5. vrr' \in [Pids -> Vrr]
  <2>1. vrr \in [Pids -> Vrr] /\ (l = "READY_PRIORIDAD") \in BOOLEAN
    BY DEF Tipos, TypeOK, Vrr
  <2> QED
    BY <1>1, <1>2, <2>1 DEF Vrr
<1> QED
  BY <1>4, <1>5 DEF Tipos, TypeOK, HilosBien, CpuConProceso, Analizar, Vrr

LEMMA AgregarAReadyTipos ==
  ASSUME Tipos, NEW t \in Hilos, AgregarAReady(t)
  PROVE  Tipos'
<1>1. hilos[t].p \in Pids /\ lista' \in [Colas -> Seq(Pids)]
  BY AgregarTipo DEF AgregarAReady, Colas
<1>2. vrr' \in [Pids -> Vrr]
  <2>1. vrr \in [Pids -> Vrr]
    BY DEF Tipos, TypeOK, Vrr
  <2> QED
    BY <1>1, <2>1 DEF AgregarAReady, Vrr
<1>3. HilosBien'
  <2>1. hilos[t].tiene \ {"BLOCKED"} \subseteq Mutexes
    BY DEF Tipos, HilosBien, Hilo
  <2> QED
    BY <2>1, PcpTipo, PasaTipo DEF Tipos, AgregarAReady
<1> QED
  BY <1>1, <1>2, <1>3
  DEF Tipos, TypeOK, HilosBien, CpuConProceso, AgregarAReady, Vrr

LEMMA HiloCortoPlazoTipos ==
  ASSUME Tipos, NEW t \in Hilos, HiloCortoPlazo(t)
  PROVE  Tipos'
<1>1. ASSUME TomarSinTimer(t) \/ ReubicarAusente(t) \/ AnalizarNulo(t)
      PROVE  Tipos'
  BY <1>1, CaeTipos DEF TomarSinTimer, ReubicarAusente, AnalizarNulo, Causas
<1> QED
  BY <1>1, MirarReadyTipos, TomarExecTipos, TomarReadyTipos, TomarTipos,
     AtenderMotivoTipos, ReubicarTipos, ReubicarReadyTipos,
     ReubicarAReadyTipos, AnalizarTipos, AgregarAReadyTipos
  DEF HiloCortoPlazo

-----------------------------------------------------------------------------
(* Types: resources *)

\* What a service of the dispatch thread may change.
TiposDelServicio ==
  /\ lista \in [Colas -> Seq(Pids)]
  /\ estado \in [Pids -> Estados]
  /\ vrr \in [Pids -> Vrr]
  /\ recursos_pcb \in [Pids -> Seq(Recursos)]
  /\ instancias \in [Recursos -> Int]
  /\ cola_recurso \in [Recursos -> Seq(Pids)]
  /\ cpuq \in Seq(Mensaje)
  /\ HilosBien

LEMMA TiposImplicaServicio == Tipos => TiposDelServicio
  BY DEF Tipos, TypeOK, TiposDelServicio, Vrr

LEMMA DespachoEsHilo == Despacho \in Hilos
  BY DEF Hilos

LEMMA RTATipo ==
  ASSUME NEW v \in {"1", "-1"}, cpuq \in Seq(Mensaje), cpuq' = Append(cpuq, RTA(v))
  PROVE  cpuq' \in Seq(Mensaje)
<1>1. RTA(v) \in Mensaje
  BY DEF RTA, Mensaje
<1> QED
  BY <1>1

LEMMA AtenderWaitTipos ==
  ASSUME TiposDelServicio, NEW p \in Pids, NEW r \in Recursos \union {Nadie},
         AtenderWait(p, r)
  PROVE  TiposDelServicio'
<1>1. CASE WaitConcedido(p, r)
  <2> DEFINE h == Arranca("wait_leer", p, r)
  <2>1. r \in Recursos
    BY <1>1 DEF WaitConcedido
  <2>2. h \in Hilo /\ Argumentos(h)
    BY <2>1, ArrancaTipo DEF Argumentos, Pcs
  <2>3. HilosBien'
    BY <1>1, <2>2, PasaTipo, DespachoEsHilo DEF TiposDelServicio, WaitConcedido
  <2> QED
    BY <1>1, <2>3 DEF TiposDelServicio, WaitConcedido
<1>2. CASE WaitNegado(p, r)
  <2> DEFINE h == Arranca("wait_bloquear", p, r)
  <2>1. r \in Recursos
    BY <1>2 DEF WaitNegado
  <2>2. h \in Hilo /\ Argumentos(h)
    BY <2>1, ArrancaTipo DEF Argumentos, Pcs
  <2>3. HilosBien'
    BY <1>2, <2>2, PasaTipo, DespachoEsHilo DEF TiposDelServicio, WaitNegado
  <2>4. cpuq' \in Seq(Mensaje)
    BY <1>2, RTATipo DEF TiposDelServicio, WaitNegado
  <2> QED
    BY <1>2, <2>3, <2>4 DEF TiposDelServicio, WaitNegado
<1>3. CASE WaitDesconocido(p, r)
  <2> DEFINE a == Arranca("transferir", p, Nadie)
             h == [a EXCEPT !.op = "wait", !.l = "EXIT"]
  <2>1. a \in Hilo /\ a.pc = "transferir" /\ a.p = p
    BY ArrancaTipo DEF Pcs
  <2> HIDE DEF a
  <2>2. h \in Hilo /\ Argumentos(h)
    BY <2>1 DEF Hilo, Argumentos, Ops, Colas
  <2>3. HilosBien'
    BY <1>3, <2>2, PasaTipo, DespachoEsHilo
    DEF TiposDelServicio, WaitDesconocido, a
  <2> QED
    BY <1>3, <2>3 DEF TiposDelServicio, WaitDesconocido
<1> QED
  BY <1>1, <1>2, <1>3 DEF AtenderWait

LEMMA AtenderSignalTipos ==
  ASSUME TiposDelServicio, NEW p \in Pids, NEW r \in Recursos \union {Nadie},
         AtenderSignal(p, r)
  PROVE  TiposDelServicio'
<1>1. CASE SignalAceptado(p, r)
  <2> DEFINE a == Arranca("signal_suma", p, r)
             h == Leido(a, "signal_suma", r)
  <2>1. r \in Recursos
    BY <1>1 DEF SignalAceptado
  <2>2. recursos_pcb' \in [Pids -> Seq(Recursos)]
    <3>1. Sin(recursos_pcb[p], r) \in Seq(Recursos)
      BY SinTipo DEF TiposDelServicio
    <3> QED
      BY <1>1, <3>1 DEF TiposDelServicio, SignalAceptado
  <2>3. "signal_suma" \in Pcs
    BY DEF Pcs
  <2>4. a \in Hilo /\ a.r = r
    BY <2>1, <2>3, ArrancaTipo
  <2>5. Pasa(Despacho, h)
    BY <1>1 DEF SignalAceptado
  <2> HIDE DEF a
  <2>6. h \in Hilo /\ h.pc = "signal_suma" /\ h.r = r
    BY <2>1, <2>3, <2>4, LeidoTipo DEF TiposDelServicio
  <2> HIDE DEF h
  <2>7. Argumentos(h)
    BY <2>1, <2>6 DEF Argumentos
  <2>8. HilosBien'
    BY <2>5, <2>6, <2>7, PasaTipo, DespachoEsHilo DEF TiposDelServicio
  <2> QED
    BY <1>1, <2>2, <2>8 DEF TiposDelServicio, SignalAceptado
<1>2. CASE SignalRechazado(p, r)
  <2> DEFINE h == Arranca("plp_exit", p, Nadie)
  <2>1. h \in Hilo /\ Argumentos(h)
    BY ArrancaTipo DEF Argumentos, Pcs
  <2>2. HilosBien'
    BY <1>2, <2>1, PasaTipo, DespachoEsHilo DEF TiposDelServicio, SignalRechazado
  <2>3. cpuq' \in Seq(Mensaje)
    BY <1>2, RTATipo DEF TiposDelServicio, SignalRechazado
  <2> QED
    BY <1>2, <2>2, <2>3 DEF TiposDelServicio, SignalRechazado, DejandoEnExec
<1> QED
  BY <1>1, <1>2 DEF AtenderSignal

LEMMA AgregarDesconocidoTipos ==
  ASSUME Tipos, NEW t \in Hilos, AgregarDesconocido(t)
  PROVE  Tipos'
<1> DEFINE h == Arranca("plp_exit", hilos[t].p, Nadie)
<1>1. hilos[t].p \in Pids /\ lista' \in [Colas -> Seq(Pids)]
  BY AgregarTipo DEF AgregarDesconocido, Colas
<1>2. h \in Hilo /\ Argumentos(h)
  BY <1>1, ArrancaTipo DEF Argumentos, Pcs
<1>3. HilosBien'
  BY <1>2, PasaTipo DEF Tipos, AgregarDesconocido
<1>4. cpuq' \in Seq(Mensaje)
  BY RTATipo DEF Tipos, TypeOK, AgregarDesconocido
<1> QED
  BY <1>1, <1>3, <1>4
  DEF Tipos, TypeOK, HilosBien, CpuConProceso, AgregarDesconocido

LEMMA WaitBloquearTipos ==
  ASSUME Tipos, NEW t \in Hilos, WaitBloquear(t)
  PROVE  Tipos'
<1> DEFINE p == hilos[t].p
           r == hilos[t].r
<1>1. p \in Pids /\ r \in Recursos
  BY DEF Tipos, HilosBien, Argumentos, WaitBloquear, EnPc
<1>2. lista' \in [Colas -> Seq(Pids)]
  <2>1. lista["EXEC"] \in Seq(Pids) /\ lista \in [Colas -> Seq(Pids)]
    BY DEF Tipos, TypeOK, Colas
  <2>2. ExecSinCabeza \in Seq(Pids)
    BY <2>1 DEF ExecSinCabeza
  <2>3. lista' = [lista EXCEPT !["EXEC"] = ExecSinCabeza]
    BY DEF WaitBloquear
  <2> QED
    BY <2>1, <2>2, <2>3
<1>3. recursos_pcb' \in [Pids -> Seq(Recursos)]
  BY <1>1 DEF Tipos, TypeOK, WaitBloquear
<1>4. ABlocked(t) \in Hilo /\ Argumentos(ABlocked(t))
  BY <1>1 DEF Tipos, HilosBien, Argumentos, Hilo, Pcs, Ops, Colas, ABlocked
<1>5. HilosBien'
  BY <1>4, PasaTipo DEF Tipos, WaitBloquear
<1> QED
  BY <1>2, <1>3, <1>5 DEF Tipos, TypeOK, HilosBien, CpuConProceso, WaitBloquear

LEMMA WaitEncolarTipos ==
  ASSUME Tipos, NEW t \in Hilos, WaitEncolar(t)
  PROVE  Tipos'
<1> DEFINE p == hilos[t].p
           r == hilos[t].r
           h == [hilos[t] EXCEPT !.pc = "colgado"]
<1>1. p \in Pids /\ r \in Recursos
  BY DEF Tipos, HilosBien, Argumentos, WaitEncolar, EnPc
<1>2. cola_recurso' \in [Recursos -> Seq(Pids)]
  <2>1. cola_recurso \in [Recursos -> Seq(Pids)]
    BY DEF Tipos, TypeOK
  <2>2. cola_recurso' = cola_recurso
          \/ cola_recurso' = [cola_recurso EXCEPT ![r] = Append(@, p)]
    BY DEF WaitEncolar, ColaConPedido
  <2> HIDE DEF p, r
  <2>3. Append(cola_recurso[r], p) \in Seq(Pids)
    BY <1>1, <2>1
  <2> QED
    BY <1>1, <2>1, <2>2, <2>3
<1>3. h \in Hilo /\ Argumentos(h)
  BY DEF Tipos, HilosBien, Argumentos, Hilo, Pcs
<1>4. HilosBien'
  BY <1>3, PcpTipo, PasaTipo DEF Tipos, WaitEncolar, Sigue
<1> QED
  BY <1>2, <1>4 DEF Tipos, TypeOK, HilosBien, CpuConProceso, WaitEncolar

LEMMA WaitLeerTipos ==
  ASSUME Tipos, NEW t \in Hilos, WaitLeer(t)
  PROVE  Tipos'
<1> DEFINE r == hilos[t].r
           h == Leido(hilos[t], "wait_resta", r)
<1>1. hilos[t] \in Hilo /\ hilos[t].p \in Pids /\ r \in Recursos
  BY DEF Tipos, HilosBien, Argumentos, WaitLeer, EnPc
<1>2. "wait_resta" \in Pcs
  BY DEF Pcs
<1>3. /\ h \in Hilo /\ h.pc = "wait_resta"
      /\ h.p = hilos[t].p /\ h.r = r
  BY <1>1, <1>2, LeidoTipo DEF Tipos, TypeOK
<1>4. Pasa(t, h)
  BY DEF WaitLeer
<1> HIDE DEF h
<1>5. Argumentos(h)
  BY <1>1, <1>3 DEF Argumentos
<1>6. HilosBien'
  BY <1>3, <1>4, <1>5, PasaTipo DEF Tipos
<1> QED
  BY <1>6 DEF Tipos, TypeOK, HilosBien, CpuConProceso, WaitLeer

LEMMA WaitRestarTipos ==
  ASSUME Tipos, NEW t \in Hilos, WaitRestar(t)
  PROVE  Tipos'
<1> DEFINE p == hilos[t].p
           r == hilos[t].r
<1>1. p \in Pids /\ r \in Recursos /\ hilos[t].n \in Int
  BY DEF Tipos, HilosBien, Hilo, Argumentos, WaitRestar, EnPc
<1>2. instancias' \in [Recursos -> Int]
  BY <1>1 DEF Tipos, TypeOK, WaitRestar
<1>3. recursos_pcb' \in [Pids -> Seq(Recursos)]
  BY <1>1 DEF Tipos, TypeOK, WaitRestar
<1>4. HilosBien'
  BY ReposoTipo, PasaTipo DEF Tipos, WaitRestar, Vuelve
<1>5. cpuq' \in Seq(Mensaje)
  BY RTATipo DEF Tipos, TypeOK, WaitRestar
<1> QED
  BY <1>2, <1>3, <1>4, <1>5
  DEF Tipos, TypeOK, HilosBien, CpuConProceso, WaitRestar

LEMMA SignalSumarTipos ==
  ASSUME Tipos, NEW t \in Hilos, SignalSumar(t)
  PROVE  Tipos'
<1> DEFINE r == hilos[t].r
<1>1. r \in Recursos /\ hilos[t].n \in Int
  BY DEF Tipos, HilosBien, Hilo, Argumentos, SignalSumar, EnPc
<1>2. instancias' \in [Recursos -> Int]
  BY <1>1 DEF Tipos, TypeOK, SignalSumar
<1>3. Vuelve(t) \/ Pasa(t, Arranca("asignar", Nadie, r))
  BY DEF SignalSumar
<1>4. HilosBien'
  BY <1>1, <1>3, ReposoTipo, AsignacionTipo, PasaTipo DEF Tipos, Vuelve
<1>5. cpuq' \in Seq(Mensaje)
  BY RTATipo DEF Tipos, TypeOK, SignalSumar
<1> QED
  BY <1>2, <1>4, <1>5 DEF Tipos, TypeOK, HilosBien, CpuConProceso, SignalSumar

LEMMA AsignarTipos ==
  ASSUME Tipos, NEW t \in Hilos, Asignar(t)
  PROVE  Tipos'
<1> DEFINE r == hilos[t].r
           q == Head(cola_recurso[r])
           d == Leido(hilos[t], "asignar_resta", r)
           h == [d EXCEPT !.p = q, !.tiene = {r}]
<1>1. hilos[t] \in Hilo /\ r \in Recursos /\ r \in Mutexes
  BY DEF Tipos, HilosBien, Argumentos, Asignar, EnPc, Mutexes
<1>2. CASE Vuelve(t) /\ UNCHANGED cola_recurso
  <2>1. HilosBien'
    BY <1>2, ReposoTipo, PasaTipo DEF Tipos, Vuelve
  <2> QED
    BY <1>2, <2>1 DEF Tipos, TypeOK, HilosBien, CpuConProceso, Asignar
<1>3. CASE /\ cola_recurso[r] # <<>>
           /\ cola_recurso' = [cola_recurso EXCEPT ![r] = Tail(@)]
           /\ Pasa(t, h)
  <2>1. q \in Pids /\ Tail(cola_recurso[r]) \in Seq(Pids)
    BY <1>1, <1>3 DEF Tipos, TypeOK
  <2>2. cola_recurso' \in [Recursos -> Seq(Pids)]
    BY <1>1, <1>3, <2>1 DEF Tipos, TypeOK
  <2>3. "asignar_resta" \in Pcs
    BY DEF Pcs
  <2>4. d \in Hilo /\ d.pc = "asignar_resta" /\ d.r = r
    BY <1>1, <2>3, LeidoTipo DEF Tipos, TypeOK
  <2> HIDE DEF d, q
  <2>5. h \in Hilo /\ Argumentos(h)
    BY <1>1, <2>1, <2>4 DEF Argumentos, Hilo
  <2>6. HilosBien'
    BY <1>3, <2>5, PasaTipo DEF Tipos
  <2> QED
    BY <2>2, <2>6 DEF Tipos, TypeOK, HilosBien, CpuConProceso, Asignar
<1> QED
  BY <1>2, <1>3 DEF Asignar

LEMMA AsignarRestarTipos ==
  ASSUME Tipos, NEW t \in Hilos, AsignarRestar(t)
  PROVE  Tipos'
<1> DEFINE h == [hilos[t] EXCEPT !.pc = "desbloquear", !.n = 0]
<1>1. /\ hilos[t] \in Hilo /\ hilos[t].n \in Int
      /\ hilos[t].p \in Pids /\ hilos[t].r \in Recursos
  BY DEF Tipos, HilosBien, Hilo, Argumentos, AsignarRestar, EnPc
<1>2. h \in Hilo /\ Argumentos(h)
  <2>1. h \in Hilo
    <3>1. "desbloquear" \in Pcs /\ 0 \in Int
      BY DEF Pcs
    <3> QED
      BY <1>1, <3>1 DEF Hilo
  <2>2. Argumentos(h)
    BY <1>1 DEF Argumentos, Hilo, Pcs
  <2> QED
    BY <2>1, <2>2
<1>3. HilosBien'
  BY <1>2, PasaTipo DEF Tipos, AsignarRestar
<1>4. instancias' \in [Recursos -> Int]
  BY <1>1 DEF Tipos, TypeOK, AsignarRestar
<1> QED
  BY <1>3, <1>4 DEF Tipos, TypeOK, HilosBien, CpuConProceso, AsignarRestar

LEMMA DesbloquearTipos ==
  ASSUME Tipos, NEW t \in Hilos, Desbloquear(t)
  PROVE  Tipos'
<1> DEFINE p == hilos[t].p
           h == [hilos[t] EXCEPT !.pc = "analizar", !.op = "asignar",
                                 !.tiene = @ \union {"BLOCKED"}]
<1>1. p \in Pids
  BY DEF Tipos, HilosBien, Argumentos, Desbloquear, EnPc
<1>2. lista' \in [Colas -> Seq(Pids)]
  <2>1. Sin(lista["BLOCKED"], p) \in Seq(Pids)
    BY SinTipo DEF Tipos, TypeOK, Colas
  <2>2. lista' = lista
          \/ lista' = [lista EXCEPT !["BLOCKED"] = Sin(lista["BLOCKED"], p)]
    BY DEF Desbloquear
  <2> QED
    BY <2>1, <2>2 DEF Tipos, TypeOK
<1>3. h \in Hilo /\ Argumentos(h)
  <2>1. h \in Hilo
    <3>1. hilos[t] \in Hilo
      BY DEF Tipos, HilosBien
    <3> QED
      BY <3>1 DEF Hilo, Pcs, Ops, Mutexes, Colas
  <2>2. Argumentos(h)
    BY DEF Tipos, HilosBien, Argumentos, Hilo, Pcs, Ops, Mutexes, Colas
  <2> QED
    BY <2>1, <2>2
<1>4. hilos[t].tiene \subseteq Mutexes
  BY DEF Tipos, HilosBien, Hilo
<1>5. HilosBien'
  BY <1>3, <1>4, PcpTipo, PasaTipo DEF Tipos, Desbloquear
<1> QED
  BY <1>2, <1>5 DEF Tipos, TypeOK, HilosBien, CpuConProceso, Desbloquear

LEMMA HiloRecursosTipos ==
  ASSUME Tipos, NEW t \in Hilos, HiloRecursos(t)
  PROVE  Tipos'
  BY AgregarDesconocidoTipos, WaitLeerTipos, WaitRestarTipos,
     WaitBloquearTipos, WaitEncolarTipos, SignalSumarTipos, AsignarTipos,
     AsignarRestarTipos, DesbloquearTipos
  DEF HiloRecursos

-----------------------------------------------------------------------------
(* Types: the dispatch thread and the interfaces *)

LEMMA PedidoTipo ==
  ASSUME NEW m \in Pedido
  PROVE  /\ m.p \in Pids
         /\ m.t \in {"WAIT", "SIGNAL"} => m.x \in Recursos \union {Nadie}
         /\ m.t = "IO" => m.x \in Interfaces
         /\ m.t = "DESALOJO" => m.x \in Motivos
  BY DEF Pedido

LEMMA ActualTipo ==
  ASSUME Tipos, HayMensaje
  PROVE  /\ Actual \in Pedido
         /\ Tail(canal) \in Seq(Pedido)
         /\ Despacho \in Hilos
<1>1. canal \in Seq(Pedido) /\ canal # <<>>
  BY DEF Tipos, TypeOK, HayMensaje
<1>2. Head(canal) \in Pedido /\ Tail(canal) \in Seq(Pedido)
  <2> DEFINE S == Pedido
  <2> HIDE DEF S
  <2>1. canal \in Seq(S)
    BY <1>1 DEF S
  <2>2. Head(canal) \in S /\ Tail(canal) \in Seq(S)
    BY <1>1, <2>1
  <2> QED
    BY <2>2 DEF S
<1> QED
  BY <1>2, DespachoEsHilo DEF Actual

LEMMA RecibidoTipo ==
  ASSUME Tipos, HayMensaje, Recibido
  PROVE  /\ canal' \in Seq(Pedido)
         /\ quantum' \in Pids \union {Nadie}
         /\ flag_desalojado' \subseteq Pids
<1>1. Actual.p \in Pids /\ Tail(canal) \in Seq(Pedido)
  BY ActualTipo, PedidoTipo
<1> QED
  BY <1>1 DEF Tipos, TypeOK, Recibido

LEMMA RecibirAusenteTipos ==
  ASSUME Tipos, RecibirAusente
  PROVE  Tipos'
<1>1. canal' \in Seq(Pedido)
  BY ActualTipo DEF RecibirAusente
<1>2. cpuq' \in Seq(Mensaje)
  BY RTATipo DEF Tipos, TypeOK, RecibirAusente
<1> QED
  BY <1>1, <1>2
  DEF Tipos, TypeOK, HilosBien, CpuConProceso, Argumentos, RecibirAusente

LEMMA RecibirFinalizadoTipos ==
  ASSUME Tipos, RecibirFinalizado
  PROVE  Tipos'
<1> DEFINE n == Arranca("desalojar", Actual.p, Nadie)
<1>1. HayMensaje /\ Recibido /\ Lanza(n)
  BY DEF RecibirFinalizado
<1>2. Actual.p \in Pids
  BY <1>1, ActualTipo, PedidoTipo
<1>3. n \in Hilo /\ Argumentos(n)
  BY <1>2, ArrancaTipo DEF Argumentos, Pcs
<1>4. HilosBien'
  BY <1>1, <1>3, LanzaTipo DEF Tipos
<1> QED
  BY <1>1, <1>4, RecibidoTipo
  DEF Tipos, TypeOK, HilosBien, CpuConProceso, RecibirFinalizado

LEMMA AtenderIOTipos ==
  ASSUME TiposDelServicio, NEW p \in Pids, NEW i \in Interfaces, AtenderIO(p, i)
  PROVE  TiposDelServicio'
<1> DEFINE a == Arranca("transferir", p, i)
           op == IF io[i].libre THEN "io_libre" ELSE "io_ocupada"
           h == [a EXCEPT !.l = "BLOCKED", !.op = op]
<1>1. a \in Hilo /\ a.pc = "transferir" /\ a.p = p /\ a.r = i
  BY ArrancaTipo DEF Pcs
<1>2. op \in Ops /\ op # "wait"
  BY DEF Ops
<1>3. Pasa(Despacho, h)
  BY DEF AtenderIO
<1> HIDE DEF a, op
<1>4. h \in Hilo /\ Argumentos(h)
  BY <1>1, <1>2 DEF Hilo, Argumentos, Colas
<1>5. HilosBien'
  BY <1>3, <1>4, PasaTipo, DespachoEsHilo DEF TiposDelServicio
<1>6. lista' \in [Colas -> Seq(Pids)]
  <2>1. Sin(lista["EXEC"], p) \in Seq(Pids)
    BY SinTipo DEF TiposDelServicio, Colas
  <2> QED
    BY <2>1 DEF TiposDelServicio, AtenderIO
<1> QED
  BY <1>5, <1>6 DEF TiposDelServicio, AtenderIO

LEMMA AtenderInadmisibleTipos ==
  ASSUME TiposDelServicio, NEW p \in Pids, NEW tipo, AtenderInadmisible(p, tipo)
  PROVE  TiposDelServicio'
<1> DEFINE e == Arranca("plp_exit", p, Nadie)
           b == [Arranca("buscar", p, Nadie) EXCEPT !.op = "finalizar",
                                                    !.l = "NEW"]
<1>1. e \in Hilo /\ Argumentos(e)
  BY ArrancaTipo DEF Argumentos, Pcs
<1>2. b \in Hilo /\ Argumentos(b)
  BY BuscarTipo DEF Ops
<1>3. Pasa(Despacho, e) \/ Pasa(Despacho, b)
  BY DEF AtenderInadmisible
<1> HIDE DEF e, b
<1>4. HilosBien'
  BY <1>1, <1>2, <1>3, PasaTipo, DespachoEsHilo DEF TiposDelServicio
<1> QED
  BY <1>4 DEF TiposDelServicio, AtenderInadmisible

LEMMA AtenderDesconocidaTipos ==
  ASSUME TiposDelServicio, NEW tipo, AtenderDesconocida(tipo)
  PROVE  TiposDelServicio'
<1>1. HilosBien'
  BY ReposoTipo, PasaTipo, DespachoEsHilo
  DEF TiposDelServicio, AtenderDesconocida, Vuelve
<1> QED
  BY <1>1 DEF TiposDelServicio, AtenderDesconocida

LEMMA RecibirInstruccionTipos ==
  ASSUME Tipos, RecibirInstruccion
  PROVE  Tipos'
<1>1. HayMensaje /\ Recibido
  BY DEF RecibirInstruccion, Sirve
<1>2. Actual \in Pedido
  BY <1>1, ActualTipo
<1>3. TiposDelServicio'
  <2>1. TiposDelServicio
    BY TiposImplicaServicio
  <2>2. CASE Actual.t = "WAIT" /\ AtenderWait(Actual.p, Actual.x)
    BY <1>2, <2>1, <2>2, PedidoTipo, AtenderWaitTipos
  <2>3. CASE Actual.t = "SIGNAL" /\ AtenderSignal(Actual.p, Actual.x)
    BY <1>2, <2>1, <2>3, PedidoTipo, AtenderSignalTipos
  <2>4. CASE Actual.t = "IO" /\ AtenderIO(Actual.p, Actual.x)
    BY <1>2, <2>1, <2>4, PedidoTipo, AtenderIOTipos
  <2>5. CASE AtenderInadmisible(Actual.p, Actual.x)
    BY <1>2, <2>1, <2>5, PedidoTipo, AtenderInadmisibleTipos
  <2>6. CASE AtenderDesconocida(Actual.x)
    BY <2>1, <2>6, AtenderDesconocidaTipos
  <2> QED
    BY <2>2, <2>3, <2>4, <2>5, <2>6 DEF RecibirInstruccion
<1> QED
  BY <1>1, <1>3, RecibidoTipo
  DEF Tipos, TypeOK, TiposDelServicio, HilosBien, CpuConProceso, Vrr,
      RecibirInstruccion

LEMMA RecibirDesalojoTipos ==
  ASSUME Tipos, RecibirDesalojo
  PROVE  Tipos'
<1> DEFINE a == Arranca("motivo", Actual.p, Nadie)
           h == [a EXCEPT !.op = Actual.x]
<1>1. HayMensaje /\ Recibido /\ Pasa(Despacho, h)
  BY DEF RecibirDesalojo
<1>2. Actual.p \in Pids /\ Actual.x \in Motivos
  BY <1>1, ActualTipo, PedidoTipo DEF RecibirDesalojo
<1>3. a \in Hilo /\ a.pc = "motivo" /\ a.p = Actual.p
  BY <1>2, ArrancaTipo DEF Pcs
<1>4. Actual.x \in Ops
  BY <1>2 DEF Ops
<1>5. HilosBien'
  <2> HIDE DEF a
  <2>1. h \in Hilo /\ Argumentos(h)
    BY <1>2, <1>3, <1>4 DEF Hilo, Argumentos
  <2> QED
    BY <1>1, <2>1, PasaTipo, DespachoEsHilo DEF Tipos
<1>6. vrr' \in [Pids -> Vrr]
  <2>1. vrr \in [Pids -> Vrr]
    BY DEF Tipos, TypeOK, Vrr
  <2> QED
    BY <1>2, <2>1 DEF RecibirDesalojo, Vrr
<1> QED
  BY <1>1, <1>5, <1>6, RecibidoTipo
  DEF Tipos, TypeOK, HilosBien, CpuConProceso, Vrr, RecibirDesalojo

LEMMA RecibirFinTipos ==
  ASSUME Tipos, RecibirFin
  PROVE  Tipos'
<1> DEFINE h == Arranca("plp_exit", Actual.p, Nadie)
<1>1. HayMensaje /\ Recibido /\ Pasa(Despacho, h)
  BY DEF RecibirFin
<1>2. Actual.p \in Pids
  BY <1>1, ActualTipo, PedidoTipo
<1>3. h \in Hilo /\ Argumentos(h)
  BY <1>2, ArrancaTipo DEF Argumentos, Pcs
<1>4. HilosBien'
  BY <1>1, <1>3, PasaTipo, DespachoEsHilo DEF Tipos
<1> QED
  BY <1>1, <1>4, RecibidoTipo
  DEF Tipos, TypeOK, HilosBien, CpuConProceso, RecibirFin

LEMMA RecibirDelCpuTipos ==
  ASSUME Tipos, RecibirDelCpu
  PROVE  Tipos'
<1>1. ASSUME RecibirInstruccionNulo \/ RecibirInadmisibleSinIniciar
      PROVE  Tipos'
  BY <1>1, CaeTipos
  DEF RecibirInstruccionNulo, RecibirInadmisibleSinIniciar, Causas
<1> QED
  BY <1>1, RecibirAusenteTipos, RecibirFinalizadoTipos, RecibirInstruccionTipos,
     RecibirDesalojoTipos, RecibirFinTipos
  DEF RecibirDelCpu

LEMMA AgregarABlockedTipos ==
  ASSUME Tipos, NEW t \in Hilos, AgregarABlocked(t)
  PROVE  Tipos'
<1> DEFINE pc == CASE hilos[t].op = "wait" -> "wait_encolar"
                   [] hilos[t].op = "io_libre" -> "io_mandar"
                   [] OTHER -> "io_encolar"
           h == [hilos[t] EXCEPT !.pc = pc]
<1>1. hilos[t].p \in Pids /\ lista' \in [Colas -> Seq(Pids)]
  BY AgregarTipo DEF AgregarABlocked, Colas
<1>2. /\ hilos[t] \in Hilo
      /\ hilos[t].r \in (IF hilos[t].op = "wait" THEN Recursos ELSE Interfaces)
  BY DEF Tipos, HilosBien, Argumentos, AgregarABlocked, Agregar, EnPc
<1>3. /\ pc \in {"wait_encolar", "io_mandar", "io_encolar"}
      /\ pc = "wait_encolar" => hilos[t].op = "wait"
      /\ pc # "wait_encolar" => hilos[t].op # "wait"
  OBVIOUS
<1>4. Pasa(t, h)
  BY DEF AgregarABlocked, Sigue
<1> HIDE DEF pc
<1>5. h \in Hilo /\ Argumentos(h)
  BY <1>1, <1>2, <1>3 DEF Hilo, Argumentos, Pcs
<1>6. HilosBien'
  BY <1>4, <1>5, PasaTipo DEF Tipos
<1> QED
  BY <1>1, <1>6 DEF Tipos, TypeOK, HilosBien, CpuConProceso, AgregarABlocked

LEMMA MandarIOTipos ==
  ASSUME Tipos, NEW t \in Hilos, MandarIO(t)
  PROVE  Tipos'
<1>1. hilos[t].p \in Pids /\ hilos[t].r \in Interfaces
  BY DEF Tipos, HilosBien, Argumentos, MandarIO, EnPc
<1>2. io' \in [Interfaces -> Instancia]
  BY <1>1 DEF Tipos, TypeOK, Instancia, MandarIO
<1>3. HilosBien'
  BY PcpTipo, PasaTipo DEF Tipos, MandarIO
<1> QED
  BY <1>2, <1>3 DEF Tipos, TypeOK, HilosBien, CpuConProceso, MandarIO

LEMMA EncolarIOTipos ==
  ASSUME Tipos, NEW t \in Hilos, EncolarIO(t)
  PROVE  Tipos'
<1>1. hilos[t].p \in Pids /\ hilos[t].r \in Interfaces
  BY DEF Tipos, HilosBien, Argumentos, EncolarIO, EnPc
<1>2. io' \in [Interfaces -> Instancia]
  <2> DEFINE i == hilos[t].r
             p == hilos[t].p
  <2>1. io \in [Interfaces -> Instancia] /\ io[i].espera \in Seq(Pids)
    BY <1>1 DEF Tipos, TypeOK, Instancia
  <2>2. io' = [io EXCEPT ![i].espera = Append(io[i].espera, p)]
    BY DEF EncolarIO
  <2> HIDE DEF i, p
  <2>3. Append(io[i].espera, p) \in Seq(Pids)
    BY <1>1, <2>1 DEF p
  <2> QED
    BY <1>1, <2>1, <2>2, <2>3 DEF Instancia
<1>3. HilosBien'
  BY ReposoTipo, PasaTipo DEF Tipos, EncolarIO, Vuelve
<1> QED
  BY <1>2, <1>3 DEF Tipos, TypeOK, HilosBien, CpuConProceso, EncolarIO

LEMMA FinEntradaSalidaTipos ==
  ASSUME Tipos, NEW i \in Interfaces, FinEntradaSalida(i)
  PROVE  Tipos'
<1> DEFINE p == io[i].pedido
           b == [Arranca("buscar", p, Nadie) EXCEPT !.op = "fin", !.l = "NEW"]
           q == IF EnLista(p, "BLOCKED") THEN p ELSE Nadie
           e == Arranca("plp_exit", q, Nadie)
<1>1. p \in Pids /\ i \in Hilos
  BY DEF Tipos, TypeOK, Instancia, FinEntradaSalida, Hilos
<1>2. io' \in [Interfaces -> Instancia]
  BY DEF Tipos, TypeOK, Instancia, FinEntradaSalida
<1>3. b \in Hilo /\ Argumentos(b)
  BY <1>1, BuscarTipo DEF Ops
<1>4. e \in Hilo /\ Argumentos(e)
  <2>1. q \in Pids \union {Nadie}
    BY <1>1
  <2> HIDE DEF q
  <2> QED
    BY <2>1, ArrancaTipo DEF Argumentos, Pcs
<1>5. Pasa(i, b) \/ Pasa(i, e)
  BY DEF FinEntradaSalida
<1>6. HilosBien'
  <2> HIDE DEF b, e
  <2> QED
    BY <1>1, <1>3, <1>4, <1>5, PasaTipo DEF Tipos
<1> QED
  BY <1>2, <1>6 DEF Tipos, TypeOK, HilosBien, CpuConProceso, FinEntradaSalida

LEMMA SigueTipo ==
  ASSUME Tipos, NEW t \in Hilos, NEW pc \in {"analizar", "io_liberar"},
         Sigue(t, pc)
  PROVE  HilosBien'
<1> DEFINE h == [hilos[t] EXCEPT !.pc = pc]
<1>1. h \in Hilo /\ Argumentos(h)
  <2>1. h \in Hilo
    <3>1. hilos[t] \in Hilo
      BY DEF Tipos, HilosBien
    <3> QED
      BY <3>1 DEF Hilo, Pcs
  <2>2. Argumentos(h)
    BY DEF Tipos, HilosBien, Argumentos, Hilo, Pcs
  <2> QED
    BY <2>1, <2>2
<1> QED
  BY <1>1, PasaTipo DEF Tipos, Sigue

LEMMA SiguienteIOTipos ==
  ASSUME Tipos, NEW i \in Interfaces, SiguienteIO(i)
  PROVE  Tipos'
<1>1. HilosBien'
  BY SigueTipo DEF SiguienteIO, Hilos
<1>2. io' \in [Interfaces -> Instancia]
  <2>1. CASE io[i].espera # <<>>
    <3>1. io \in [Interfaces -> Instancia] /\ io[i].espera \in Seq(Pids)
      BY DEF Tipos, TypeOK, Instancia
    <3>2. Restantes(i) \in Seq(Pids) /\ Head(io[i].espera) \in Pids
      BY <2>1, <3>1 DEF Restantes
    <3>3. io' = [io EXCEPT ![i].espera = Restantes(i),
                           ![i].pedido = Head(io[i].espera)]
      BY <2>1 DEF SiguienteIO
    <3> QED
      BY <3>1, <3>2, <3>3 DEF Instancia
  <2>2. CASE io[i].espera = <<>>
    BY <2>2 DEF Tipos, TypeOK, SiguienteIO
  <2> QED
    BY <2>1, <2>2
<1> QED
  BY <1>1, <1>2 DEF Tipos, TypeOK, HilosBien, CpuConProceso, SiguienteIO

LEMMA LiberarIOTipos ==
  ASSUME Tipos, NEW i \in Interfaces, LiberarIO(i)
  PROVE  Tipos'
<1>1. HilosBien'
  BY SigueTipo DEF LiberarIO, Hilos
<1>2. io' \in [Interfaces -> Instancia]
  BY DEF Tipos, TypeOK, Instancia, LiberarIO
<1> QED
  BY <1>1, <1>2 DEF Tipos, TypeOK, HilosBien, CpuConProceso, LiberarIO

LEMMA HiloDespachoTipos ==
  ASSUME Tipos, NEW t \in Hilos, HiloDespacho(t)
  PROVE  Tipos'
  BY AgregarABlockedTipos, MandarIOTipos, EncolarIOTipos DEF HiloDespacho

LEMMA HiloInterfazTipos ==
  ASSUME Tipos, NEW i \in Interfaces, HiloInterfaz(i)
  PROVE  Tipos'
<1>1. ASSUME SiguienteIOLiberada(i) PROVE Tipos'
  BY <1>1, CaeTipos DEF SiguienteIOLiberada, Causas
<1> QED
  BY <1>1, FinEntradaSalidaTipos, SiguienteIOTipos, LiberarIOTipos
  DEF HiloInterfaz

-----------------------------------------------------------------------------
(* Types: the CPU *)

LEMMA MensajeTipo ==
  ASSUME Tipos, cpuq # <<>>
  PROVE  /\ Head(cpuq) \in Mensaje
         /\ Tail(cpuq) \in Seq(Mensaje)
         /\ Head(cpuq).t = "EJECUTAR" => Head(cpuq).p \in Pids
<1>1. cpuq \in Seq(Mensaje)
  BY DEF Tipos, TypeOK
<1>2. Head(cpuq) \in Mensaje /\ Tail(cpuq) \in Seq(Mensaje)
  BY <1>1
<1> QED
  BY <1>2 DEF Mensaje

LEMMA ContadoresTipo ==
  ASSUME NEW c \in Cpu
  PROVE  c.pendientes \in Nat /\ c.rta \in Nat
  BY DEF Cpu

LEMMA CpuRecibeTipos ==
  ASSUME Tipos, CpuRecibe
  PROVE  Tipos'
<1> DEFINE m == Head(cpuq)
<1>1. /\ m \in Mensaje
      /\ cpuq' \in Seq(Mensaje)
      /\ m.t = "EJECUTAR" => m.p \in Pids
  BY MensajeTipo DEF CpuRecibe
<1>2. CASE m.t = "EJECUTAR" /\ cpu' = [cpu EXCEPT !.ctx = m.p,
                                                 !.pendientes = @ + 1]
  <2>1. cpu' \in Cpu /\ CpuConProceso'
    <3> DEFINE n == cpu.pendientes + 1
    <3>1. cpu \in Cpu /\ n \in Nat
      BY ContadoresTipo DEF Tipos, TypeOK
    <3>3. cpu' = [cpu EXCEPT !.ctx = m.p, !.pendientes = n]
      BY <1>2
    <3> HIDE DEF m, n
    <3>2. cpu' \in Cpu /\ cpu'.ctx = m.p
      BY <1>1, <1>2, <3>1, <3>3 DEF Cpu
    <3> QED
      BY <1>1, <1>2, <3>2 DEF CpuConProceso
  <2> QED
    BY <1>1, <2>1
    DEF Tipos, TypeOK, HilosBien, CpuConProceso, Argumentos, CpuRecibe
<1>3. CASE cpu' = [cpu EXCEPT !.rta = @ + 1, !.negada = @ \/ m.v = "-1"]
  <2>1. cpu' \in Cpu /\ CpuConProceso'
    <3> DEFINE b == cpu.negada \/ m.v = "-1"
               n == cpu.rta + 1
    <3>1. cpu \in Cpu /\ b \in BOOLEAN /\ n \in Nat
      BY ContadoresTipo DEF Tipos, TypeOK
    <3>2. cpu' = [cpu EXCEPT !.rta = n, !.negada = b]
      BY <1>3
    <3> HIDE DEF b, n
    <3>3. /\ cpu' \in Cpu
          /\ cpu'.ctx = cpu.ctx /\ cpu'.modo = cpu.modo
          /\ cpu'.pendientes = cpu.pendientes
      BY <3>1, <3>2 DEF Cpu
    <3> QED
      BY <3>3 DEF Tipos, CpuConProceso
  <2> QED
    BY <1>1, <2>1
    DEF Tipos, TypeOK, HilosBien, CpuConProceso, Argumentos, CpuRecibe
<1> QED
  BY <1>2, <1>3 DEF CpuRecibe

LEMMA CpuEmpiezaTipos ==
  ASSUME Tipos, CpuEmpieza
  PROVE  Tipos'
<1>1. cpu' \in Cpu /\ CpuConProceso'
  <2>1. cpu \in Cpu /\ cpu.ctx \in Pids
    BY DEF Tipos, TypeOK, CpuConProceso, CpuEmpieza
  <2> DEFINE n == cpu.pendientes - 1
  <2>3. n \in Nat
    <3>1. cpu.pendientes > 0
      BY DEF CpuEmpieza
    <3> QED
      BY <2>1, <3>1, ContadoresTipo
  <2>4. \E m \in {"libre", "ejecuta", "espera", "sale"} :
          cpu' = [cpu EXCEPT !.pendientes = n, !.modo = m]
    BY DEF CpuEmpieza
  <2> HIDE DEF n
  <2>2. cpu' \in Cpu /\ cpu'.ctx = cpu.ctx
    BY <2>1, <2>3, <2>4 DEF Cpu
  <2> QED
    BY <2>1, <2>2 DEF CpuConProceso
<1> QED
  BY <1>1 DEF Tipos, TypeOK, HilosBien, CpuConProceso, Argumentos, CpuEmpieza

LEMMA CpuInterrupcionTipos ==
  ASSUME Tipos, CpuInterrupcion
  PROVE  Tipos'
<1>1. irqs \in Seq(Pids \X Motivos) /\ irqs # <<>>
  BY DEF Tipos, TypeOK, CpuInterrupcion
<1>2. Tail(irqs) \in Seq(Pids \X Motivos) /\ Head(irqs) \in Pids \X Motivos
  <2> DEFINE S == Pids \X Motivos
  <2>1. irqs \in Seq(S)
    BY <1>1
  <2> HIDE DEF S
  <2>2. Tail(irqs) \in Seq(S) /\ Head(irqs) \in S
    BY <1>1, <2>1
  <2> QED
    BY <2>2 DEF S
<1>3. irqs' \in Seq(Pids \X Motivos) /\ Head(irqs)[2] \in Motivos
  BY <1>2 DEF CpuInterrupcion
<1>4. cpu' \in Cpu /\ CpuConProceso'
  BY <1>3 DEF Tipos, TypeOK, Cpu, CpuConProceso, CpuInterrupcion
<1> QED
  BY <1>3, <1>4
  DEF Tipos, TypeOK, HilosBien, CpuConProceso, Argumentos, CpuInterrupcion

\* Every system call is well formed, with the pid of the context.
LEMMA PedidosTipo ==
  ASSUME Tipos, cpu.ctx \in Pids, NEW m \in Pedidos
  PROVE  m \in Pedido
<1>1. recursos_pcb[cpu.ctx] \in Seq(Recursos)
  BY DEF Tipos, TypeOK
<1>2. ToSet(recursos_pcb[cpu.ctx]) \subseteq Recursos
  BY <1>1 DEF ToSet
<1> QED
  BY <1>2 DEF Pedidos, Pide, Pedido

LEMMA CpuPideTipos ==
  ASSUME Tipos, CpuPide
  PROVE  Tipos'
<1>1. cpu.ctx \in Pids
  BY DEF Tipos, CpuConProceso, CpuPide
<1>2. PICK m \in Pedidos :
        /\ m.t # "SIGNAL" => pasos[cpu.ctx] < MaxPasos
        /\ pasos' = IF m.t = "SIGNAL" THEN pasos
                    ELSE [pasos EXCEPT ![cpu.ctx] = @ + 1]
        /\ canal' = Append(canal, m)
        /\ cpu' = [cpu EXCEPT !.modo = IF m.t \in {"WAIT", "SIGNAL"}
                                       THEN "espera" ELSE "sale"]
  BY DEF CpuPide
<1>3. canal' \in Seq(Pedido)
  <2>1. m \in Pedido /\ canal \in Seq(Pedido)
    BY <1>1, PedidosTipo DEF Tipos, TypeOK
  <2>2. Append(canal, m) \in Seq(Pedido)
    BY <2>1, AppendProperties
  <2> QED
    BY <1>2, <2>2
<1>4. pasos' \in [Pids -> 0..MaxPasos]
  <2>1. MaxPasos \in Nat /\ pasos \in [Pids -> 0..MaxPasos]
    BY KernelAssumption DEF Tipos, TypeOK
  <2> QED
    BY <1>1, <1>2, <2>1
<1>5. cpu' \in Cpu /\ CpuConProceso'
  BY <1>1, <1>2 DEF Tipos, TypeOK, Cpu, CpuConProceso
<1> QED
  BY <1>3, <1>4, <1>5
  DEF Tipos, TypeOK, HilosBien, CpuConProceso, Argumentos, CpuPide

LEMMA CpuRespondidoTipos ==
  ASSUME Tipos, CpuRespondido
  PROVE  Tipos'
<1>1. cpu' \in Cpu /\ CpuConProceso'
  <2>1. cpu \in Cpu /\ cpu.ctx \in Pids
    BY DEF Tipos, TypeOK, CpuConProceso, CpuRespondido
  <2> DEFINE n == cpu.rta - 1
  <2>3. n \in Nat
    <3>1. cpu.rta > 0
      BY DEF CpuRespondido
    <3> QED
      BY <2>1, <3>1, ContadoresTipo
  <2>4. \E m \in {"libre", "ejecuta", "espera", "sale"} :
          cpu' = [cpu EXCEPT !.rta = n, !.modo = m]
    BY DEF CpuRespondido
  <2> HIDE DEF n
  <2>2. cpu' \in Cpu /\ cpu'.ctx = cpu.ctx
    BY <2>1, <2>3, <2>4 DEF Cpu
  <2> QED
    BY <2>1, <2>2 DEF CpuConProceso
<1> QED
  BY <1>1 DEF Tipos, TypeOK, HilosBien, CpuConProceso, Argumentos, CpuRespondido

LEMMA DesalojaTipos ==
  ASSUME Tipos, NEW tipo \in {"ATENDER_EXIT", "ATENDER_OUT_OF_MEMORY"},
         Desaloja(tipo)
  PROVE  Tipos'
<1>1. cpu' \in Cpu /\ CpuConProceso'
  BY DEF Tipos, TypeOK, Cpu, CpuConProceso, Desaloja
<1> QED
  BY <1>1 DEF Tipos, TypeOK, HilosBien, CpuConProceso, Argumentos, Desaloja

LEMMA CpuVeInterrupcionTipos ==
  ASSUME Tipos, CpuVeInterrupcion
  PROVE  Tipos'
<1>1. cpu' \in Cpu /\ CpuConProceso'
  BY DEF Tipos, TypeOK, Cpu, CpuConProceso, CpuVeInterrupcion
<1> QED
  BY <1>1
  DEF Tipos, TypeOK, HilosBien, CpuConProceso, Argumentos, CpuVeInterrupcion

LEMMA CpuSaleTipos ==
  ASSUME Tipos, CpuSale
  PROVE  Tipos'
<1>1. cpu' \in Cpu /\ CpuConProceso'
  BY DEF Tipos, TypeOK, Cpu, CpuConProceso, CpuSale
<1>2. cpu.ctx \in Pids
  BY DEF Tipos, CpuConProceso, CpuSale
<1>3. canal' \in Seq(Pedido)
  <2> DEFINE d == Pide("DESALOJO", cpu.irq)
             f == Pide(cpu.desalojar, Nadie)
             desalojo == IF cpu.irq # "" /\ cpu.desalojar # "ATENDER_EXIT"
                         THEN <<d>> ELSE <<>>
             fin == IF cpu.desalojar # "" THEN <<f>> ELSE <<>>
  <2>1. cpu.irq # "" => d \in Pedido
    BY <1>2 DEF Tipos, TypeOK, Cpu, Pide, Pedido
  <2>2. cpu.desalojar # "" => f \in Pedido
    BY <1>2 DEF Tipos, TypeOK, Cpu, Pide, Pedido
  <2>3. canal' = canal \o desalojo \o fin
    BY DEF CpuSale
  <2>4. canal \in Seq(Pedido)
    BY DEF Tipos, TypeOK
  <2> HIDE DEF d, f
  <2>5. desalojo \in Seq(Pedido) /\ fin \in Seq(Pedido)
    <3>1. ASSUME NEW m \in Pedido PROVE <<m>> \in Seq(Pedido)
      OBVIOUS
    <3>2. CASE cpu.irq = "" /\ cpu.desalojar = ""
      BY <3>2, EmptySeq
    <3> QED
      BY <2>1, <2>2, <3>1, EmptySeq
  <2> HIDE DEF desalojo, fin
  <2> QED
    BY <2>3, <2>4, <2>5, ConcatProperties
<1> QED
  BY <1>1, <1>3
  DEF Tipos, TypeOK, HilosBien, CpuConProceso, Argumentos, CpuSale

LEMMA CpuEjecutaTipos ==
  ASSUME Tipos, CpuEjecuta
  PROVE  Tipos'
  BY CpuRecibeTipos, CpuEmpiezaTipos, CpuInterrupcionTipos, CpuPideTipos,
     CpuRespondidoTipos, DesalojaTipos, CpuVeInterrupcionTipos, CpuSaleTipos
  DEF CpuEjecuta, CpuExit, CpuSinMemoria

-----------------------------------------------------------------------------
(* The type invariant *)

LEMMA NextTipos ==
  ASSUME Tipos, [Next]_vars
  PROVE  Tipos'
<1>1. CASE UNCHANGED vars
  BY <1>1 DEF Tipos, TypeOK, HilosBien, CpuConProceso, Argumentos, vars
<1>2. CASE Consola
  BY <1>2, IniciarProcesoTipos, FinalizarProcesoTipos DEF Consola
<1>3. CASE \E t \in Hilos : HilosDelKernel(t)
  BY <1>3, HiloLargoPlazoTipos, HiloCortoPlazoTipos, HiloRecursosTipos,
     HiloDespachoTipos
  DEF HilosDelKernel
<1>4. CASE \E i \in Interfaces : HiloInterfaz(i)
  BY <1>4, HiloInterfazTipos
<1>5. CASE RecibirDelCpu
  BY <1>5, RecibirDelCpuTipos
<1>6. CASE Interrupciones
  <2>1. ASSUME NEW m \in Motivos, InterrumpirNulo(m) PROVE Tipos'
    BY <2>1, CaeTipos DEF InterrumpirNulo, Causas
  <2> QED
    BY <1>6, <2>1, VenceQuantumTipos, InterrumpirTipos DEF Interrupciones
<1>7. CASE CpuEjecuta
  BY <1>7, CpuEjecutaTipos
<1>8. CASE Terminado
  BY <1>1, <1>8 DEF Terminado
<1> QED
  BY <1>1, <1>2, <1>3, <1>4, <1>5, <1>6, <1>7, <1>8 DEF Next

LEMMA SpecTipos == Spec => []Tipos
  BY InitTipos, NextTipos, PTL DEF Spec

\* The state of the kernel keeps its types along every interleaving: no list
\* holds the NULL pointer, no queue a process that does not exist, no thread
\* runs a function without the arguments it reads (the casts of the void*
\* lists and the pcbs handed to detached threads).
THEOREM KernelTypeOK == Spec => []TypeOK
<1>1. Tipos => TypeOK
  BY DEF Tipos
<1> QED
  BY <1>1, SpecTipos, PTL

-----------------------------------------------------------------------------
(* One process in EXEC *)

\* No two threads hold the same mutex.
Exclusion ==
  \A t, u \in Hilos : t # u => hilos[t].tiene \intersect hilos[u].tiene = {}

\* Where a thread is between the test of lista_execute and its insertion.
Tomando == {"pcp_tomar", "pcp_prioridad"}

USE DEF Tomando

\* The thread that is about to fill EXEC has kept its mutex since it found the
\* list empty (VRR looks again).
TomaConExec ==
  \A t \in Hilos : hilos[t].pc \in Tomando =>
    /\ "EXEC" \in hilos[t].tiene
    /\ Algoritmo # "VRR" => lista["EXEC"] = <<>>

IInv == Tipos /\ Exclusion /\ TomaConExec /\ ExecUnico

Libres == {m \in Mutexes : Desocupado(m)}

\* In a step of thread t, nobody gets to fill EXEC, only t may get mutexes, and
\* those were free.
PasoSeguro(t) ==
  \A u \in Hilos :
    \/ hilos'[u] = hilos[u]
    \/ /\ hilos'[u].pc \notin Tomando
       /\ \/ hilos'[u].tiene = {}
          \/ u = t /\ hilos'[u].tiene \subseteq hilos[u].tiene \union Libres

ExecNoCrece == Len(lista'["EXEC"]) <= Len(lista["EXEC"])

LEMMA PasoSeguroBasta ==
  ASSUME IInv, Tipos', NEW t \in Hilos, PasoSeguro(t), ExecNoCrece
  PROVE  IInv'
<1>1. \A u, v \in Hilos : u # v => hilos[u].tiene \intersect hilos[v].tiene = {}
  BY DEF IInv, Exclusion
<1>2. \A v \in Hilos : Libres \intersect hilos[v].tiene = {}
  BY DEF Libres, Desocupado
<1>3. \A u \in Hilos : u # t => hilos'[u].tiene \subseteq hilos[u].tiene
  BY DEF PasoSeguro
<1>4. hilos'[t].tiene \subseteq hilos[t].tiene \union Libres
  BY DEF PasoSeguro
<1>5. Exclusion'
  <2> SUFFICES ASSUME NEW u \in Hilos, NEW v \in Hilos, u # v
               PROVE  hilos'[u].tiene \intersect hilos'[v].tiene = {}
    BY DEF Exclusion
  <2> QED
    BY <1>1, <1>2, <1>3, <1>4
<1>6. /\ lista["EXEC"] \in Seq(Pids) /\ lista'["EXEC"] \in Seq(Pids)
      /\ Len(lista["EXEC"]) \in Nat /\ Len(lista'["EXEC"]) \in Nat
  <2>1. lista \in [Colas -> Seq(Pids)] /\ "EXEC" \in Colas
    BY DEF IInv, Tipos, TypeOK, Colas
  <2>2. lista' \in [Colas -> Seq(Pids)]
    BY DEF Tipos, TypeOK
  <2> QED
    BY <2>1, <2>2
<1>7. lista["EXEC"] = <<>> => lista'["EXEC"] = <<>>
  BY <1>6 DEF ExecNoCrece
<1>8. TomaConExec'
  BY <1>7 DEF IInv, TomaConExec, PasoSeguro
<1>9. ExecUnico'
  BY <1>6 DEF IInv, ExecUnico, ExecNoCrece
<1> QED
  BY <1>5, <1>8, <1>9 DEF IInv

LEMMA PasaSeguro ==
  ASSUME Tipos, NEW t \in Hilos, NEW h, Pasa(t, h), h.pc \notin Tomando,
         h.tiene \subseteq hilos[t].tiene \union Libres
  PROVE  PasoSeguro(t)
  BY DEF Tipos, HilosBien, Pasa, PasoSeguro

LEMMA LanzaSeguro ==
  ASSUME Tipos, NEW n, Lanza(n), n.pc \notin Tomando, n.tiene = {}
  PROVE  \E t \in Hilos : PasoSeguro(t)
  BY DEF Tipos, HilosBien, Lanza, PasoSeguro, Hilos

LEMMA PasaYLanzaSeguro ==
  ASSUME Tipos, NEW t \in Hilos, NEW h, NEW n, PasaYLanza(t, h, n),
         h.pc \notin Tomando, h.tiene \subseteq hilos[t].tiene \union Libres,
         n.pc \notin Tomando, n.tiene = {}
  PROVE  PasoSeguro(t)
  BY DEF Tipos, HilosBien, PasaYLanza, PasoSeguro, Hilos

LEMMA ReposoSeguro == Reposo.pc \notin Tomando /\ Reposo.tiene = {}
  BY DEF Reposo

LEMMA ArrancaSeguro ==
  ASSUME NEW pc, NEW p, NEW r
  PROVE  Arranca(pc, p, r).pc = pc /\ Arranca(pc, p, r).tiene = {}
  BY DEF Arranca, Reposo

\* Two changes of a thread that keeps what it holds.
LEMMA VuelveSeguro ==
  ASSUME Tipos, NEW t \in Hilos, Vuelve(t)
  PROVE  PasoSeguro(t)
  BY ReposoSeguro, PasaSeguro DEF Vuelve

LEMMA SigueSeguro ==
  ASSUME Tipos, NEW t \in Hilos, NEW pc, pc \notin Tomando, Sigue(t, pc)
  PROVE  PasoSeguro(t)
<1> DEFINE h == [hilos[t] EXCEPT !.pc = pc]
<1>1. h.pc = pc /\ h.tiene = hilos[t].tiene
  BY DEF Tipos, HilosBien, Hilo
<1> QED
  BY <1>1, PasaSeguro DEF Sigue

LEMMA LlamaPcpSeguro ==
  ASSUME Tipos, NEW t \in Hilos, NEW ms, ms \subseteq hilos[t].tiene,
         Pasa(t, LlamaPcp(t, ms))
  PROVE  PasoSeguro(t)
<1>1. LlamaPcp(t, ms).pc = "pcp" /\ LlamaPcp(t, ms).tiene = ms
  BY DEF LlamaPcp, Reposo
<1> QED
  BY <1>1, PasaSeguro

LEMMA ListaIgual == ASSUME Tipos, lista' = lista PROVE ExecNoCrece
<1>1. Len(lista["EXEC"]) \in Nat
  BY DEF Tipos, TypeOK, Colas
<1> QED
  BY <1>1 DEF ExecNoCrece

LEMMA OtraLista ==
  ASSUME Tipos, NEW l, l # "EXEC", NEW s, lista' = [lista EXCEPT ![l] = s]
  PROVE  ExecNoCrece
<1>1. Len(lista["EXEC"]) \in Nat /\ lista'["EXEC"] = lista["EXEC"]
  BY DEF Tipos, TypeOK, Colas
<1> QED
  BY <1>1 DEF ExecNoCrece

LEMMA SaleDeExec ==
  ASSUME Tipos, NEW p, lista'["EXEC"] = Sin(lista["EXEC"], p)
  PROVE  ExecNoCrece
<1>1. lista["EXEC"] \in Seq(Pids)
  BY DEF Tipos, TypeOK, Colas
<1> QED
  BY <1>1, SinTipo DEF ExecNoCrece

\* A thread that ends a process has just taken the mutex of its list.
LEMMA TerminarSeguro ==
  ASSUME Tipos, NEW t \in Hilos, NEW op, NEW l \in Colas, NEW rs,
         Desocupado(l), Terminar(t, op, l, rs)
  PROVE  PasoSeguro(t)
<1> DEFINE h == [hilos[t] EXCEPT
                   !.pc = IF rs = <<>> THEN "avisar" ELSE "liberar",
                   !.op = op, !.rs = rs, !.tiene = {l}]
<1>1. h.pc \notin Tomando /\ h.tiene = {l}
  BY DEF Tipos, HilosBien, Hilo
<1>2. l \in Libres
  BY DEF Libres, Mutexes
<1>3. Pasa(t, h)
  BY DEF Terminar
<1> HIDE DEF h
<1> QED
  BY <1>1, <1>2, <1>3, PasaSeguro

LEMMA NadaPasa ==
  ASSUME Tipos, UNCHANGED <<lista, hilos>>
  PROVE  (\E t \in Hilos : PasoSeguro(t)) /\ ExecNoCrece
  BY DespachoEsHilo, ListaIgual DEF PasoSeguro

\* Every step of a thread but the two that fill EXEC.
LEMMA LargoPlazoSeguro ==
  ASSUME Tipos, NEW t \in Hilos, HiloLargoPlazo(t)
  PROVE  (\E u \in Hilos : PasoSeguro(u)) /\ ExecNoCrece
<1> DEFINE P == (\E u \in Hilos : PasoSeguro(u)) /\ ExecNoCrece
<1>1. CASE Nuevo(t)
  <2>1. lista' = [lista EXCEPT !["NEW"] = Append(@, hilos[t].p)]
    BY <1>1 DEF Nuevo
  <2>2. PasoSeguro(t)
    BY <1>1, ArrancaSeguro, PasaSeguro DEF Nuevo
  <2> QED
    BY <2>1, <2>2, OtraLista
<1>2. CASE TomarNew(t)
  <2> DEFINE h == [hilos[t] EXCEPT !.pc = "plp_cupo", !.tiene = {"NEW"}]
  <2>1. h.pc = "plp_cupo" /\ h.tiene = {"NEW"} /\ "NEW" \in Libres
    BY <1>2 DEF Tipos, HilosBien, Hilo, TomarNew, Libres, Mutexes, Colas
  <2> QED
    BY <1>2, <2>1, PasaSeguro, ListaIgual DEF TomarNew
<1>3. CASE TomarCupo(t)
  <2>1. ExecNoCrece
    BY <1>3, ListaIgual, OtraLista DEF TomarCupo
  <2>2. CASE Pasa(t, LlamaPcp(t, {}))
    BY <2>1, <2>2, LlamaPcpSeguro
  <2>3. CASE Pasa(t, [hilos[t] EXCEPT !.pc = "plp_ready",
                                      !.p = Head(lista["NEW"])])
    <3> DEFINE h == [hilos[t] EXCEPT !.pc = "plp_ready",
                                     !.p = Head(lista["NEW"])]
    <3>1. h.pc = "plp_ready" /\ h.tiene = hilos[t].tiene
      BY DEF Tipos, HilosBien, Hilo
    <3> QED
      BY <2>1, <2>3, <3>1, PasaSeguro
  <2> QED
    BY <1>3, <2>2, <2>3 DEF TomarCupo
<1>4. CASE PasarAReady(t)
  BY <1>4, LlamaPcpSeguro, OtraLista DEF PasarAReady
<1>5. CASE Buscar(t)
  <2>1. ExecNoCrece
    BY <1>5, ListaIgual, OtraLista DEF Buscar
  <2>2. PICK h \in {[hilos[t] EXCEPT !.pc = "io_siguiente", !.p = hilos[t].p,
                                     !.l = ""],
                    [hilos[t] EXCEPT !.pc = "io_siguiente", !.p = Nadie,
                                     !.l = ""],
                    [hilos[t] EXCEPT !.pc = "segun_estado", !.l = ""],
                    [hilos[t] EXCEPT !.l = Siguiente[hilos[t].l]]} : Pasa(t, h)
    BY <1>5 DEF Buscar, Encontrado
  <2>3. h.pc \notin Tomando /\ h.tiene = hilos[t].tiene
    BY <1>5, <2>2 DEF Tipos, HilosBien, Hilo, Buscar, EnPc
  <2> QED
    BY <2>1, <2>2, <2>3, PasaSeguro
<1>6. CASE SegunEstado(t)
  <2>1. CASE Vuelve(t)
    BY <1>6, <2>1, VuelveSeguro, ListaIgual DEF SegunEstado
  <2>2. ASSUME NEW op, NEW rs, Desocupado(estado[hilos[t].p]),
               estado[hilos[t].p] \in Colas,
               Terminar(t, op, estado[hilos[t].p], rs)
        PROVE  P
    BY <1>6, <2>2, TerminarSeguro, ListaIgual DEF SegunEstado
  <2> QED
    BY <1>6, <2>1, <2>2 DEF SegunEstado, Colas
<1>7. CASE SalirDeExec(t)
  <2>1. PICK op \in {"plp_exit", "desalojar"} :
          Terminar(t, op, "EXEC", recursos_pcb[hilos[t].p])
    BY <1>7 DEF SalirDeExec
  <2>2. Desocupado("EXEC") /\ lista' = [lista EXCEPT !["EXEC"] = Sin(@, hilos[t].p)]
    BY <1>7 DEF SalirDeExec
  <2>3. lista'["EXEC"] = Sin(lista["EXEC"], hilos[t].p)
    BY <2>2 DEF Tipos, TypeOK, Colas
  <2>4. PasoSeguro(t)
    BY <2>1, <2>2, TerminarSeguro DEF Colas
  <2> QED
    BY <2>3, <2>4, SaleDeExec
<1>8. CASE LiberarRecurso(t)
  <2> DEFINE r == Head(hilos[t].rs)
             o == OtroRecurso(hilos[t])
             h == [hilos[t] EXCEPT !.pc = "liberar_suma",
                     !.n = instancias[r], !.tiene = @ \union {r}]
  <2>1. o.pc \notin Tomando /\ o.tiene = hilos[t].tiene
    BY DEF Tipos, HilosBien, Hilo, OtroRecurso
  <2>2. h.pc \notin Tomando /\ h.tiene = hilos[t].tiene \union {r}
    BY DEF Tipos, HilosBien, Hilo
  <2>3. Pasa(t, o) \/ Pasa(t, h)
    BY <1>8 DEF LiberarRecurso
  <2>4. r \in Libres
    <3>1. hilos[t].rs \in Seq(Recursos) /\ hilos[t].rs # <<>> /\ Desocupado(r)
      BY <1>8 DEF Tipos, HilosBien, Hilo, Argumentos, LiberarRecurso, EnPc
    <3>2. r \in Recursos
      BY <3>1, HeadTailProperties
    <3> QED
      BY <3>1, <3>2 DEF Libres, Mutexes
  <2> HIDE DEF h, o, r
  <2>5. PasoSeguro(t)
    BY <2>1, <2>2, <2>3, <2>4, PasaSeguro
  <2> QED
    BY <1>8, <2>5, ListaIgual DEF LiberarRecurso
<1>9. CASE LiberarSumar(t)
  <2> DEFINE r == Head(hilos[t].rs)
             o == OtroRecurso(hilos[t])
             h == [o EXCEPT !.n = 0, !.tiene = @ \ {r}]
             n == Arranca("asignar", Nadie, r)
  <2>1. hilos[t] \in Hilo /\ hilos[t].p \in Pids /\ hilos[t].rs # <<>>
    BY <1>9 DEF Tipos, HilosBien, Argumentos, LiberarSumar, EnPc
  <2>2. /\ o \in Hilo /\ o.pc \in {"avisar", "liberar"}
        /\ o.tiene = hilos[t].tiene
    BY <2>1, OtroRecursoTipo
  <2>3. PasaYLanza(t, h, n) /\ lista' = lista
    BY <1>9 DEF LiberarSumar
  <2>4. n.pc \notin Tomando /\ n.tiene = {}
    BY ArrancaSeguro
  <2> HIDE DEF o, n, r
  <2>5. h.pc \notin Tomando /\ h.tiene \subseteq hilos[t].tiene
    BY <2>2 DEF Hilo
  <2> HIDE DEF h
  <2> QED
    BY <2>3, <2>4, <2>5, PasaYLanzaSeguro, ListaIgual
<1>10. CASE AvisarMemoria(t)
  <2> DEFINE h == [hilos[t] EXCEPT !.pc = "transferir", !.l = "EXIT"]
  <2>1. h.pc = "transferir" /\ h.tiene = hilos[t].tiene
    BY DEF Tipos, HilosBien, Hilo
  <2> QED
    BY <1>10, <2>1, PasaSeguro, ListaIgual DEF AvisarMemoria
<1>11. CASE Transferir(t)
  BY <1>11, SigueSeguro, ListaIgual DEF Transferir
<1>12. CASE AgregarAExit(t)
  <2>1. lista' = [lista EXCEPT !["EXIT"] = Append(@, hilos[t].p)]
    BY <1>12 DEF AgregarAExit, Agregar
  <2>2. PasoSeguro(t)
    BY <1>12, VuelveSeguro, LlamaPcpSeguro DEF AgregarAExit
  <2> QED
    BY <2>1, <2>2, OtraLista
<1>13. ASSUME NEW c, Cae(c) PROVE P
  BY <1>13, NadaPasa DEF Cae
<1> QED
  BY <1>1, <1>2, <1>3, <1>4, <1>5, <1>6, <1>7, <1>8, <1>9, <1>10, <1>11, <1>12,
     <1>13
  DEF HiloLargoPlazo, BuscarNulo, SegunEstadoAusente, SalirDeExecAusente,
      AvisarDesconocido

LEMMA CortoPlazoSeguro ==
  ASSUME Tipos, NEW t \in Hilos, HiloCortoPlazo(t), ~TomarExec(t),
         ~TomarReady(t), ~Tomar(t)
  PROVE  (\E u \in Hilos : PasoSeguro(u)) /\ ExecNoCrece
<1> DEFINE P == (\E u \in Hilos : PasoSeguro(u)) /\ ExecNoCrece
<1>1. CASE MirarReady(t)
  <2>1. VistoReady(t).pc = "pcp_exec" /\ VistoReady(t).tiene = hilos[t].tiene
    BY DEF Tipos, HilosBien, Hilo, VistoReady
  <2>2. PasoSeguro(t)
    BY <1>1, <2>1, VuelveSeguro, PasaSeguro DEF MirarReady
  <2> QED
    BY <1>1, <2>2, ListaIgual DEF MirarReady
<1>2. CASE AtenderMotivo(t)
  <2> DEFINE n == Arranca("desalojar", hilos[t].p, Nadie)
  <2>1. n.pc \notin Tomando /\ n.tiene = {}
    BY ArrancaSeguro
  <2>2. \/ Sigue(t, "desalojar")
        \/ Sigue(t, "reubicar")
        \/ PasaYLanza(t, Reposo, n)
    BY <1>2 DEF AtenderMotivo
  <2> HIDE DEF n
  <2>3. PasoSeguro(t)
    BY <2>1, <2>2, SigueSeguro, ReposoSeguro, PasaYLanzaSeguro
  <2> QED
    BY <1>2, <2>3, ListaIgual DEF AtenderMotivo
<1>3. CASE Reubicar(t)
  <2> DEFINE h == [hilos[t] EXCEPT !.pc = "reubicar_ready", !.tiene = {"EXEC"}]
  <2>1. h.pc = "reubicar_ready" /\ h.tiene = {"EXEC"} /\ "EXEC" \in Libres
    BY <1>3 DEF Tipos, HilosBien, Hilo, Reubicar, Libres, Mutexes, Colas
  <2> QED
    BY <1>3, <2>1, PasaSeguro, ListaIgual DEF Reubicar
<1>4. CASE ReubicarReady(t)
  <2> DEFINE h == [hilos[t] EXCEPT !.pc = "reubicar_prioridad",
                                   !.tiene = @ \union {"READY"}]
  <2>1. /\ h.pc = "reubicar_prioridad"
        /\ h.tiene = hilos[t].tiene \union {"READY"}
        /\ "READY" \in Libres
    BY <1>4 DEF Tipos, HilosBien, Hilo, ReubicarReady, Libres, Mutexes, Colas
  <2> QED
    BY <1>4, <2>1, PasaSeguro, ListaIgual DEF ReubicarReady
<1>8. CASE ReubicarAReady(t)
  <2>1. lista' = [lista EXCEPT !["EXEC"] = Sin(@, hilos[t].p),
                               !["READY"] = Append(@, hilos[t].p)]
    BY <1>8 DEF ReubicarAReady
  <2>2. lista'["EXEC"] = Sin(lista["EXEC"], hilos[t].p)
    BY <2>1 DEF Tipos, TypeOK, Colas
  <2>3. PasoSeguro(t)
    BY <1>8, LlamaPcpSeguro DEF ReubicarAReady, Replanificar
  <2> QED
    BY <2>2, <2>3, SaleDeExec
<1>5. CASE Analizar(t)
  <2>1. PICK l \in {"READY", "READY_PRIORIDAD"} :
          Pasa(t, [hilos[t] EXCEPT !.pc = "transferir", !.l = l])
    BY <1>5 DEF Analizar, Destinos, DestinosVRR
  <2> DEFINE h == [hilos[t] EXCEPT !.pc = "transferir", !.l = l]
  <2>2. h.pc = "transferir" /\ h.tiene = hilos[t].tiene
    BY DEF Tipos, HilosBien, Hilo
  <2> QED
    BY <1>5, <2>1, <2>2, PasaSeguro, ListaIgual DEF Analizar
<1>6. CASE AgregarAReady(t)
  <2>1. PICK l \in {"READY", "READY_PRIORIDAD"} :
          lista' = [lista EXCEPT ![l] = Append(@, hilos[t].p)]
    BY <1>6 DEF AgregarAReady, Agregar
  <2>2. PasoSeguro(t)
    BY <1>6, LlamaPcpSeguro DEF AgregarAReady
  <2> QED
    BY <2>1, <2>2, OtraLista
<1>7. ASSUME NEW c, Cae(c) PROVE P
  BY <1>7, NadaPasa DEF Cae
<1> QED
  BY <1>1, <1>2, <1>3, <1>4, <1>5, <1>6, <1>7, <1>8
  DEF HiloCortoPlazo, TomarSinTimer, ReubicarAusente, AnalizarNulo

LEMMA RecursosSeguro ==
  ASSUME Tipos, NEW t \in Hilos, HiloRecursos(t)
  PROVE  (\E u \in Hilos : PasoSeguro(u)) /\ ExecNoCrece
<1>1. CASE AgregarDesconocido(t)
  <2>1. lista' = [lista EXCEPT !["EXIT"] = Append(@, hilos[t].p)]
    BY <1>1 DEF AgregarDesconocido, Agregar
  <2>2. PasoSeguro(t)
    BY <1>1, ArrancaSeguro, PasaSeguro DEF AgregarDesconocido
  <2> QED
    BY <2>1, <2>2, OtraLista
<1>2. CASE WaitBloquear(t)
  <2>1. ABlocked(t).pc = "transferir" /\ ABlocked(t).tiene = hilos[t].tiene
    BY DEF Tipos, HilosBien, Hilo, ABlocked
  <2>2. PasoSeguro(t)
    BY <1>2, <2>1, PasaSeguro DEF WaitBloquear
  <2>3. ExecNoCrece
    <3>1. lista["EXEC"] \in Seq(Pids) /\ lista'["EXEC"] = ExecSinCabeza
      BY <1>2 DEF Tipos, TypeOK, Colas, WaitBloquear
    <3>2. Len(ExecSinCabeza) <= Len(lista["EXEC"])
      BY <3>1 DEF ExecSinCabeza
    <3> QED
      BY <3>1, <3>2 DEF ExecNoCrece
  <2> QED
    BY <2>2, <2>3
<1>3. CASE WaitEncolar(t)
  <2>1. PasoSeguro(t)
    BY <1>3, SigueSeguro, LlamaPcpSeguro DEF WaitEncolar
  <2> QED
    BY <1>3, <2>1, ListaIgual DEF WaitEncolar
<1>4. CASE Asignar(t)
  <2> DEFINE r == hilos[t].r
             h == [Leido(hilos[t], "asignar_resta", r) EXCEPT
                     !.p = Head(cola_recurso[r]), !.tiene = {r}]
  <2>1. Vuelve(t) \/ Pasa(t, h)
    BY <1>4 DEF Asignar
  <2>2. h.pc = "asignar_resta" /\ h.tiene = {r}
    BY DEF Tipos, HilosBien, Hilo, Leido
  <2>3. r \in Libres
    BY <1>4 DEF Tipos, HilosBien, Argumentos, Asignar, EnPc, Libres, Mutexes
  <2> HIDE DEF h
  <2>4. PasoSeguro(t)
    BY <2>1, <2>2, <2>3, VuelveSeguro, PasaSeguro
  <2> QED
    BY <1>4, <2>4, ListaIgual DEF Asignar
<1>5. CASE Desbloquear(t)
  <2> DEFINE h == [hilos[t] EXCEPT !.pc = "analizar", !.op = "asignar",
                                   !.tiene = @ \union {"BLOCKED"}]
  <2>1. Pasa(t, h) \/ Pasa(t, LlamaPcp(t, hilos[t].tiene))
    BY <1>5 DEF Desbloquear
  <2>2. h.pc = "analizar" /\ h.tiene = hilos[t].tiene \union {"BLOCKED"}
    BY DEF Tipos, HilosBien, Hilo
  <2>3. "BLOCKED" \in Libres
    BY <1>5 DEF Desbloquear, Libres, Mutexes, Colas
  <2> HIDE DEF h
  <2>4. PasoSeguro(t)
    BY <2>1, <2>2, <2>3, LlamaPcpSeguro, PasaSeguro
  <2> QED
    BY <1>5, <2>4, ListaIgual, OtraLista DEF Desbloquear
<1>6. CASE WaitLeer(t)
  <2> DEFINE h == Leido(hilos[t], "wait_resta", hilos[t].r)
  <2>1. h.pc = "wait_resta" /\ h.tiene = hilos[t].tiene
    BY DEF Tipos, HilosBien, Hilo, Leido
  <2> QED
    BY <1>6, <2>1, PasaSeguro, ListaIgual DEF WaitLeer
<1>7. CASE WaitRestar(t)
  BY <1>7, VuelveSeguro, ListaIgual DEF WaitRestar
<1>8. CASE SignalSumar(t)
  <2>1. Vuelve(t) \/ Pasa(t, Arranca("asignar", Nadie, hilos[t].r))
    BY <1>8 DEF SignalSumar
  <2>2. PasoSeguro(t)
    BY <2>1, ArrancaSeguro, VuelveSeguro, PasaSeguro
  <2> QED
    BY <1>8, <2>2, ListaIgual DEF SignalSumar
<1>9. CASE AsignarRestar(t)
  <2> DEFINE h == [hilos[t] EXCEPT !.pc = "desbloquear", !.n = 0]
  <2>1. h.pc = "desbloquear" /\ h.tiene = hilos[t].tiene
    BY DEF Tipos, HilosBien, Hilo
  <2> QED
    BY <1>9, <2>1, PasaSeguro, ListaIgual DEF AsignarRestar
<1> QED
  BY <1>1, <1>2, <1>3, <1>4, <1>5, <1>6, <1>7, <1>8, <1>9 DEF HiloRecursos

LEMMA DespachoSeguro ==
  ASSUME Tipos, NEW t \in Hilos, HiloDespacho(t)
  PROVE  (\E u \in Hilos : PasoSeguro(u)) /\ ExecNoCrece
<1>1. CASE AgregarABlocked(t)
  <2>1. lista' = [lista EXCEPT !["BLOCKED"] = Append(@, hilos[t].p)]
    BY <1>1 DEF AgregarABlocked, Agregar
  <2>2. PICK pc \in {"wait_encolar", "io_mandar", "io_encolar"} : Sigue(t, pc)
    BY <1>1 DEF AgregarABlocked
  <2>3. PasoSeguro(t)
    BY <2>2, SigueSeguro
  <2> QED
    BY <2>1, <2>3, OtraLista
<1>2. CASE MandarIO(t)
  BY <1>2, LlamaPcpSeguro, ListaIgual DEF MandarIO
<1>3. CASE EncolarIO(t)
  BY <1>3, VuelveSeguro, ListaIgual DEF EncolarIO
<1> QED
  BY <1>1, <1>2, <1>3 DEF HiloDespacho

LEMMA InterfazSeguro ==
  ASSUME Tipos, NEW i \in Interfaces, HiloInterfaz(i)
  PROVE  (\E u \in Hilos : PasoSeguro(u)) /\ ExecNoCrece
<1>1. i \in Hilos
  BY DEF Hilos
<1>2. CASE FinEntradaSalida(i)
  <2> DEFINE p == io[i].pedido
             b == [Arranca("buscar", p, Nadie) EXCEPT !.op = "fin", !.l = "NEW"]
             e == Arranca("plp_exit", IF EnLista(p, "BLOCKED") THEN p ELSE Nadie,
                          Nadie)
  <2>1. b.pc = "buscar" /\ b.tiene = {}
    <3>1. p \in Pids
      BY <1>2 DEF Tipos, TypeOK, Instancia, FinEntradaSalida
    <3> QED
      BY <3>1, BuscarTipo DEF Ops
  <2>2. e.pc = "plp_exit" /\ e.tiene = {}
    BY ArrancaSeguro
  <2>3. Pasa(i, b) \/ Pasa(i, e)
    BY <1>2 DEF FinEntradaSalida
  <2> HIDE DEF b, e
  <2>4. PasoSeguro(i)
    BY <1>1, <2>1, <2>2, <2>3, PasaSeguro
  <2> QED
    BY <1>1, <1>2, <2>4, ListaIgual DEF FinEntradaSalida
<1>3. CASE SiguienteIO(i)
  BY <1>1, <1>3, SigueSeguro, ListaIgual DEF SiguienteIO
<1>4. CASE LiberarIO(i)
  BY <1>1, <1>4, SigueSeguro, ListaIgual DEF LiberarIO
<1>5. CASE SiguienteIOLiberada(i)
  BY <1>5, NadaPasa DEF SiguienteIOLiberada, Cae
<1> QED
  BY <1>2, <1>3, <1>4, <1>5 DEF HiloInterfaz

LEMMA InstruccionSeguro ==
  ASSUME Tipos, RecibirInstruccion
  PROVE  PasoSeguro(Despacho) /\ ExecNoCrece
<1> DEFINE p == Actual.p
           x == Actual.x
<1>1. p \in Pids /\ Despacho \in Hilos
  <2>1. HayMensaje
    BY DEF RecibirInstruccion, Sirve
  <2> QED
    BY <2>1, ActualTipo, PedidoTipo
<1>2. CASE AtenderWait(p, x)
  <2> DEFINE w == Arranca("wait_bloquear", p, x)
             a == Arranca("transferir", p, Nadie)
             d == [a EXCEPT !.op = "wait", !.l = "EXIT"]
             c == Arranca("wait_leer", p, x)
  <2>1. Pasa(Despacho, c) \/ Pasa(Despacho, w) \/ Pasa(Despacho, d)
    BY <1>2 DEF AtenderWait, WaitConcedido, WaitNegado, WaitDesconocido
  <2>2. lista' = lista
    BY <1>2 DEF AtenderWait, WaitConcedido, WaitNegado, WaitDesconocido
  <2>3. /\ w.pc \notin Tomando /\ w.tiene = {}
        /\ c.pc \notin Tomando /\ c.tiene = {}
    BY ArrancaSeguro
  <2>4. d.pc \notin Tomando /\ d.tiene = {}
    <3>1. a \in Hilo /\ a.pc = "transferir" /\ a.tiene = {}
      BY <1>1, ArrancaTipo DEF Pcs
    <3> HIDE DEF a
    <3> QED
      BY <3>1 DEF Hilo
  <2> HIDE DEF c, w, d
  <2> QED
    BY <1>1, <2>1, <2>2, <2>3, <2>4, PasaSeguro, ListaIgual
<1>3. CASE AtenderSignal(p, x)
  <2>1. lista' = lista
    BY <1>3 DEF AtenderSignal, SignalAceptado, SignalRechazado, DejandoEnExec
  <2> DEFINE h == Leido(Arranca("signal_suma", p, x), "signal_suma", x)
  <2>2. \/ Pasa(Despacho, h)
        \/ Pasa(Despacho, Arranca("plp_exit", p, Nadie))
    BY <1>3 DEF AtenderSignal, SignalAceptado, SignalRechazado
  <2>4. h.pc = "signal_suma" /\ h.tiene = {}
    BY DEF Leido, Arranca, Reposo
  <2> HIDE DEF h
  <2>3. PasoSeguro(Despacho)
    BY <1>1, <2>2, <2>4, ArrancaSeguro, PasaSeguro
  <2> QED
    BY <2>1, <2>3, ListaIgual
<1>4. CASE Actual.t = "IO" /\ AtenderIO(p, x)
  <2> DEFINE op == IF io[x].libre THEN "io_libre" ELSE "io_ocupada"
             a == Arranca("transferir", p, x)
             h == [a EXCEPT !.l = "BLOCKED", !.op = op]
  <2>1. x \in Interfaces
    <3>1. HayMensaje
      BY DEF RecibirInstruccion, Sirve
    <3> QED
      BY <1>4, <3>1, ActualTipo, PedidoTipo
  <2>2. Pasa(Despacho, h)
    BY <1>4 DEF AtenderIO
  <2>3. h.pc = "transferir" /\ h.tiene = {}
    <3>1. a \in Hilo /\ a.pc = "transferir" /\ a.tiene = {}
      BY <1>1, <2>1, ArrancaTipo DEF Pcs
    <3> HIDE DEF a
    <3> QED
      BY <3>1 DEF Hilo
  <2>4. lista'["EXEC"] = Sin(lista["EXEC"], p)
    BY <1>4 DEF Tipos, TypeOK, Colas, AtenderIO
  <2> HIDE DEF h
  <2> QED
    BY <1>1, <2>2, <2>3, <2>4, PasaSeguro, SaleDeExec
<1>5. CASE AtenderInadmisible(p, x)
  <2> DEFINE e == Arranca("plp_exit", p, Nadie)
             b == [Arranca("buscar", p, Nadie) EXCEPT !.op = "finalizar",
                                                      !.l = "NEW"]
  <2>1. e.pc = "plp_exit" /\ e.tiene = {}
    BY ArrancaSeguro
  <2>2. b.pc = "buscar" /\ b.tiene = {}
    BY <1>1, BuscarTipo DEF Ops
  <2>3. (Pasa(Despacho, e) \/ Pasa(Despacho, b)) /\ lista' = lista
    BY <1>5 DEF AtenderInadmisible
  <2> HIDE DEF e, b
  <2> QED
    BY <1>1, <2>1, <2>2, <2>3, PasaSeguro, ListaIgual
<1>6. CASE AtenderDesconocida(x)
  BY <1>1, <1>6, VuelveSeguro, ListaIgual DEF AtenderDesconocida
<1> QED
  BY <1>2, <1>3, <1>4, <1>5, <1>6 DEF RecibirInstruccion

LEMMA RecibirSeguro ==
  ASSUME Tipos, RecibirDelCpu
  PROVE  (\E u \in Hilos : PasoSeguro(u)) /\ ExecNoCrece
<1>1. CASE RecibirAusente
  BY <1>1, NadaPasa DEF RecibirAusente
<1>2. CASE RecibirFinalizado
  BY <1>2, ArrancaSeguro, LanzaSeguro, ListaIgual DEF RecibirFinalizado
<1>3. CASE RecibirInstruccion
  BY <1>3, InstruccionSeguro, DespachoEsHilo
<1>4. CASE RecibirInstruccionNulo
  BY <1>4, NadaPasa DEF RecibirInstruccionNulo, Cae
<1>5. CASE RecibirDesalojo
  <2> DEFINE a == Arranca("motivo", Actual.p, Nadie)
             h == [a EXCEPT !.op = Actual.x]
  <2>1. Actual.p \in Pids
    <3>1. HayMensaje
      BY <1>5 DEF RecibirDesalojo
    <3> QED
      BY <3>1, ActualTipo, PedidoTipo
  <2>2. h.pc = "motivo" /\ h.tiene = {}
    <3>1. a \in Hilo /\ a.pc = "motivo" /\ a.tiene = {}
      BY <2>1, ArrancaTipo DEF Pcs
    <3> HIDE DEF a
    <3> QED
      BY <3>1 DEF Hilo
  <2>3. Pasa(Despacho, h) /\ lista' = lista
    BY <1>5 DEF RecibirDesalojo
  <2> HIDE DEF h
  <2> QED
    BY <2>2, <2>3, PasaSeguro, ListaIgual, DespachoEsHilo
<1>6. CASE RecibirFin
  BY <1>6, ArrancaSeguro, PasaSeguro, ListaIgual, DespachoEsHilo DEF RecibirFin
<1>7. CASE RecibirInadmisibleSinIniciar
  BY <1>7, NadaPasa DEF RecibirInadmisibleSinIniciar, Cae
<1> QED
  BY <1>1, <1>2, <1>3, <1>4, <1>5, <1>6, <1>7 DEF RecibirDelCpu

LEMMA ConsolaSeguro ==
  ASSUME Tipos, Consola
  PROVE  (\E u \in Hilos : PasoSeguro(u)) /\ ExecNoCrece
<1>1. ASSUME NEW p \in Pids, IniciarProceso(p)
      PROVE  (\E u \in Hilos : PasoSeguro(u)) /\ ExecNoCrece
  BY <1>1, ArrancaSeguro, LanzaSeguro, ListaIgual DEF IniciarProceso
<1>2. ASSUME NEW p \in Pids, FinalizarProceso(p)
      PROVE  (\E u \in Hilos : PasoSeguro(u)) /\ ExecNoCrece
  <2> DEFINE b == [Arranca("buscar", p, Nadie) EXCEPT !.op = "finalizar",
                                                      !.l = "NEW"]
  <2>1. b.pc = "buscar" /\ b.tiene = {}
    BY BuscarTipo DEF Ops
  <2>2. Lanza(b) /\ lista' = lista
    BY <1>2 DEF FinalizarProceso
  <2> HIDE DEF b
  <2> QED
    BY <2>1, <2>2, LanzaSeguro, ListaIgual
<1> QED
  BY <1>1, <1>2 DEF Consola

LEMMA CpuSeguro ==
  ASSUME Tipos, CpuEjecuta
  PROVE  (\E u \in Hilos : PasoSeguro(u)) /\ ExecNoCrece
<1>1. UNCHANGED <<lista, hilos>>
  BY DEF CpuEjecuta, CpuRecibe, CpuEmpieza, CpuInterrupcion, CpuPide,
         CpuRespondido, CpuExit, CpuSinMemoria, Desaloja, CpuVeInterrupcion,
         CpuSale
<1> QED
  BY <1>1, NadaPasa

LEMMA InterrupcionesSeguro ==
  ASSUME Tipos, Interrupciones
  PROVE  (\E u \in Hilos : PasoSeguro(u)) /\ ExecNoCrece
<1>1. UNCHANGED <<lista, hilos>>
  BY DEF Interrupciones, VenceQuantum, Interrumpir, InterrumpirNulo, Cae
<1> QED
  BY <1>1, NadaPasa

\* The two steps the property is about: the thread that locks mutex_lista_exec
\* and looks, and the same thread when it fills the list.
LEMMA TomarExecGuarda ==
  ASSUME IInv, Tipos', NEW t \in Hilos, TomarExec(t)
  PROVE  IInv'
<1>1. Tipos /\ lista' = lista
  BY DEF IInv, TomarExec
<1>2. CASE Vuelve(t)
  BY <1>1, <1>2, VuelveSeguro, ListaIgual, PasoSeguroBasta
<1>3. CASE /\ Pasa(t, ReteniendoExec(t))
           /\ Algoritmo # "VRR" => lista["EXEC"] = <<>>
  <2>1. /\ ReteniendoExec(t).pc = "pcp_tomar"
        /\ ReteniendoExec(t).tiene = hilos[t].tiene \union {"EXEC"}
    BY <1>1 DEF Tipos, HilosBien, Hilo, ReteniendoExec
  <2>2. \A u \in Hilos : hilos'[u] = IF u = t THEN ReteniendoExec(t)
                                     ELSE hilos[u]
    BY <1>1, <1>3 DEF Tipos, HilosBien, Pasa
  <2>3. \A u \in Hilos : "EXEC" \notin hilos[u].tiene
    BY DEF TomarExec, Desocupado
  <2>4. \A u, v \in Hilos : u # v => hilos[u].tiene \intersect hilos[v].tiene = {}
    BY DEF IInv, Exclusion
  <2>5. Exclusion'
    <3> SUFFICES ASSUME NEW u \in Hilos, NEW v \in Hilos, u # v
                 PROVE  hilos'[u].tiene \intersect hilos'[v].tiene = {}
      BY DEF Exclusion
    <3> QED
      BY <2>1, <2>2, <2>3, <2>4
  <2>6. TomaConExec'
    <3> SUFFICES ASSUME NEW u \in Hilos, hilos'[u].pc \in Tomando
                 PROVE  /\ "EXEC" \in hilos'[u].tiene
                        /\ Algoritmo # "VRR" => lista'["EXEC"] = <<>>
      BY DEF TomaConExec
    <3>1. CASE u = t
      BY <1>1, <1>3, <2>1, <2>2, <3>1
    <3>2. CASE u # t
      BY <1>1, <2>2, <3>2 DEF IInv, TomaConExec
    <3> QED
      BY <3>1, <3>2
  <2>7. ExecUnico'
    BY <1>1 DEF IInv, ExecUnico
  <2> QED
    BY <2>5, <2>6, <2>7 DEF IInv
<1> QED
  BY <1>2, <1>3 DEF TomarExec

LEMMA TomarReadyGuarda ==
  ASSUME IInv, Tipos', NEW t \in Hilos, TomarReady(t)
  PROVE  IInv'
<1> DEFINE h == [hilos[t] EXCEPT !.pc = "pcp_prioridad",
                                 !.tiene = @ \union {"READY"}]
<1>1. /\ Tipos /\ lista' = lista /\ Algoritmo = "VRR"
      /\ hilos[t].pc = "pcp_tomar"
      /\ \A u \in Hilos : "READY" \notin hilos[u].tiene
  BY DEF IInv, TomarReady, EnPc, Desocupado
<1>2. h.tiene = hilos[t].tiene \union {"READY"}
  BY <1>1 DEF Tipos, HilosBien, Hilo
<1>3. \A u \in Hilos : hilos'[u] = IF u = t THEN h ELSE hilos[u]
  BY <1>1 DEF Tipos, HilosBien, TomarReady, Pasa
<1> HIDE DEF h
<1>4. Exclusion'
  <2> SUFFICES ASSUME NEW u \in Hilos, NEW v \in Hilos, u # v
               PROVE  hilos'[u].tiene \intersect hilos'[v].tiene = {}
    BY DEF Exclusion
  <2>1. \A x, y \in Hilos : x # y => hilos[x].tiene \intersect hilos[y].tiene = {}
    BY DEF IInv, Exclusion
  <2> QED
    BY <1>1, <1>2, <1>3, <2>1
<1>5. TomaConExec'
  <2> SUFFICES ASSUME NEW u \in Hilos, hilos'[u].pc \in Tomando
               PROVE  "EXEC" \in hilos'[u].tiene
    BY <1>1 DEF TomaConExec
  <2>1. "EXEC" \in hilos[t].tiene
    BY <1>1 DEF IInv, TomaConExec
  <2>2. u # t => "EXEC" \in hilos[u].tiene
    BY <1>3 DEF IInv, TomaConExec
  <2> QED
    BY <1>2, <1>3, <2>1, <2>2
<1>6. ExecUnico'
  BY <1>1 DEF IInv, ExecUnico
<1> QED
  BY <1>4, <1>5, <1>6 DEF IInv

LEMMA TomarGuarda ==
  ASSUME IInv, Tipos', NEW t \in Hilos, Tomar(t)
  PROVE  IInv'
<1>1. Tipos /\ Vuelve(t) /\ hilos[t].pc \in Tomando
  BY DEF IInv, Tomar, PuedeTomar, EnPc
<1>2. CASE lista' = lista
  BY <1>1, <1>2, VuelveSeguro, ListaIgual, PasoSeguroBasta
<1>3. CASE ExecLibre /\ lista[Origen] # <<>> /\ Despachar(Origen)
  <2>1. \A u \in Hilos : hilos'[u] = IF u = t THEN Reposo ELSE hilos[u]
    BY <1>1 DEF Tipos, HilosBien, Vuelve, Pasa
  <2>2. \A u, v \in Hilos : u # v => hilos[u].tiene \intersect hilos[v].tiene = {}
    BY DEF IInv, Exclusion
  <2>3. Exclusion'
    <3> SUFFICES ASSUME NEW u \in Hilos, NEW v \in Hilos, u # v
                 PROVE  hilos'[u].tiene \intersect hilos'[v].tiene = {}
      BY DEF Exclusion
    <3> QED
      BY <2>1, <2>2, ReposoSeguro
  <2>4. \A u \in Hilos : hilos'[u].pc \notin Tomando
    <3> SUFFICES ASSUME NEW u \in Hilos, u # t, hilos[u].pc \in Tomando
                 PROVE  FALSE
      BY <2>1, ReposoSeguro
    <3>1. "EXEC" \in hilos[u].tiene /\ "EXEC" \in hilos[t].tiene
      BY <1>1 DEF IInv, TomaConExec
    <3> QED
      BY <2>2, <3>1
  <2>5. TomaConExec'
    BY <2>4 DEF TomaConExec
  <2>6. lista["EXEC"] = <<>>
    BY <1>1, <1>3 DEF IInv, TomaConExec, ExecLibre
  <2>7. ExecUnico'
    <3> DEFINE p == Head(lista[Origen])
    <3>1. Origen \in Colas /\ Origen # "EXEC" /\ "EXEC" \in Colas
      BY DEF Origen, Colas
    <3>2. lista'["EXEC"] = Append(lista["EXEC"], p)
      BY <1>1, <1>3, <3>1 DEF Tipos, TypeOK, Despachar
    <3> HIDE DEF p
    <3>3. Len(lista'["EXEC"]) = 1
      BY <2>6, <3>2
    <3> QED
      BY <3>3 DEF ExecUnico
  <2> QED
    BY <2>3, <2>5, <2>7 DEF IInv
<1> QED
  BY <1>2, <1>3 DEF Tomar

LEMMA InitIInv == ASSUME Init PROVE IInv
<1>1. /\ \A t \in Hilos : hilos[t] = Reposo
      /\ lista["EXEC"] = <<>>
  BY DEF Init, Colas
<1> QED
  BY <1>1, InitTipos, ReposoSeguro DEF IInv, Exclusion, TomaConExec, ExecUnico

LEMMA NextIInv ==
  ASSUME IInv, [Next]_vars
  PROVE  IInv'
<1>1. Tipos /\ Tipos'
  BY NextTipos DEF IInv
<1> DEFINE P == (\E u \in Hilos : PasoSeguro(u)) /\ ExecNoCrece
<1>2. ASSUME P PROVE IInv'
  BY <1>1, <1>2, PasoSeguroBasta
<1>3. CASE UNCHANGED vars
  BY <1>1, <1>2, <1>3, NadaPasa DEF vars
<1>4. CASE Consola
  BY <1>1, <1>2, <1>4, ConsolaSeguro
<1>5. ASSUME NEW t \in Hilos, HilosDelKernel(t) PROVE IInv'
  <2>1. CASE TomarExec(t)
    BY <1>1, <2>1, TomarExecGuarda
  <2>2. CASE Tomar(t)
    BY <1>1, <2>2, TomarGuarda
  <2>3. CASE TomarReady(t)
    BY <1>1, <2>3, TomarReadyGuarda
  <2>4. CASE HiloCortoPlazo(t) /\ ~TomarExec(t) /\ ~TomarReady(t) /\ ~Tomar(t)
    BY <1>1, <1>2, <2>4, CortoPlazoSeguro
  <2> QED
    BY <1>1, <1>2, <1>5, <2>1, <2>2, <2>3, <2>4, LargoPlazoSeguro, RecursosSeguro,
       DespachoSeguro
    DEF HilosDelKernel
<1>6. ASSUME NEW i \in Interfaces, HiloInterfaz(i) PROVE IInv'
  BY <1>1, <1>2, <1>6, InterfazSeguro
<1>7. CASE RecibirDelCpu
  BY <1>1, <1>2, <1>7, RecibirSeguro
<1>8. CASE Interrupciones
  BY <1>1, <1>2, <1>8, InterrupcionesSeguro
<1>9. CASE CpuEjecuta
  BY <1>1, <1>2, <1>9, CpuSeguro
<1>10. CASE Terminado
  BY <1>3, <1>10 DEF Terminado
<1> QED
  BY <1>3, <1>4, <1>5, <1>6, <1>7, <1>8, <1>9, <1>10 DEF Next

LEMMA SpecIInv == Spec => []IInv
  BY InitIInv, NextIInv, PTL DEF Spec

\* At most one process is in lista_execute, whichever of the detached threads
\* replan at once and whatever the algorithm: pcp_planificar_corto_plazo finds
\* the list empty and fills it under one lock of mutex_lista_exec, which no
\* path in between gives up (planificador_corto_plazo.c).
THEOREM KernelExecUnico == Spec => []ExecUnico
<1>1. IInv => ExecUnico
  BY DEF IInv
<1> QED
  BY <1>1, SpecIInv, PTL
=============================================================================
