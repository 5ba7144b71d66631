------------------------------- MODULE Consola -------------------------------
(***************************************************************************)
(* The console of the kernel (consola.c) and what its commands act on: the *)
(* pause of the planners (pausador, in servicios_kernel.c) and the degree  *)
(* of multiprogramming.  Every command runs in a detached thread of its    *)
(* own, started in the order of the script, so two of them interleave.     *)
(* The life of a process is kept to what the pause and the degree govern:  *)
(* admission, dispatch and end.  The module Kernel has the rest of it.     *)
(*                                                                         *)
(* `Casos' names what the commands do not foresee and an instance covers:  *)
(*   "SEGUIDAS"  DETENER_ or INICIAR_PLANIFICACION before the one before   *)
(*               has taken effect                                          *)
(*   "A LA VEZ"  MULTIPROGRAMACION while another is under way              *)
(***************************************************************************)
EXTENDS Integers, Sequences, FiniteSets

CONSTANTS
  Procesos,      \* processes INICIAR_PROCESO may create, each once
  MaxOrdenes,    \* bound: other commands given, each of them a thread
  MaxGrado,      \* bound: largest degree asked for
  GradoInicial,  \* GRADO_MULTIPROGRAMACION of the configuration
  Nadie,
  Casos

ASSUME ConsolaAssumption ==
  /\ MaxOrdenes \in Nat
  /\ MaxGrado \in Nat
  /\ GradoInicial \in 1..MaxGrado
  /\ Nadie \notin Procesos
  /\ Casos \subseteq {"SEGUIDAS", "A LA VEZ"}

VARIABLES
  var_pausa,
  sem_pausa,
  mutex_pausa,      \* thread that holds it, or Nadie
  sem_procesos_en_memoria,
  GRADO_MULTIPROGRAMACION,
  lista_new,
  mutex_lista_new,
  lista_ready,
  lista_execute,    \* the process in the CPU, or Nadie
  terminados,       \* processes in EXIT
  hilos             \* the threads

pausaVars == <<var_pausa, sem_pausa, mutex_pausa>>
planVars == <<lista_new, mutex_lista_new, lista_ready, lista_execute,
              terminados>>
gradoVars == <<sem_procesos_en_memoria, GRADO_MULTIPROGRAMACION>>
vars == <<pausaVars, planVars, gradoVars, hilos>>

-----------------------------------------------------------------------------
(* Types *)

Ordenes == {<<"orden", k>> : k \in 1..MaxOrdenes}
Despachador == <<"dispatch", 0>>
HilosDeProcesos == {<<"proceso", p>> : p \in Procesos}
Hilos == HilosDeProcesos \union Ordenes \union {Despachador}

ASSUME NadieNoEsHilo == Nadie \notin Hilos

Pcs == {"sin empezar", "fin",
        "detener", "pausar", "iniciar", "reanudar", "avisar",
        "leer grado", "ajustar",
        "nuevo", "plp", "plp_cupo", "pcp",
        "pausador", "esperar"}

\* luego: where it goes on after pausador; n, faltan: of MULTIPROGRAMACION
Hilo(pc) == [pc |-> pc, luego |-> "fin", n |-> 0, faltan |-> 0]

ConsolaTypeOK ==
  /\ var_pausa \in {0, 1}
  /\ sem_pausa \in Nat
  /\ mutex_pausa \in Hilos \union {Nadie}
  /\ sem_procesos_en_memoria \in Nat
  /\ GRADO_MULTIPROGRAMACION \in 1..MaxGrado
  /\ lista_new \in Seq(Procesos)
  /\ mutex_lista_new \in Hilos \union {Nadie}
  /\ lista_ready \in Seq(Procesos)
  /\ lista_execute \in Procesos \union {Nadie}
  /\ terminados \subseteq Procesos
  /\ hilos \in [Hilos -> [pc: Pcs, luego: Pcs, n: 0..MaxGrado,
                          faltan: (-MaxGrado)..MaxGrado]]

Init ==
  /\ var_pausa = 0
  /\ sem_pausa = 0
  /\ mutex_pausa = Nadie
  /\ sem_procesos_en_memoria = GradoInicial
  /\ GRADO_MULTIPROGRAMACION = GradoInicial
  /\ lista_new = <<>>
  /\ mutex_lista_new = Nadie
  /\ lista_ready = <<>>
  /\ lista_execute = Nadie
  /\ terminados = {}
  /\ hilos = [t \in Hilos |-> Hilo("sin empezar")]

-----------------------------------------------------------------------------
(* Helpers *)

En(t, pc) == hilos[t].pc = pc
Pasa(t, pc) == hilos' = [hilos EXCEPT ![t].pc = pc]
LlamaPausador(t, luego) ==
  hilos' = [hilos EXCEPT ![t].pc = "pausador", ![t].luego = luego]

DePausa == {t \in Ordenes : hilos[t].pc \notin {"sin empezar", "fin",
                                                "leer grado", "ajustar"}}

\* Every pause and resumption ordered so far is in force.
PausaAsentada ==
  /\ sem_pausa = 0
  /\ \A t \in DePausa : \/ En(t, "esperar")
                        \/ En(t, "pausador") /\ mutex_pausa # Nadie

CambiosEnCurso ==
  {t \in Ordenes : hilos[t].pc \in {"leer grado", "ajustar"}}

-----------------------------------------------------------------------------
(* _atender_instruccion_validada *)

IniciarProceso(p) ==
  /\ En(<<"proceso", p>>, "sin empezar")
  /\ Pasa(<<"proceso", p>>, "nuevo")
  /\ UNCHANGED <<pausaVars, planVars, gradoVars>>

EsLaProxima(t) ==
  /\ En(t, "sin empezar")
  /\ \A u \in Ordenes : u[2] < t[2] => ~En(u, "sin empezar")

\* DETENER_PLANIFICACION and INICIAR_PLANIFICACION
OrdenarPausa(t, pc) ==
  /\ EsLaProxima(t)
  /\ "SEGUIDAS" \in Casos \/ PausaAsentada
  /\ Pasa(t, pc)
  /\ UNCHANGED <<pausaVars, planVars, gradoVars>>

OrdenarGrado(t, n) ==
  /\ EsLaProxima(t)
  /\ "A LA VEZ" \in Casos \/ CambiosEnCurso = {}
  /\ hilos' = [hilos EXCEPT ![t].pc = "leer grado", ![t].n = n]
  /\ UNCHANGED <<pausaVars, planVars, gradoVars>>

-----------------------------------------------------------------------------
(* pausador *)

AlReves == var_pausa = 0  \* mutant
Pausado == var_pausa = 1

PasarPausador(t) ==
  /\ En(t, "pausador")
  /\ mutex_pausa = Nadie
  /\ ~Pausado
  /\ Pasa(t, hilos[t].luego)
  /\ UNCHANGED <<pausaVars, planVars, gradoVars>>

\* The thread waits with mutex_pausa: those that come later wait for it.
Detenerse(t) ==
  /\ En(t, "pausador")
  /\ mutex_pausa = Nadie
  /\ Pausado
  /\ mutex_pausa' = t
  /\ Pasa(t, "esperar")
  /\ UNCHANGED <<var_pausa, sem_pausa, planVars, gradoVars>>

Despertar(t) ==
  /\ En(t, "esperar")
  /\ sem_pausa > 0
  /\ sem_pausa' = sem_pausa - 1
  /\ mutex_pausa' = Nadie
  /\ Pasa(t, hilos[t].luego)
  /\ UNCHANGED <<var_pausa, planVars, gradoVars>>

-----------------------------------------------------------------------------
(* _pausar_planificadores and _iniciar_planificadores: neither reads and    *)
(* writes var_pausa under a mutex                                          *)

Detener(t) ==
  /\ En(t, "detener")
  /\ Pasa(t, IF var_pausa = 1 THEN "fin" ELSE "pausar")
  /\ UNCHANGED <<pausaVars, planVars, gradoVars>>

Pausar(t) ==
  /\ En(t, "pausar")
  /\ var_pausa' = 1
  /\ LlamaPausador(t, "fin")
  /\ UNCHANGED <<sem_pausa, mutex_pausa, planVars, gradoVars>>

SegunPausa == IF var_pausa = 0 THEN "fin" ELSE "reanudar"

Iniciar(t) ==
  /\ En(t, "iniciar")
  /\ Pasa(t, SegunPausa)
  /\ UNCHANGED <<pausaVars, planVars, gradoVars>>

Reanudar(t) ==
  /\ En(t, "reanudar")
  /\ var_pausa' = 0
  /\ Pasa(t, "avisar")
  /\ UNCHANGED <<sem_pausa, mutex_pausa, planVars, gradoVars>>

SinAvisar == sem_pausa' = sem_pausa  \* mutant: nobody is woken
PostPausa == sem_pausa' = sem_pausa + 1

Avisar(t) ==
  /\ En(t, "avisar")
  /\ PostPausa
  /\ Pasa(t, "fin")
  /\ UNCHANGED <<var_pausa, mutex_pausa, planVars, gradoVars>>

-----------------------------------------------------------------------------
(* _cambiar_grado_de_multiprogramacion *)

GradoValido(n) == n >= 1

\* The difference is taken once, from the degree as it is now.
LeerGrado(t) ==
  /\ En(t, "leer grado")
  /\ hilos' =
       IF ~GradoValido(hilos[t].n) THEN [hilos EXCEPT ![t].pc = "fin"]
       ELSE [hilos EXCEPT
               ![t].pc = "ajustar",
               ![t].faltan = hilos[t].n - GRADO_MULTIPROGRAMACION]
  /\ UNCHANGED <<pausaVars, planVars, gradoVars>>

UnCupo(t, mas) ==
  /\ sem_procesos_en_memoria' = sem_procesos_en_memoria + mas
  /\ hilos' = [hilos EXCEPT ![t].faltan = @ - mas]
  /\ UNCHANGED <<pausaVars, planVars, GRADO_MULTIPROGRAMACION>>

PonerCupo(t) == En(t, "ajustar") /\ hilos[t].faltan > 0 /\ UnCupo(t, 1)

SacarCupo(t) ==
  /\ En(t, "ajustar")
  /\ hilos[t].faltan < 0
  /\ sem_procesos_en_memoria > 0
  /\ UnCupo(t, -1)

AntesDeTiempo(t) == hilos[t].faltan <= 0  \* mutant: it does not take any back
GradoAjustado(t) == hilos[t].faltan = 0

FijarGrado(t) ==
  /\ En(t, "ajustar")
  /\ GradoAjustado(t)
  /\ GRADO_MULTIPROGRAMACION' = hilos[t].n
  /\ Pasa(t, "fin")
  /\ UNCHANGED <<pausaVars, planVars, sem_procesos_en_memoria>>

-----------------------------------------------------------------------------
(* Processes *)

\* plp_planificar_proceso_nuevo up to pausador
Nuevo(p) ==
  LET t == <<"proceso", p>> IN
  /\ En(t, "nuevo")
  /\ mutex_lista_new = Nadie
  /\ lista_new' = Append(lista_new, p)
  /\ LlamaPausador(t, "plp")
  /\ UNCHANGED <<pausaVars, mutex_lista_new, lista_ready, lista_execute,
                 terminados, gradoVars>>

\* plp_planifica waits for a slot with mutex_lista_new.
TomarNew(t) ==
  /\ En(t, "plp")
  /\ mutex_lista_new = Nadie
  /\ mutex_lista_new' = t
  /\ Pasa(t, "plp_cupo")
  /\ UNCHANGED <<pausaVars, lista_new, lista_ready, lista_execute, terminados,
                 gradoVars>>

\* Slot, memory's answer, READY, and the thread of pcp_planificar_corto_plazo
Admitir(t) ==
  /\ En(t, "plp_cupo")
  /\ sem_procesos_en_memoria > 0
  /\ sem_procesos_en_memoria' = sem_procesos_en_memoria - 1
  /\ lista_new' = Tail(lista_new)
  /\ lista_ready' = Append(lista_ready, Head(lista_new))
  /\ mutex_lista_new' = Nadie
  /\ LlamaPausador(t, "pcp")
  /\ UNCHANGED <<pausaVars, lista_execute, terminados, GRADO_MULTIPROGRAMACION>>

\* pcp_planificar_corto_plazo once past its pausador (_atender_RR_FIFO)
Planificar(t) ==
  /\ En(t, "pcp")
  /\ Pasa(t, IF t = Despachador THEN "sin empezar" ELSE "fin")
  /\ IF lista_execute = Nadie /\ lista_ready # <<>>
     THEN /\ lista_execute' = Head(lista_ready)
          /\ lista_ready' = Tail(lista_ready)
     ELSE UNCHANGED <<lista_execute, lista_ready>>
  /\ UNCHANGED <<pausaVars, lista_new, mutex_lista_new, terminados, gradoVars>>

\* plp_exit, when the CPU returns the process (external): the slot goes back,
\* and the same thread plans the next one.
Salir ==
  /\ En(Despachador, "sin empezar")
  /\ lista_execute # Nadie
  /\ lista_execute' = Nadie
  /\ terminados' = terminados \union {lista_execute}
  /\ sem_procesos_en_memoria' = sem_procesos_en_memoria + 1
  /\ LlamaPausador(Despachador, "pcp")
  /\ UNCHANGED <<pausaVars, lista_new, mutex_lista_new, lista_ready,
                 GRADO_MULTIPROGRAMACION>>

-----------------------------------------------------------------------------
Ordenar ==
  \/ \E p \in Procesos : IniciarProceso(p)
  \/ \E t \in Ordenes :
       \/ \E pc \in {"detener", "iniciar"} : OrdenarPausa(t, pc)
       \/ \E n \in 0..MaxGrado : OrdenarGrado(t, n)

\* What thread t does next
Avanza(t) ==
  \/ PasarPausador(t) \/ Detenerse(t) \/ Despertar(t)
  \/ Detener(t) \/ Pausar(t) \/ Iniciar(t) \/ Reanudar(t) \/ Avisar(t)
  \/ LeerGrado(t) \/ PonerCupo(t) \/ SacarCupo(t) \/ FijarGrado(t)
  \/ TomarNew(t) \/ Admitir(t) \/ Planificar(t)

AvanzaProceso(p) == Nuevo(p) \/ Avanza(<<"proceso", p>>)
AvanzaDespachador == Salir \/ Avanza(Despachador)

Next ==
  \/ Ordenar
  \/ \E p \in Procesos : AvanzaProceso(p)
  \/ \E t \in Ordenes : Avanza(t)
  \/ AvanzaDespachador

\* Threads that can go on do, and programs end.  No command has to be given.
Spec ==
  /\ Init /\ [][Next]_vars
  /\ \A p \in Procesos : WF_vars(AvanzaProceso(p))
  /\ \A t \in Ordenes : WF_vars(Avanza(t))
  /\ WF_vars(AvanzaDespachador)

-----------------------------------------------------------------------------
(* Properties *)

EnMemoria ==
  {p \in Procesos : \/ p = lista_execute
                    \/ \E i \in DOMAIN lista_ready : lista_ready[i] = p}

\* No thread gets by pausador while the planners are paused, neither the one
\* that found the mutex free nor those queued behind it.
NadiePasaEnPausa ==
  [][\A t \in Hilos :
       hilos[t].pc \in {"pausador", "esperar"}
         /\ hilos'[t].pc \notin {"pausador", "esperar"} => var_pausa = 0]_vars

\* A token of sem_pausa is always for a thread that waits for it: one left
\* over, by an INICIAR_PLANIFICACION with nothing to resume, would let the
\* next thread through the next pause.
SinFichasDeMas ==
  sem_pausa > 0 => sem_pausa = 1 /\ \E t \in Hilos : En(t, "esperar")

\* Slots and processes in memory add up to the degree, at any point of a change
\* of degree that competes with admissions and ends for the same semaphore.
CuposExactos ==
  LET Hecho(t) == hilos[t].n - hilos[t].faltan - GRADO_MULTIPROGRAMACION
      ajustan == {t \in Ordenes : En(t, "ajustar")} IN
  Cardinality(ajustan) <= 1 =>
    sem_procesos_en_memoria + Cardinality(EnMemoria) =
      GRADO_MULTIPROGRAMACION
        + IF ajustan = {} THEN 0 ELSE Hecho(CHOOSE t \in ajustan : TRUE)

\* Unless the planners end up paused, every process started is admitted, is
\* executed and ends, and every change of degree is made: no wake-up is lost
\* to a pause that was lifted, no slot to a degree that went down and up.
TodosTerminan ==
  <>[](var_pausa = 0) =>
    /\ \A p \in Procesos :
         ~En(<<"proceso", p>>, "sin empezar") ~> p \in terminados
    /\ \A t \in Ordenes : ~En(t, "sin empezar") ~> En(t, "fin")
==============================================================================
