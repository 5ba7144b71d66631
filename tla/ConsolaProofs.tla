---------------------------- MODULE ConsolaProofs ----------------------------
(***************************************************************************)
(* What the pause of the planners and the degree of multiprogramming keep, *)
(* however the threads of the commands interleave with those of the        *)
(* processes.  Proved for any number of processes, commands and degrees.   *)
(***************************************************************************)
EXTENDS Consola, FiniteSetTheorems, SequenceTheorems, TLAPS

-----------------------------------------------------------------------------
(* The inductive invariant *)

HTipo == [Hilos -> [pc: Pcs, luego: Pcs, n: 0..MaxGrado,
                    faltan: (-MaxGrado)..MaxGrado]]

\* Where the thread of a command, of a process and of dispatch may be
DeOrden(h) ==
  /\ h.pc \in {"sin empezar", "fin", "detener", "pausar", "iniciar", "reanudar",
               "avisar", "leer grado", "ajustar", "pausador", "esperar"}
  /\ h.luego = "fin"
  /\ h.pc = "ajustar" => h.n >= 1

DeProceso(h) ==
  /\ h.pc \in {"sin empezar", "nuevo", "pausador", "esperar", "plp", "plp_cupo",
               "pcp", "fin"}
  /\ h.pc \in {"pausador", "esperar"} => h.luego \in {"plp", "pcp"}

DeDespacho(h) ==
  /\ h.pc \in {"sin empezar", "pausador", "esperar", "pcp"}
  /\ h.pc \in {"pausador", "esperar"} => h.luego = "pcp"

Clases ==
  /\ \A t \in Ordenes : DeOrden(hilos[t])
  /\ \A t \in HilosDeProcesos : DeProceso(hilos[t])
  /\ DeDespacho(hilos[Despachador])

\* Threads that have put a process in NEW and not taken one from there yet
Aguarda(h) ==
  \/ h.pc \in {"plp", "plp_cupo"}
  \/ h.pc \in {"pausador", "esperar"} /\ h.luego = "plp"

Aguardan == {t \in HilosDeProcesos : Aguarda(hilos[t])}

\* There is a process in NEW for each of them.
UnoPorHilo ==
  /\ IsFiniteSet(Aguardan)
  /\ Len(lista_new) = Cardinality(Aguardan)

\* A process is in one place, and in none before it is put in NEW.
Repartidos ==
  /\ \A i, j \in DOMAIN lista_new : lista_new[i] = lista_new[j] => i = j
  /\ \A i, j \in DOMAIN lista_ready : lista_ready[i] = lista_ready[j] => i = j
  /\ \A i \in DOMAIN lista_new : lista_new[i] \notin EnMemoria
  /\ \A i \in DOMAIN lista_ready : lista_ready[i] # lista_execute
  /\ \A p \in Procesos :
       p \in EnMemoria \/ (\E i \in DOMAIN lista_new : lista_new[i] = p)
         => hilos[<<"proceso", p>>].pc \notin {"sin empezar", "nuevo"}

IInv == ConsolaTypeOK /\ Clases /\ UnoPorHilo /\ Repartidos

\* Slots free and processes in memory
Ocupados == sem_procesos_en_memoria + Cardinality(EnMemoria)

\* One change of degree at a time, and the slots it has moved so far
AlDia ==
  /\ IsFiniteSet(EnMemoria)
  /\ \A t, u \in CambiosEnCurso : t = u
  /\ \A t \in Ordenes : En(t, "ajustar") => Ocupados = hilos[t].n - hilos[t].faltan
  /\ (\A t \in Ordenes : ~En(t, "ajustar")) => Ocupados = GRADO_MULTIPROGRAMACION

\* Commands of pause still to take effect, not counting the wait in pausador
Activos ==
  {t \in Ordenes : hilos[t].pc \in {"detener", "pausar", "iniciar", "reanudar", "avisar"}}

\* A token is posted with the planners resumed and no other command under way,
\* for the thread that holds mutex_pausa.
Turno ==
  /\ \A t, u \in Activos : t = u
  /\ \A t \in Hilos : En(t, "esperar") <=> mutex_pausa = t
  /\ sem_pausa > 0 => /\ sem_pausa = 1 /\ var_pausa = 0 /\ Activos = {}
                      /\ mutex_pausa # Nadie
  /\ \A t \in Ordenes : En(t, "reanudar") => var_pausa = 1 /\ mutex_pausa # Nadie
  /\ \A t \in Ordenes : En(t, "avisar") => var_pausa = 0 /\ mutex_pausa # Nadie
  /\ \A t \in Ordenes : En(t, "iniciar") /\ var_pausa = 1 => mutex_pausa # Nadie
  /\ var_pausa = 1 =>
       mutex_pausa # Nadie \/ \E t \in Ordenes : En(t, "pausador")

-----------------------------------------------------------------------------
(* How a step changes the threads *)

\* Thread t is left so, and the others as they were.
Queda(t, pc, luego, n, faltan) ==
  /\ hilos' \in HTipo
  /\ hilos'[t].pc = pc /\ hilos'[t].luego = luego
  /\ hilos'[t].n = n /\ hilos'[t].faltan = faltan
  /\ \A u \in Hilos \ {t} : hilos'[u] = hilos[u]

LEMMA Constantes ==
  /\ MaxOrdenes \in Nat /\ MaxGrado \in Nat
  /\ GradoInicial \in 1..MaxGrado
  /\ Nadie \notin Procesos /\ Nadie \notin Hilos
BY ConsolaAssumption, NadieNoEsHilo

LEMMA HiloTipo ==
  ASSUME ConsolaTypeOK, NEW t \in Hilos
  PROVE  /\ hilos \in HTipo
         /\ hilos[t].pc \in Pcs /\ hilos[t].luego \in Pcs
         /\ hilos[t].n \in 0..MaxGrado
         /\ hilos[t].faltan \in (-MaxGrado)..MaxGrado
         /\ hilos[t] = [pc |-> hilos[t].pc, luego |-> hilos[t].luego,
                        n |-> hilos[t].n, faltan |-> hilos[t].faltan]
BY DEF ConsolaTypeOK, HTipo

\* Whatever the fields changed, it is enough to know the record that results.
LEMMA AlCambiar ==
  ASSUME ConsolaTypeOK, NEW t \in Hilos,
         NEW pc \in Pcs, NEW luego \in Pcs, NEW n \in 0..MaxGrado,
         NEW faltan \in (-MaxGrado)..MaxGrado,
         hilos' = [hilos EXCEPT ![t] = [pc |-> pc, luego |-> luego, n |-> n,
                                        faltan |-> faltan]]
  PROVE  Queda(t, pc, luego, n, faltan)
<1> DEFINE h == [pc |-> pc, luego |-> luego, n |-> n, faltan |-> faltan]
<1>1. h \in [pc: Pcs, luego: Pcs, n: 0..MaxGrado, faltan: (-MaxGrado)..MaxGrado]
  OBVIOUS
<1>2. h.pc = pc /\ h.luego = luego /\ h.n = n /\ h.faltan = faltan
  OBVIOUS
<1>3. hilos' = [hilos EXCEPT ![t] = h]
  OBVIOUS
<1> HIDE DEF h
<1>4. hilos' \in HTipo /\ hilos'[t] = h /\ \A u \in Hilos \ {t} : hilos'[u] = hilos[u]
  BY <1>1, <1>3, HiloTipo DEF HTipo
<1> QED  BY <1>2, <1>4 DEF Queda

LEMMA AlPasar ==
  ASSUME ConsolaTypeOK, NEW t \in Hilos, NEW pc \in Pcs, Pasa(t, pc)
  PROVE  Queda(t, pc, hilos[t].luego, hilos[t].n, hilos[t].faltan)
<1> PICK luego, n, faltan : luego = hilos[t].luego /\ n = hilos[t].n
                            /\ faltan = hilos[t].faltan
  OBVIOUS
<1> DEFINE h == [pc |-> pc, luego |-> luego, n |-> n, faltan |-> faltan]
<1>1. luego \in Pcs /\ n \in 0..MaxGrado /\ faltan \in (-MaxGrado)..MaxGrado
  BY HiloTipo
<1>2. hilos' = [hilos EXCEPT ![t] = [hilos[t] EXCEPT !.pc = pc]]
  BY DEF Pasa
<1>3. [hilos[t] EXCEPT !.pc = pc] = h
  <2> PICK r : r = hilos[t]
    OBVIOUS
  <2>1. r \in [pc: Pcs, luego: Pcs, n: 0..MaxGrado, faltan: (-MaxGrado)..MaxGrado]
    BY DEF ConsolaTypeOK
  <2>2. [r EXCEPT !.pc = pc] = [pc |-> pc, luego |-> r.luego, n |-> r.n, faltan |-> r.faltan]
    BY ONLY <2>1
  <2> QED  BY <2>2
<1>4. hilos' = [hilos EXCEPT ![t] = h]
  BY <1>2, <1>3
<1>5. Queda(t, pc, luego, n, faltan)
  BY <1>1, <1>4, AlCambiar
<1> QED  BY <1>5

LEMMA AlLlamar ==
  ASSUME ConsolaTypeOK, NEW t \in Hilos, NEW luego \in Pcs, LlamaPausador(t, luego)
  PROVE  Queda(t, "pausador", luego, hilos[t].n, hilos[t].faltan)
<1> PICK n, faltan : n = hilos[t].n /\ faltan = hilos[t].faltan
  OBVIOUS
<1> DEFINE h == [pc |-> "pausador", luego |-> luego, n |-> n, faltan |-> faltan]
<1>1. n \in 0..MaxGrado /\ faltan \in (-MaxGrado)..MaxGrado /\ "pausador" \in Pcs
  BY HiloTipo DEF Pcs
<1>2. hilos' = [hilos EXCEPT ![t] = [[hilos[t] EXCEPT !.pc = "pausador"] EXCEPT !.luego = luego]]
  BY HiloTipo DEF LlamaPausador, HTipo
<1>3. [[hilos[t] EXCEPT !.pc = "pausador"] EXCEPT !.luego = luego] = h
  <2> PICK r : r = hilos[t]
    OBVIOUS
  <2>1. r \in [pc: Pcs, luego: Pcs, n: 0..MaxGrado, faltan: (-MaxGrado)..MaxGrado]
    BY DEF ConsolaTypeOK
  <2>2. [[r EXCEPT !.pc = "pausador"] EXCEPT !.luego = luego]
          = [pc |-> "pausador", luego |-> luego, n |-> r.n, faltan |-> r.faltan]
    <3> PICK s : s = [r EXCEPT !.pc = "pausador"]
      OBVIOUS
    <3>1. s = [pc |-> "pausador", luego |-> r.luego, n |-> r.n, faltan |-> r.faltan]
      BY ONLY <2>1, s = [r EXCEPT !.pc = "pausador"]
    <3>2. [s EXCEPT !.luego = luego]
            = [pc |-> "pausador", luego |-> luego, n |-> r.n, faltan |-> r.faltan]
      BY ONLY <3>1
    <3> QED  BY <3>2
  <2> QED  BY <2>2
<1>4. hilos' = [hilos EXCEPT ![t] = h]
  BY <1>2, <1>3
<1>5. Queda(t, "pausador", luego, n, faltan)
  BY <1>1, <1>4, AlCambiar
<1> QED  BY <1>5

\* The three kinds of threads
LEMMA Clase ==
  /\ \A t \in Ordenes : t \in Hilos /\ t \notin HilosDeProcesos /\ t # Despachador
  /\ \A t \in HilosDeProcesos : t \in Hilos /\ t \notin Ordenes /\ t # Despachador
  /\ Despachador \in Hilos /\ Despachador \notin Ordenes /\ Despachador \notin HilosDeProcesos
  /\ \A t \in Hilos : t \in Ordenes \/ t \in HilosDeProcesos \/ t = Despachador
BY DEF Hilos, Ordenes, HilosDeProcesos, Despachador

\* Only thread t moves, to a place of its kind.
Mueve(t) ==
  /\ hilos' \in HTipo
  /\ \A u \in Hilos \ {t} : hilos'[u] = hilos[u]
  /\ t \in Ordenes => DeOrden(hilos'[t])
  /\ t \in HilosDeProcesos => DeProceso(hilos'[t])
  /\ t = Despachador => DeDespacho(hilos'[t])

LEMMA MueveClases ==
  ASSUME Clases, NEW t \in Hilos, Mueve(t)
  PROVE  Clases'
BY Clase DEF Clases, Mueve

\* ... and takes no process from NEW nor puts one there.
LEMMA SoloHilos ==
  ASSUME IInv, NEW t \in Hilos, Mueve(t),
         UNCHANGED <<lista_new, lista_ready, lista_execute>>,
         ConsolaTypeOK',
         t \in HilosDeProcesos =>
           /\ Aguarda(hilos'[t]) <=> Aguarda(hilos[t])
           /\ hilos'[t].pc \in {"sin empezar", "nuevo"} =>
                hilos[t].pc \in {"sin empezar", "nuevo"}
  PROVE  IInv' /\ EnMemoria' = EnMemoria
<1>1. Clases'
  BY MueveClases DEF IInv
<1>2. Aguardan' = Aguardan
  <2>1. \A u \in HilosDeProcesos : Aguarda(hilos'[u]) <=> Aguarda(hilos[u])
    BY Clase DEF Mueve
  <2> QED  BY <2>1 DEF Aguardan
<1>3. UnoPorHilo'
  BY <1>2 DEF IInv, UnoPorHilo
<1>4. EnMemoria' = EnMemoria
  BY DEF EnMemoria
<1>5. Repartidos'
  <2>1. \A p \in Procesos : hilos'[<<"proceso", p>>].pc \in {"sin empezar", "nuevo"} =>
                              hilos[<<"proceso", p>>].pc \in {"sin empezar", "nuevo"}
    <3> SUFFICES ASSUME NEW p \in Procesos, NEW u, u = <<"proceso", p>>
                 PROVE  hilos'[u].pc \in {"sin empezar", "nuevo"} =>
                          hilos[u].pc \in {"sin empezar", "nuevo"}
      OBVIOUS
    <3>1. u \in HilosDeProcesos
      BY DEF HilosDeProcesos
    <3> QED  BY <3>1, Clase DEF Mueve
  <2> QED  BY <1>4, <2>1 DEF IInv, Repartidos
<1> QED  BY <1>1, <1>3, <1>4, <1>5 DEF IInv

-----------------------------------------------------------------------------
(* Steps that move one thread *)

\* Where thread t may be
LEMMA ClaseDe ==
  ASSUME IInv, NEW t \in Hilos
  PROVE  /\ ConsolaTypeOK
         /\ t \in Ordenes => DeOrden(hilos[t])
         /\ t \in HilosDeProcesos => DeProceso(hilos[t])
         /\ t = Despachador => DeDespacho(hilos[t])
BY DEF IInv, Clases

LEMMA PasoPasarPausador ==
  ASSUME IInv, NEW t \in Hilos, PasarPausador(t)
  PROVE  IInv' /\ EnMemoria' = EnMemoria
         /\ Queda(t, hilos[t].luego, hilos[t].luego, hilos[t].n, hilos[t].faltan)
<1> PICK luego : luego = hilos[t].luego
  OBVIOUS
<1>1. hilos[t].pc = "pausador" /\ Pasa(t, luego) /\ UNCHANGED <<pausaVars, planVars, gradoVars>>
  BY DEF PasarPausador, En
<1>2. Queda(t, luego, luego, hilos[t].n, hilos[t].faltan)
  BY <1>1, ClaseDe, HiloTipo, AlPasar
<1>3. Mueve(t)
  BY <1>1, <1>2, ClaseDe DEF Mueve, Queda, DeOrden, DeProceso, DeDespacho
<1>4. ConsolaTypeOK'
  BY <1>1, <1>2, ClaseDe DEF ConsolaTypeOK, Queda, HTipo, pausaVars, planVars, gradoVars
<1>5. t \in HilosDeProcesos => /\ Aguarda(hilos'[t]) <=> Aguarda(hilos[t])
                               /\ hilos'[t].pc \notin {"sin empezar", "nuevo"}
  BY <1>1, <1>2, ClaseDe DEF Queda, DeProceso, Aguarda
<1> QED  BY <1>1, <1>2, <1>3, <1>4, <1>5, SoloHilos DEF planVars

LEMMA PasoDetenerse ==
  ASSUME IInv, NEW t \in Hilos, Detenerse(t)
  PROVE  IInv' /\ EnMemoria' = EnMemoria
         /\ Queda(t, "esperar", hilos[t].luego, hilos[t].n, hilos[t].faltan)
<1>1. /\ hilos[t].pc = "pausador" /\ Pasa(t, "esperar") /\ mutex_pausa' = t
      /\ UNCHANGED <<var_pausa, sem_pausa, planVars, gradoVars>> /\ "esperar" \in Pcs
  BY DEF Detenerse, En, Pcs
<1>2. Queda(t, "esperar", hilos[t].luego, hilos[t].n, hilos[t].faltan)
  BY <1>1, ClaseDe, AlPasar
<1>3. Mueve(t)
  BY <1>1, <1>2, ClaseDe DEF Mueve, Queda, DeOrden, DeProceso, DeDespacho
<1>4. ConsolaTypeOK'
  BY <1>1, <1>2, ClaseDe DEF ConsolaTypeOK, Queda, HTipo, planVars, gradoVars
<1>5. t \in HilosDeProcesos => /\ Aguarda(hilos'[t]) <=> Aguarda(hilos[t])
                               /\ hilos'[t].pc \notin {"sin empezar", "nuevo"}
  BY <1>1, <1>2, ClaseDe DEF Queda, DeProceso, Aguarda
<1> QED  BY <1>1, <1>2, <1>3, <1>4, <1>5, SoloHilos DEF planVars

LEMMA PasoDespertar ==
  ASSUME IInv, NEW t \in Hilos, Despertar(t)
  PROVE  IInv' /\ EnMemoria' = EnMemoria
         /\ Queda(t, hilos[t].luego, hilos[t].luego, hilos[t].n, hilos[t].faltan)
<1> PICK luego : luego = hilos[t].luego
  OBVIOUS
<1>1. /\ hilos[t].pc = "esperar" /\ Pasa(t, luego) /\ mutex_pausa' = Nadie
      /\ sem_pausa > 0 /\ sem_pausa' = sem_pausa - 1
      /\ UNCHANGED <<var_pausa, planVars, gradoVars>>
  BY DEF Despertar, En
<1>2. Queda(t, luego, luego, hilos[t].n, hilos[t].faltan)
  BY <1>1, ClaseDe, HiloTipo, AlPasar
<1>3. Mueve(t)
  BY <1>1, <1>2, ClaseDe DEF Mueve, Queda, DeOrden, DeProceso, DeDespacho
<1>4. ConsolaTypeOK'
  BY <1>1, <1>2, ClaseDe DEF ConsolaTypeOK, Queda, HTipo, planVars, gradoVars
<1>5. t \in HilosDeProcesos => /\ Aguarda(hilos'[t]) <=> Aguarda(hilos[t])
                               /\ hilos'[t].pc \notin {"sin empezar", "nuevo"}
  BY <1>1, <1>2, ClaseDe DEF Queda, DeProceso, Aguarda
<1> QED  BY <1>1, <1>2, <1>3, <1>4, <1>5, SoloHilos DEF planVars

\* The thread of a command goes on.
LEMMA OrdenSigue ==
  ASSUME IInv, NEW t \in Ordenes, NEW pc, NEW n, NEW faltan,
         Queda(t, pc, hilos[t].luego, n, faltan),
         pc \in {"fin", "detener", "pausar", "iniciar", "reanudar", "avisar", "pausador",
                 "leer grado", "ajustar"},
         pc = "ajustar" => n >= 1,
         UNCHANGED <<lista_new, lista_ready, lista_execute>>, ConsolaTypeOK'
  PROVE  IInv' /\ EnMemoria' = EnMemoria
<1>1. t \in Hilos /\ t \notin HilosDeProcesos /\ t # Despachador /\ DeOrden(hilos[t])
  BY Clase DEF IInv, Clases
<1>2. Mueve(t)
  BY <1>1 DEF Mueve, Queda, DeOrden
<1> QED  BY <1>1, <1>2, SoloHilos

\* Steps only the thread of a command takes
LEMMA DeUnaOrden ==
  ASSUME IInv, NEW t \in Hilos,
         hilos[t].pc \in {"detener", "pausar", "iniciar", "reanudar", "avisar",
                          "leer grado", "ajustar"}
  PROVE  t \in Ordenes /\ hilos[t].luego = "fin" /\ "fin" \in Pcs
<1>1. t \notin HilosDeProcesos /\ t # Despachador
  BY ClaseDe DEF DeProceso, DeDespacho
<1> QED  BY <1>1, Clase, ClaseDe DEF DeOrden, Pcs

LEMMA PasoDetener ==
  ASSUME IInv, NEW t \in Hilos, Detener(t)
  PROVE  IInv' /\ EnMemoria' = EnMemoria /\ t \in Ordenes
         /\ Queda(t, IF var_pausa = 1 THEN "fin" ELSE "pausar", hilos[t].luego,
                  hilos[t].n, hilos[t].faltan)
<1> PICK pc : pc = IF var_pausa = 1 THEN "fin" ELSE "pausar"
  OBVIOUS
<1>1. /\ hilos[t].pc = "detener" /\ Pasa(t, pc)
      /\ UNCHANGED <<pausaVars, planVars, gradoVars>>
  BY DEF Detener, En
<1>2. t \in Ordenes /\ pc \in Pcs /\ pc \in {"fin", "pausar", "reanudar", "avisar"}
  BY <1>1, DeUnaOrden DEF Pcs
<1>3. Queda(t, pc, hilos[t].luego, hilos[t].n, hilos[t].faltan)
  BY <1>1, <1>2, ClaseDe, AlPasar
<1>4. ConsolaTypeOK'
  BY <1>1, <1>3, ClaseDe DEF ConsolaTypeOK, Queda, HTipo, pausaVars, planVars, gradoVars
<1>5. UNCHANGED <<lista_new, lista_ready, lista_execute>>
  BY <1>1 DEF planVars
<1> PICK n, faltan : n = hilos[t].n /\ faltan = hilos[t].faltan
  OBVIOUS
<1>6. Queda(t, pc, hilos[t].luego, n, faltan)
  BY <1>3
<1> QED  BY <1>2, <1>4, <1>5, <1>6, OrdenSigue

LEMMA PasoIniciar ==
  ASSUME IInv, NEW t \in Hilos, Iniciar(t)
  PROVE  IInv' /\ EnMemoria' = EnMemoria /\ t \in Ordenes
         /\ Queda(t, IF var_pausa = 0 THEN "fin" ELSE "reanudar", hilos[t].luego,
                  hilos[t].n, hilos[t].faltan)
<1> PICK pc : pc = IF var_pausa = 0 THEN "fin" ELSE "reanudar"
  OBVIOUS
<1>1. /\ hilos[t].pc = "iniciar" /\ Pasa(t, pc)
      /\ UNCHANGED <<pausaVars, planVars, gradoVars>>
  BY DEF Iniciar, En, SegunPausa
<1>2. t \in Ordenes /\ pc \in Pcs /\ pc \in {"fin", "pausar", "reanudar", "avisar"}
  BY <1>1, DeUnaOrden DEF Pcs
<1>3. Queda(t, pc, hilos[t].luego, hilos[t].n, hilos[t].faltan)
  BY <1>1, <1>2, ClaseDe, AlPasar
<1>4. ConsolaTypeOK'
  BY <1>1, <1>3, ClaseDe DEF ConsolaTypeOK, Queda, HTipo, pausaVars, planVars, gradoVars
<1>5. UNCHANGED <<lista_new, lista_ready, lista_execute>>
  BY <1>1 DEF planVars
<1> PICK n, faltan : n = hilos[t].n /\ faltan = hilos[t].faltan
  OBVIOUS
<1>6. Queda(t, pc, hilos[t].luego, n, faltan)
  BY <1>3
<1> QED  BY <1>2, <1>4, <1>5, <1>6, OrdenSigue

LEMMA PasoReanudar ==
  ASSUME IInv, NEW t \in Hilos, Reanudar(t)
  PROVE  IInv' /\ EnMemoria' = EnMemoria /\ t \in Ordenes
         /\ Queda(t, "avisar", hilos[t].luego, hilos[t].n, hilos[t].faltan)
<1> PICK pc : pc = "avisar"
  OBVIOUS
<1>1. /\ hilos[t].pc = "reanudar" /\ Pasa(t, pc) /\ var_pausa' = 0
      /\ UNCHANGED <<sem_pausa, mutex_pausa, planVars, gradoVars>>
  BY DEF Reanudar, En
<1>2. t \in Ordenes /\ pc \in Pcs /\ pc \in {"fin", "pausar", "reanudar", "avisar"}
  BY <1>1, DeUnaOrden DEF Pcs
<1>3. Queda(t, pc, hilos[t].luego, hilos[t].n, hilos[t].faltan)
  BY <1>1, <1>2, ClaseDe, AlPasar
<1>4. ConsolaTypeOK'
  BY <1>1, <1>3, ClaseDe DEF ConsolaTypeOK, Queda, HTipo, planVars, gradoVars
<1>5. UNCHANGED <<lista_new, lista_ready, lista_execute>>
  BY <1>1 DEF planVars
<1> PICK n, faltan : n = hilos[t].n /\ faltan = hilos[t].faltan
  OBVIOUS
<1>6. Queda(t, pc, hilos[t].luego, n, faltan)
  BY <1>3
<1> QED  BY <1>2, <1>4, <1>5, <1>6, OrdenSigue

LEMMA PasoAvisar ==
  ASSUME IInv, NEW t \in Hilos, Avisar(t)
  PROVE  IInv' /\ EnMemoria' = EnMemoria /\ t \in Ordenes
         /\ Queda(t, "fin", hilos[t].luego, hilos[t].n, hilos[t].faltan)
<1> PICK pc : pc = "fin"
  OBVIOUS
<1>1. /\ hilos[t].pc = "avisar" /\ Pasa(t, pc) /\ sem_pausa' = sem_pausa + 1
      /\ UNCHANGED <<var_pausa, mutex_pausa, planVars, gradoVars>>
  BY DEF Avisar, En, PostPausa
<1>2. t \in Ordenes /\ pc \in Pcs /\ pc \in {"fin", "pausar", "reanudar", "avisar"}
  BY <1>1, DeUnaOrden DEF Pcs
<1>3. Queda(t, pc, hilos[t].luego, hilos[t].n, hilos[t].faltan)
  BY <1>1, <1>2, ClaseDe, AlPasar
<1>4. ConsolaTypeOK'
  BY <1>1, <1>3, ClaseDe DEF ConsolaTypeOK, Queda, HTipo, planVars, gradoVars
<1>5. UNCHANGED <<lista_new, lista_ready, lista_execute>>
  BY <1>1 DEF planVars
<1> PICK n, faltan : n = hilos[t].n /\ faltan = hilos[t].faltan
  OBVIOUS
<1>6. Queda(t, pc, hilos[t].luego, n, faltan)
  BY <1>3
<1> QED  BY <1>2, <1>4, <1>5, <1>6, OrdenSigue

LEMMA PasoPausar ==
  ASSUME IInv, NEW t \in Hilos, Pausar(t)
  PROVE  IInv' /\ EnMemoria' = EnMemoria /\ t \in Ordenes
         /\ Queda(t, "pausador", hilos[t].luego, hilos[t].n, hilos[t].faltan)
<1>1. /\ hilos[t].pc = "pausar" /\ LlamaPausador(t, "fin") /\ var_pausa' = 1
      /\ UNCHANGED <<sem_pausa, mutex_pausa, planVars, gradoVars>>
  BY DEF Pausar, En
<1>2. t \in Ordenes /\ hilos[t].luego = "fin" /\ "fin" \in Pcs
  BY <1>1, DeUnaOrden
<1>3. Queda(t, "pausador", "fin", hilos[t].n, hilos[t].faltan)
  BY <1>1, <1>2, ClaseDe, AlLlamar
<1>4. ConsolaTypeOK'
  BY <1>1, <1>3, ClaseDe DEF ConsolaTypeOK, Queda, HTipo, planVars, gradoVars
<1>5. UNCHANGED <<lista_new, lista_ready, lista_execute>>
  BY <1>1 DEF planVars
<1> PICK pc, n, faltan : pc = "pausador" /\ n = hilos[t].n /\ faltan = hilos[t].faltan
  OBVIOUS
<1>6. Queda(t, pc, hilos[t].luego, n, faltan)
  BY <1>2, <1>3
<1>7. t \in Ordenes
  BY <1>2
<1>8. IInv' /\ EnMemoria' = EnMemoria
  <2>1. pc \in {"fin", "detener", "pausar", "iniciar", "reanudar", "avisar", "pausador",
                "leer grado", "ajustar"} /\ (pc = "ajustar" => n >= 1)
    OBVIOUS
  <2>2. IInv
    OBVIOUS
  <2> QED  BY ONLY <1>4, <1>5, <1>6, <1>7, <2>1, <2>2, OrdenSigue
<1> QED  BY <1>6, <1>7, <1>8

LEMMA PasoOrdenarPausa ==
  ASSUME IInv, NEW t \in Ordenes, NEW pc \in {"detener", "iniciar"}, OrdenarPausa(t, pc)
  PROVE  IInv' /\ EnMemoria' = EnMemoria
         /\ Queda(t, pc, hilos[t].luego, hilos[t].n, hilos[t].faltan)
<1>1. hilos[t].pc = "sin empezar" /\ Pasa(t, pc) /\ UNCHANGED <<pausaVars, planVars, gradoVars>>
  BY DEF OrdenarPausa, EsLaProxima, En
<1>2. t \in Hilos /\ pc \in Pcs
  BY Clase DEF Pcs
<1>3. Queda(t, pc, hilos[t].luego, hilos[t].n, hilos[t].faltan)
  BY <1>1, <1>2, ClaseDe, AlPasar
<1>4. ConsolaTypeOK'
  BY <1>1, <1>2, <1>3, ClaseDe DEF ConsolaTypeOK, Queda, HTipo, pausaVars, planVars, gradoVars
<1>5. UNCHANGED <<lista_new, lista_ready, lista_execute>>
  BY <1>1 DEF planVars
<1> PICK n, faltan : n = hilos[t].n /\ faltan = hilos[t].faltan
  OBVIOUS
<1>6. Queda(t, pc, hilos[t].luego, n, faltan)
  BY <1>3
<1> QED  BY <1>3, <1>4, <1>5, <1>6, OrdenSigue

\* A record of hilos with pc and n, or pc and faltan, rewritten
LEMMA Reescribe ==
  ASSUME NEW r \in [pc: Pcs, luego: Pcs, n: 0..MaxGrado, faltan: (-MaxGrado)..MaxGrado],
         NEW x
  PROVE  /\ [[r EXCEPT !.pc = "leer grado"] EXCEPT !.n = x]
              = [pc |-> "leer grado", luego |-> r.luego, n |-> x, faltan |-> r.faltan]
         /\ [[r EXCEPT !.pc = "ajustar"] EXCEPT !.faltan = x]
              = [pc |-> "ajustar", luego |-> r.luego, n |-> r.n, faltan |-> x]
         /\ [r EXCEPT !.faltan = x]
              = [pc |-> r.pc, luego |-> r.luego, n |-> r.n, faltan |-> x]
         /\ [r EXCEPT !.pc = "fin"]
              = [pc |-> "fin", luego |-> r.luego, n |-> r.n, faltan |-> r.faltan]
<1>1. [r EXCEPT !.faltan = x] = [pc |-> r.pc, luego |-> r.luego, n |-> r.n, faltan |-> x]
  OBVIOUS
<1>2. [r EXCEPT !.pc = "fin"]
        = [pc |-> "fin", luego |-> r.luego, n |-> r.n, faltan |-> r.faltan]
  OBVIOUS
<1>3. [[r EXCEPT !.pc = "leer grado"] EXCEPT !.n = x]
        = [pc |-> "leer grado", luego |-> r.luego, n |-> x, faltan |-> r.faltan]
  <2> PICK s : s = [r EXCEPT !.pc = "leer grado"]
    OBVIOUS
  <2>1. s = [pc |-> "leer grado", luego |-> r.luego, n |-> r.n, faltan |-> r.faltan]
    OBVIOUS
  <2>2. [s EXCEPT !.n = x]
          = [pc |-> "leer grado", luego |-> r.luego, n |-> x, faltan |-> r.faltan]
    <3> PICK a, b, c, d : a = "leer grado" /\ b = r.luego /\ c = r.n /\ d = r.faltan
      OBVIOUS
    <3>1. s = [pc |-> a, luego |-> b, n |-> c, faltan |-> d]
      BY <2>1
    <3>2. [s EXCEPT !.n = x] = [pc |-> a, luego |-> b, n |-> x, faltan |-> d]
      BY ONLY <3>1
    <3> QED  BY <3>2
  <2> QED  BY <2>2
<1>4. [[r EXCEPT !.pc = "ajustar"] EXCEPT !.faltan = x]
        = [pc |-> "ajustar", luego |-> r.luego, n |-> r.n, faltan |-> x]
  <2> PICK s : s = [r EXCEPT !.pc = "ajustar"]
    OBVIOUS
  <2>1. s = [pc |-> "ajustar", luego |-> r.luego, n |-> r.n, faltan |-> r.faltan]
    OBVIOUS
  <2>2. [s EXCEPT !.faltan = x]
          = [pc |-> "ajustar", luego |-> r.luego, n |-> r.n, faltan |-> x]
    BY ONLY <2>1
  <2> QED  BY <2>2
<1> QED  BY <1>1, <1>2, <1>3, <1>4

LEMMA PasoOrdenarGrado ==
  ASSUME IInv, NEW t \in Ordenes, NEW n \in 0..MaxGrado, OrdenarGrado(t, n)
  PROVE  IInv' /\ EnMemoria' = EnMemoria
         /\ Queda(t, "leer grado", hilos[t].luego, n, hilos[t].faltan)
<1> PICK pc, luego, faltan : /\ pc = "leer grado" /\ luego = hilos[t].luego
                             /\ faltan = hilos[t].faltan
  OBVIOUS
<1>1. /\ hilos' = [hilos EXCEPT ![t].pc = "leer grado", ![t].n = n]
      /\ UNCHANGED <<pausaVars, planVars, gradoVars>>
  BY DEF OrdenarGrado
<1>2. t \in Hilos /\ pc \in Pcs /\ luego \in Pcs /\ faltan \in (-MaxGrado)..MaxGrado
  BY Clase, ClaseDe, HiloTipo DEF Pcs
<1>3. hilos' = [hilos EXCEPT ![t] = [[hilos[t] EXCEPT !.pc = "leer grado"] EXCEPT !.n = n]]
  BY <1>1, <1>2, ClaseDe, HiloTipo DEF HTipo
<1>4. hilos' = [hilos EXCEPT ![t] = [pc |-> pc, luego |-> luego, n |-> n, faltan |-> faltan]]
  <2>1. hilos[t] \in [pc: Pcs, luego: Pcs, n: 0..MaxGrado, faltan: (-MaxGrado)..MaxGrado]
    BY <1>2, ClaseDe DEF ConsolaTypeOK
  <2>2. [[hilos[t] EXCEPT !.pc = "leer grado"] EXCEPT !.n = n]
          = [pc |-> pc, luego |-> luego, n |-> n, faltan |-> faltan]
    BY <2>1, Reescribe
  <2> QED  BY <1>3, <2>2
<1>5. Queda(t, pc, luego, n, faltan)
  BY <1>2, <1>4, ClaseDe, AlCambiar
<1>6. ConsolaTypeOK'
  BY <1>1, <1>2, <1>5, ClaseDe DEF ConsolaTypeOK, Queda, HTipo, pausaVars, planVars, gradoVars
<1>7. UNCHANGED <<lista_new, lista_ready, lista_execute>>
  BY <1>1 DEF planVars
<1>8. Queda(t, pc, hilos[t].luego, n, faltan)
  BY <1>5
<1>9. IInv' /\ EnMemoria' = EnMemoria
  <2>1. pc \in {"fin", "detener", "pausar", "iniciar", "reanudar", "avisar", "pausador",
                "leer grado", "ajustar"} /\ (pc = "ajustar" => n >= 1)
    OBVIOUS
  <2>2. IInv
    OBVIOUS
  <2> QED  BY ONLY <1>6, <1>7, <1>8, <2>1, <2>2, OrdenSigue
<1> QED  BY <1>8, <1>9

\* The difference is taken from the degree in force, if the new one is valid.
LEMMA PasoLeerGrado ==
  ASSUME IInv, NEW t \in Hilos, LeerGrado(t)
  PROVE  IInv' /\ EnMemoria' = EnMemoria /\ t \in Ordenes
         /\ \/ Queda(t, "fin", hilos[t].luego, hilos[t].n, hilos[t].faltan)
            \/ Queda(t, "ajustar", hilos[t].luego, hilos[t].n,
                     hilos[t].n - GRADO_MULTIPROGRAMACION)
<1> PICK valido, pc, luego, n, faltan :
      /\ valido = hilos[t].n /\ pc = IF hilos[t].n >= 1 THEN "ajustar" ELSE "fin"
      /\ luego = hilos[t].luego /\ n = hilos[t].n
      /\ faltan = IF hilos[t].n >= 1 THEN hilos[t].n - GRADO_MULTIPROGRAMACION
                  ELSE hilos[t].faltan
  OBVIOUS
<1>1. /\ hilos[t].pc = "leer grado"
      /\ hilos' = IF ~(n >= 1) THEN [hilos EXCEPT ![t].pc = "fin"]
                  ELSE [hilos EXCEPT ![t].pc = "ajustar", ![t].faltan = faltan]
      /\ UNCHANGED <<pausaVars, planVars, gradoVars>>
  BY DEF LeerGrado, En, GradoValido
<1>2. t \in Ordenes
  BY <1>1, DeUnaOrden
<1>3. /\ pc \in Pcs /\ luego \in Pcs /\ n \in 0..MaxGrado
      /\ faltan \in (-MaxGrado)..MaxGrado
  <2>1. /\ luego \in Pcs /\ n \in 0..MaxGrado /\ hilos[t].faltan \in (-MaxGrado)..MaxGrado
        /\ "fin" \in Pcs /\ "ajustar" \in Pcs
    BY ClaseDe, HiloTipo DEF Pcs
  <2>2. GRADO_MULTIPROGRAMACION \in 1..MaxGrado /\ MaxGrado \in Nat
    BY Constantes DEF IInv, ConsolaTypeOK
  <2> QED  BY <2>1, <2>2
<1>4. hilos' = [hilos EXCEPT ![t] = [pc |-> pc, luego |-> luego, n |-> n, faltan |-> faltan]]
  <2>1. hilos[t] \in [pc: Pcs, luego: Pcs, n: 0..MaxGrado, faltan: (-MaxGrado)..MaxGrado]
    BY ClaseDe DEF ConsolaTypeOK
  <2>2. CASE n >= 1
    <3>1. hilos' = [hilos EXCEPT ![t] = [[hilos[t] EXCEPT !.pc = "ajustar"] EXCEPT !.faltan = faltan]]
      BY <1>1, <2>2, ClaseDe, HiloTipo DEF HTipo
    <3>2. [[hilos[t] EXCEPT !.pc = "ajustar"] EXCEPT !.faltan = faltan]
            = [pc |-> "ajustar", luego |-> luego, n |-> n, faltan |-> faltan]
      BY <2>1, Reescribe
    <3>3. pc = "ajustar"
      BY <2>2
    <3> QED  BY <3>1, <3>2, <3>3
  <2>3. CASE ~(n >= 1)
    <3>1. hilos' = [hilos EXCEPT ![t] = [hilos[t] EXCEPT !.pc = "fin"]]
      BY <1>1, <2>3
    <3>2. [hilos[t] EXCEPT !.pc = "fin"]
            = [pc |-> "fin", luego |-> luego, n |-> n, faltan |-> hilos[t].faltan]
      BY <2>1, Reescribe
    <3>3. pc = "fin" /\ faltan = hilos[t].faltan
      BY <2>3
    <3> QED  BY <3>1, <3>2, <3>3
  <2> QED  BY <2>2, <2>3
<1>5. Queda(t, pc, luego, n, faltan)
  BY <1>3, <1>4, ClaseDe, AlCambiar
<1>6. ConsolaTypeOK'
  BY <1>1, <1>5, ClaseDe DEF ConsolaTypeOK, Queda, HTipo, pausaVars, planVars, gradoVars
<1>7. UNCHANGED <<lista_new, lista_ready, lista_execute>>
  BY <1>1 DEF planVars
<1>8. Queda(t, pc, hilos[t].luego, n, faltan)
  BY <1>5
<1>9. IInv' /\ EnMemoria' = EnMemoria
  <2>1. pc \in {"fin", "detener", "pausar", "iniciar", "reanudar", "avisar", "pausador",
                "leer grado", "ajustar"} /\ (pc = "ajustar" => n >= 1)
    OBVIOUS
  <2>2. IInv
    OBVIOUS
  <2> QED  BY ONLY <1>2, <1>6, <1>7, <1>8, <2>1, <2>2, OrdenSigue
<1> QED  BY <1>2, <1>8, <1>9

LEMMA PasoUnCupo ==
  ASSUME IInv, NEW t \in Hilos, PonerCupo(t) \/ SacarCupo(t)
  PROVE  IInv' /\ EnMemoria' = EnMemoria /\ t \in Ordenes /\ hilos[t].pc = "ajustar"
         /\ \E mas \in {1, -1} :
              /\ Queda(t, "ajustar", hilos[t].luego, hilos[t].n, hilos[t].faltan - mas)
              /\ sem_procesos_en_memoria' = sem_procesos_en_memoria + mas
<1>1. PICK mas \in {1, -1} :
        /\ hilos[t].pc = "ajustar" /\ UnCupo(t, mas)
        /\ mas = 1 => hilos[t].faltan > 0
        /\ mas = -1 => hilos[t].faltan < 0 /\ sem_procesos_en_memoria > 0
  BY DEF PonerCupo, SacarCupo, En
<1> PICK pc, luego, n, faltan : /\ pc = "ajustar" /\ luego = hilos[t].luego /\ n = hilos[t].n
                                /\ faltan = hilos[t].faltan - mas
  OBVIOUS
<1>2. t \in Ordenes
  BY <1>1, DeUnaOrden
<1>3. /\ sem_procesos_en_memoria' = sem_procesos_en_memoria + mas
      /\ hilos' = [hilos EXCEPT ![t].faltan = faltan]
      /\ UNCHANGED <<pausaVars, planVars, GRADO_MULTIPROGRAMACION>>
  BY <1>1, ClaseDe DEF UnCupo, ConsolaTypeOK
<1>4. /\ pc \in Pcs /\ luego \in Pcs /\ n \in 0..MaxGrado /\ n >= 1
      /\ faltan \in (-MaxGrado)..MaxGrado
  <2>1. /\ pc \in Pcs /\ luego \in Pcs /\ n \in 0..MaxGrado
        /\ hilos[t].faltan \in (-MaxGrado)..MaxGrado /\ MaxGrado \in Nat
    BY ClaseDe, HiloTipo, Constantes DEF Pcs
  <2>2. n >= 1
    BY <1>1, <1>2, ClaseDe DEF DeOrden
  <2> QED  BY <1>1, <2>1, <2>2
<1>5. hilos' = [hilos EXCEPT ![t] = [pc |-> pc, luego |-> luego, n |-> n, faltan |-> faltan]]
  <2>1. hilos[t] \in [pc: Pcs, luego: Pcs, n: 0..MaxGrado, faltan: (-MaxGrado)..MaxGrado]
    BY ClaseDe DEF ConsolaTypeOK
  <2>2. hilos' = [hilos EXCEPT ![t] = [hilos[t] EXCEPT !.faltan = faltan]]
    BY <1>3
  <2>3. [hilos[t] EXCEPT !.faltan = faltan]
          = [pc |-> pc, luego |-> luego, n |-> n, faltan |-> faltan]
    BY <1>1, <2>1, Reescribe
  <2> QED  BY <2>2, <2>3
<1>6. Queda(t, pc, luego, n, faltan)
  BY <1>4, <1>5, ClaseDe, AlCambiar
<1>7. ConsolaTypeOK'
  <2>1. sem_procesos_en_memoria \in Nat
    BY ClaseDe DEF ConsolaTypeOK
  <2>2. sem_procesos_en_memoria' \in Nat
    BY <2>1, <1>1, <1>3
  <2> QED
    BY <2>2, <1>3, <1>6, ClaseDe DEF ConsolaTypeOK, Queda, HTipo, pausaVars, planVars
<1>8. UNCHANGED <<lista_new, lista_ready, lista_execute>>
  BY <1>3 DEF planVars
<1>9. Queda(t, pc, hilos[t].luego, n, faltan)
  BY <1>6
<1>10. IInv' /\ EnMemoria' = EnMemoria
  <2>1. pc \in {"fin", "detener", "pausar", "iniciar", "reanudar", "avisar", "pausador",
                "leer grado", "ajustar"} /\ (pc = "ajustar" => n >= 1)
    BY <1>4
  <2>2. IInv
    OBVIOUS
  <2> QED  BY ONLY <1>2, <1>7, <1>8, <1>9, <2>1, <2>2, OrdenSigue
<1> QED  BY <1>1, <1>2, <1>3, <1>9, <1>10

LEMMA PasoFijarGrado ==
  ASSUME IInv, NEW t \in Hilos, FijarGrado(t)
  PROVE  IInv' /\ EnMemoria' = EnMemoria /\ t \in Ordenes
         /\ hilos[t].pc = "ajustar" /\ hilos[t].faltan = 0
         /\ Queda(t, "fin", hilos[t].luego, hilos[t].n, hilos[t].faltan)
<1> PICK pc, n, faltan : pc = "fin" /\ n = hilos[t].n /\ faltan = hilos[t].faltan
  OBVIOUS
<1>1. /\ hilos[t].pc = "ajustar" /\ hilos[t].faltan = 0 /\ Pasa(t, pc)
      /\ GRADO_MULTIPROGRAMACION' = n
      /\ UNCHANGED <<pausaVars, planVars, sem_procesos_en_memoria>>
  BY DEF FijarGrado, En, GradoAjustado
<1>2. t \in Ordenes /\ pc \in Pcs
  BY <1>1, DeUnaOrden
<1>3. Queda(t, pc, hilos[t].luego, n, faltan)
  BY <1>1, <1>2, ClaseDe, AlPasar
<1>4. n \in 1..MaxGrado
  <2>1. n \in 0..MaxGrado /\ MaxGrado \in Nat
    BY ClaseDe, HiloTipo, Constantes
  <2>2. n >= 1
    BY <1>1, <1>2, ClaseDe DEF DeOrden
  <2> QED  BY <2>1, <2>2
<1>5. ConsolaTypeOK'
  BY <1>1, <1>3, <1>4, ClaseDe DEF ConsolaTypeOK, Queda, HTipo, pausaVars, planVars
<1>6. UNCHANGED <<lista_new, lista_ready, lista_execute>>
  BY <1>1 DEF planVars
<1>7. IInv' /\ EnMemoria' = EnMemoria
  <2>1. pc \in {"fin", "detener", "pausar", "iniciar", "reanudar", "avisar", "pausador",
                "leer grado", "ajustar"} /\ (pc = "ajustar" => n >= 1)
    OBVIOUS
  <2>2. IInv
    OBVIOUS
  <2> QED  BY ONLY <1>2, <1>3, <1>5, <1>6, <2>1, <2>2, OrdenSigue
<1> QED  BY <1>1, <1>2, <1>3, <1>7

LEMMA PasoIniciarProceso ==
  ASSUME IInv, NEW p \in Procesos, IniciarProceso(p)
  PROVE  LET t == <<"proceso", p>> IN
         IInv' /\ EnMemoria' = EnMemoria /\ t \in HilosDeProcesos
         /\ Queda(t, "nuevo", hilos[t].luego, hilos[t].n, hilos[t].faltan)
<1> PICK t, pc : t = <<"proceso", p>> /\ pc = "nuevo"
  OBVIOUS
<1>1. hilos[t].pc = "sin empezar" /\ Pasa(t, pc) /\ UNCHANGED <<pausaVars, planVars, gradoVars>>
  BY DEF IniciarProceso, En
<1>2. t \in HilosDeProcesos /\ t \in Hilos /\ pc \in Pcs
  BY DEF Hilos, HilosDeProcesos, Pcs
<1>3. Queda(t, pc, hilos[t].luego, hilos[t].n, hilos[t].faltan)
  BY <1>1, <1>2, ClaseDe, AlPasar
<1>4. Mueve(t)
  BY <1>1, <1>2, <1>3, Clase, ClaseDe DEF Mueve, Queda, DeProceso
<1>5. ConsolaTypeOK'
  BY <1>1, <1>2, <1>3, ClaseDe DEF ConsolaTypeOK, Queda, HTipo, pausaVars, planVars, gradoVars
<1>6. /\ Aguarda(hilos'[t]) <=> Aguarda(hilos[t])
      /\ hilos[t].pc \in {"sin empezar", "nuevo"}
  BY <1>1, <1>3 DEF Queda, Aguarda
<1>7. UNCHANGED <<lista_new, lista_ready, lista_execute>>
  BY <1>1 DEF planVars
<1>8. IInv' /\ EnMemoria' = EnMemoria
  BY <1>2, <1>4, <1>5, <1>6, <1>7, SoloHilos
<1> QED  BY <1>2, <1>3, <1>8

LEMMA PasoTomarNew ==
  ASSUME IInv, NEW t \in Hilos, TomarNew(t)
  PROVE  IInv' /\ EnMemoria' = EnMemoria /\ t \in HilosDeProcesos
         /\ Queda(t, "plp_cupo", hilos[t].luego, hilos[t].n, hilos[t].faltan)
<1> PICK pc : pc = "plp_cupo"
  OBVIOUS
<1>1. /\ hilos[t].pc = "plp" /\ Pasa(t, pc) /\ mutex_lista_new' = t
      /\ UNCHANGED <<pausaVars, lista_new, lista_ready, lista_execute, terminados, gradoVars>>
  BY DEF TomarNew, En
<1>2. t \in HilosDeProcesos /\ pc \in Pcs
  BY <1>1, Clase, ClaseDe DEF DeOrden, DeDespacho, Pcs
<1>3. Queda(t, pc, hilos[t].luego, hilos[t].n, hilos[t].faltan)
  BY <1>1, <1>2, ClaseDe, AlPasar
<1>4. Mueve(t)
  BY <1>1, <1>2, <1>3, Clase, ClaseDe DEF Mueve, Queda, DeProceso
<1>5. ConsolaTypeOK'
  BY <1>1, <1>3, ClaseDe DEF ConsolaTypeOK, Queda, HTipo, pausaVars, gradoVars
<1>6. /\ Aguarda(hilos'[t]) <=> Aguarda(hilos[t])
      /\ hilos'[t].pc \notin {"sin empezar", "nuevo"}
  BY <1>1, <1>3 DEF Queda, Aguarda
<1>7. IInv' /\ EnMemoria' = EnMemoria
  BY <1>1, <1>4, <1>5, <1>6, SoloHilos
<1> QED  BY <1>2, <1>3, <1>7

-----------------------------------------------------------------------------
(* Steps that move a process *)

LEMMA PasoNuevo ==
  ASSUME IInv, NEW p \in Procesos, Nuevo(p)
  PROVE  LET t == <<"proceso", p>> IN
         IInv' /\ EnMemoria' = EnMemoria /\ t \in HilosDeProcesos
         /\ hilos[t].pc = "nuevo"
         /\ Queda(t, "pausador", "plp", hilos[t].n, hilos[t].faltan)
<1> PICK t, luego : t = <<"proceso", p>> /\ luego = "plp"
  OBVIOUS
<1>1. /\ hilos[t].pc = "nuevo" /\ LlamaPausador(t, luego)
      /\ lista_new' = Append(lista_new, p)
      /\ UNCHANGED <<pausaVars, mutex_lista_new, lista_ready, lista_execute, terminados,
                     gradoVars>>
  BY DEF Nuevo, En
<1>2. t \in HilosDeProcesos /\ t \in Hilos /\ luego \in Pcs
  BY DEF Hilos, HilosDeProcesos, Pcs
<1>3. Queda(t, "pausador", luego, hilos[t].n, hilos[t].faltan)
  BY <1>1, <1>2, ClaseDe, AlLlamar
<1>4. Mueve(t)
  BY <1>2, <1>3, Clase DEF Mueve, Queda, DeProceso
<1>5. Clases'
  BY <1>2, <1>4, MueveClases DEF IInv
<1> PICK s, s2 : s = lista_new /\ s2 = Append(lista_new, p)
  OBVIOUS
<1>6. /\ s \in Seq(Procesos) /\ lista_new' = s2 /\ s2 = Append(s, p)
  <2>1. lista_new \in Seq(Procesos)
    BY DEF IInv, ConsolaTypeOK
  <2> QED  BY <1>1, <2>1
<1>7. /\ s2 \in Seq(Procesos) /\ Len(s2) = Len(s) + 1 /\ Len(s) \in Nat
      /\ DOMAIN s = 1..Len(s) /\ DOMAIN s2 = 1..(Len(s) + 1)
      /\ \A i \in 1..Len(s) : s2[i] = s[i]
      /\ s2[Len(s) + 1] = p
  BY <1>6
<1>8. ConsolaTypeOK'
  BY <1>1, <1>2, <1>3, <1>6, <1>7, ClaseDe DEF ConsolaTypeOK, Queda, HTipo, pausaVars, gradoVars
<1>9. UnoPorHilo'
  <2>1. t \notin Aguardan
    BY <1>1 DEF Aguardan, Aguarda
  <2>2. Aguardan' = Aguardan \union {t}
    <3>1. Aguarda(hilos'[t])
      BY <1>3 DEF Queda, Aguarda
    <3>2. \A u \in HilosDeProcesos \ {t} : hilos'[u] = hilos[u]
      BY <1>3, Clase DEF Queda
    <3> QED  BY <1>2, <3>1, <3>2 DEF Aguardan
  <2> PICK A : A = Aguardan
    OBVIOUS
  <2>3. IsFiniteSet(A) /\ t \notin A
    BY <2>1 DEF IInv, UnoPorHilo
  <2>4. IsFiniteSet(A \union {t}) /\ Cardinality(A \union {t}) = Cardinality(A) + 1
    BY <2>3, FS_AddElement
  <2>5. Len(s) = Cardinality(A)
    BY DEF IInv, UnoPorHilo
  <2> QED  BY <2>2, <2>4, <2>5, <1>6, <1>7 DEF UnoPorHilo
<1>10. EnMemoria' = EnMemoria
  BY <1>1 DEF EnMemoria
<1>11. p \notin EnMemoria /\ \A i \in DOMAIN s : s[i] # p
  BY <1>1 DEF IInv, Repartidos
<1>12. Repartidos'
  <2>0. /\ \A i, j \in DOMAIN s : s[i] = s[j] => i = j
        /\ \A i \in DOMAIN s : s[i] \notin EnMemoria
    BY DEF IInv, Repartidos
  <2>1. \A i, j \in DOMAIN s2 : s2[i] = s2[j] => i = j
    BY <2>0, <1>7, <1>11
  <2>2. \A i \in DOMAIN s2 : s2[i] \notin EnMemoria
    BY <2>0, <1>7, <1>11
  <2>3. ASSUME NEW q \in Procesos, q \in EnMemoria \/ \E i \in DOMAIN s2 : s2[i] = q
        PROVE  hilos'[<<"proceso", q>>].pc \notin {"sin empezar", "nuevo"}
    <3> PICK u : u = <<"proceso", q>>
      OBVIOUS
    <3>1. u \in Hilos
      BY DEF Hilos, HilosDeProcesos
    <3>2. CASE q = p
      BY <3>2, <1>3 DEF Queda
    <3>3. CASE q # p
      <4>1. q \in EnMemoria \/ \E i \in DOMAIN s : s[i] = q
        BY <2>3, <3>3, <1>7
      <4>2. hilos[u].pc \notin {"sin empezar", "nuevo"}
        BY <4>1 DEF IInv, Repartidos
      <4>3. u # t
        BY <3>3
      <4> QED  BY <3>1, <4>2, <4>3, <1>3 DEF Queda
    <3> QED  BY <3>2, <3>3
  <2>4. /\ \A i, j \in DOMAIN lista_ready : lista_ready[i] = lista_ready[j] => i = j
        /\ \A i \in DOMAIN lista_ready : lista_ready[i] # lista_execute
    BY DEF IInv, Repartidos
  <2> QED
    BY <2>1, <2>2, <2>3, <2>4, <1>1, <1>6, <1>10 DEF Repartidos
<1>13. IInv'
  BY <1>5, <1>8, <1>9, <1>12 DEF IInv
<1> QED  BY <1>1, <1>2, <1>3, <1>10, <1>13

\* The thread that takes a slot finds somebody in NEW.
LEMMA PasoAdmitir ==
  ASSUME IInv, NEW t \in Hilos, Admitir(t)
  PROVE  /\ IInv' /\ t \in HilosDeProcesos
         /\ Queda(t, "pausador", "pcp", hilos[t].n, hilos[t].faltan)
         /\ \E q \in Procesos \ EnMemoria : EnMemoria' = EnMemoria \union {q}
<1> PICK luego : luego = "pcp"
  OBVIOUS
<1>1. /\ hilos[t].pc = "plp_cupo" /\ LlamaPausador(t, luego)
      /\ sem_procesos_en_memoria > 0
      /\ sem_procesos_en_memoria' = sem_procesos_en_memoria - 1
      /\ lista_new' = Tail(lista_new)
      /\ lista_ready' = Append(lista_ready, Head(lista_new))
      /\ mutex_lista_new' = Nadie
      /\ UNCHANGED <<pausaVars, lista_execute, terminados, GRADO_MULTIPROGRAMACION>>
  BY DEF Admitir, En
<1>2. t \in HilosDeProcesos /\ luego \in Pcs
  BY <1>1, Clase, ClaseDe DEF DeOrden, DeDespacho, Pcs
<1>3. Queda(t, "pausador", luego, hilos[t].n, hilos[t].faltan)
  BY <1>1, <1>2, ClaseDe, AlLlamar
<1>4. Mueve(t)
  BY <1>2, <1>3, Clase DEF Mueve, Queda, DeProceso
<1>5. Clases'
  BY <1>4, MueveClases DEF IInv
<1> PICK s, r, q, A : s = lista_new /\ r = lista_ready /\ q = Head(lista_new) /\ A = Aguardan
  OBVIOUS
<1>6. s \in Seq(Procesos) /\ r \in Seq(Procesos)
  BY ClaseDe DEF ConsolaTypeOK
<1>7. t \in A /\ IsFiniteSet(A) /\ Len(s) = Cardinality(A)
  BY <1>1, <1>2 DEF IInv, UnoPorHilo, Aguardan, Aguarda
<1>8. /\ IsFiniteSet(A \ {t}) /\ Cardinality(A \ {t}) = Cardinality(A) - 1
      /\ Cardinality(A) \in Nat /\ Cardinality(A \ {t}) \in Nat
  BY <1>7, FS_RemoveElement, FS_CardinalityType
<1>9. s # <<>> /\ Len(s) \in Nat \ {0}
  BY <1>6, <1>7, <1>8
<1>10. /\ q \in Procesos /\ q = s[1] /\ 1 \in DOMAIN s
       /\ Tail(s) \in Seq(Procesos) /\ Len(Tail(s)) = Len(s) - 1
       /\ DOMAIN s = 1..Len(s) /\ DOMAIN Tail(s) = 1..(Len(s) - 1)
       /\ \A i \in 1..(Len(s) - 1) : Tail(s)[i] = s[i + 1]
  BY <1>6, <1>9
<1> PICK z, r2 : z = Tail(s) /\ r2 = Append(r, q)
  OBVIOUS
<1>11. /\ r2 \in Seq(Procesos) /\ Len(r) \in Nat
       /\ DOMAIN r = 1..Len(r) /\ DOMAIN r2 = 1..(Len(r) + 1)
       /\ \A i \in 1..Len(r) : r2[i] = r[i]
       /\ r2[Len(r) + 1] = q
  BY <1>6, <1>10
<1>12. lista_new' = z /\ lista_ready' = r2
  BY <1>1
<1>13. ConsolaTypeOK'
  <2>1. sem_procesos_en_memoria' \in Nat
    BY <1>1, ClaseDe DEF ConsolaTypeOK
  <2> QED
    BY <2>1, <1>1, <1>3, <1>10, <1>11, <1>12, ClaseDe DEF ConsolaTypeOK, Queda, HTipo, pausaVars
<1>14. UnoPorHilo'
  <2>1. Aguardan' = A \ {t}
    <3>1. ~Aguarda(hilos'[t])
      BY <1>3 DEF Queda, Aguarda
    <3>2. \A u \in HilosDeProcesos \ {t} : hilos'[u] = hilos[u]
      BY <1>3, Clase DEF Queda
    <3> QED  BY <3>1, <3>2 DEF Aguardan
  <2> QED  BY <2>1, <1>7, <1>8, <1>10, <1>12 DEF UnoPorHilo
<1>15. q \notin EnMemoria
  BY <1>10 DEF IInv, Repartidos
<1>16. EnMemoria' = EnMemoria \union {q}
  <2>1. \A p : (\E i \in DOMAIN r2 : r2[i] = p) <=> (p = q \/ \E i \in DOMAIN r : r[i] = p)
    BY <1>11
  <2>2. EnMemoria = {p \in Procesos : p = lista_execute \/ \E i \in DOMAIN r : r[i] = p}
    BY DEF EnMemoria
  <2>3. EnMemoria' = {p \in Procesos : p = lista_execute \/ \E i \in DOMAIN r2 : r2[i] = p}
    BY <1>1, <1>12 DEF EnMemoria
  <2> QED  BY <2>1, <2>2, <2>3, <1>10
<1>17. Repartidos'
  <2>1. /\ \A i, j \in DOMAIN s : s[i] = s[j] => i = j
        /\ \A i, j \in DOMAIN r : r[i] = r[j] => i = j
        /\ \A i \in DOMAIN s : s[i] \notin EnMemoria
        /\ \A i \in DOMAIN r : r[i] # lista_execute
        /\ \A i \in DOMAIN r : r[i] \in EnMemoria
    <3>1. \A i \in DOMAIN r : r[i] \in Procesos
      BY <1>6
    <3>2. \A i \in DOMAIN r : r[i] \in EnMemoria
      BY <3>1 DEF EnMemoria
    <3> QED  BY <3>2 DEF IInv, Repartidos
  <2>2. \A i, j \in DOMAIN z : z[i] = z[j] => i = j
    <3> SUFFICES ASSUME NEW i \in DOMAIN z, NEW j \in DOMAIN z, z[i] = z[j] PROVE i = j
      OBVIOUS
    <3>1. /\ i \in 1..(Len(s) - 1) /\ j \in 1..(Len(s) - 1)
          /\ i + 1 \in DOMAIN s /\ j + 1 \in DOMAIN s /\ s[i + 1] = s[j + 1]
      BY <1>9, <1>10
    <3>2. i + 1 = j + 1
      BY <2>1, <3>1
    <3> QED  BY <3>1, <3>2
  <2>3. \A i \in DOMAIN z : z[i] \notin EnMemoria \union {q}
    <3> SUFFICES ASSUME NEW i \in DOMAIN z PROVE z[i] \notin EnMemoria /\ z[i] # q
      OBVIOUS
    <3>1. i \in 1..(Len(s) - 1) /\ i + 1 \in DOMAIN s /\ z[i] = s[i + 1] /\ i + 1 # 1
      BY <1>9, <1>10
    <3> QED  BY <2>1, <3>1, <1>10
  <2>4. \A i, j \in DOMAIN r2 : r2[i] = r2[j] => i = j
    BY <2>1, <1>11, <1>15
  <2>5. \A i \in DOMAIN r2 : r2[i] # lista_execute
    <3>1. q # lista_execute
      BY <1>10, <1>15 DEF EnMemoria
    <3> QED  BY <3>1, <2>1, <1>11
  <2>6. ASSUME NEW p \in Procesos,
               p \in EnMemoria \union {q} \/ \E i \in DOMAIN z : z[i] = p
        PROVE  hilos'[<<"proceso", p>>].pc \notin {"sin empezar", "nuevo"}
    <3> PICK u : u = <<"proceso", p>>
      OBVIOUS
    <3>1. u \in Hilos
      BY DEF Hilos, HilosDeProcesos
    <3>2. p \in EnMemoria \/ \E i \in DOMAIN s : s[i] = p
      <4>1. \A i \in DOMAIN z : i + 1 \in DOMAIN s /\ z[i] = s[i + 1]
        BY <1>9, <1>10
      <4> QED  BY <2>6, <4>1, <1>10
    <3>3. hilos[u].pc \notin {"sin empezar", "nuevo"}
      BY <3>2 DEF IInv, Repartidos
    <3> QED  BY <3>1, <3>3, <1>3 DEF Queda
  <2> QED
    BY <2>2, <2>3, <2>4, <2>5, <2>6, <1>1, <1>12, <1>16 DEF Repartidos
<1>18. IInv'
  BY <1>5, <1>13, <1>14, <1>17 DEF IInv
<1> QED  BY <1>2, <1>3, <1>10, <1>15, <1>16, <1>18


\* The first of a sequence of different elements, and the others
LEMMA Cola ==
  ASSUME NEW S, NEW r \in Seq(S), r # <<>>
  PROVE  /\ Head(r) \in S /\ 1 \in DOMAIN r /\ r[1] = Head(r)
         /\ Tail(r) \in Seq(S)
         /\ \A i \in DOMAIN r : r[i] = Head(r) \/ \E j \in DOMAIN Tail(r) : r[i] = Tail(r)[j]
         /\ \A j \in DOMAIN Tail(r) : \E i \in DOMAIN r : r[i] = Tail(r)[j]
         /\ (\A i, j \in DOMAIN r : r[i] = r[j] => i = j) =>
              /\ \A i, j \in DOMAIN Tail(r) : Tail(r)[i] = Tail(r)[j] => i = j
              /\ \A j \in DOMAIN Tail(r) : Tail(r)[j] # Head(r)
<1> PICK n, z, q : n = Len(r) /\ z = Tail(r) /\ q = Head(r)
  OBVIOUS
<1>1. n \in Nat /\ DOMAIN r = 1..n
  OBVIOUS
<1>2. n # 0
  BY EmptySeq
<1>3. /\ z \in Seq(S) /\ Len(z) = n - 1 /\ \A i \in 1..(n - 1) : z[i] = r[i + 1]
      /\ q = r[1]
  BY HeadTailProperties
<1>4. DOMAIN z = 1..(n - 1)
  BY <1>3
<1>5. 1 \in DOMAIN r /\ q \in S
  BY <1>1, <1>2, <1>3, ElementOfSeq
<1>6. \A j \in DOMAIN z : j \in Nat /\ j + 1 \in DOMAIN r /\ z[j] = r[j + 1] /\ j + 1 # 1
  BY ONLY <1>1, <1>2, <1>3, <1>4
<1>7. \A i \in DOMAIN r : r[i] = q \/ \E j \in DOMAIN z : r[i] = z[j]
  <2> SUFFICES ASSUME NEW i \in DOMAIN r, i # 1 PROVE \E j \in DOMAIN z : r[i] = z[j]
    BY <1>3
  <2>1. i - 1 \in 1..(n - 1) /\ (i - 1) + 1 = i
    BY ONLY i \in DOMAIN r, i # 1, <1>1, <1>2
  <2>2. z[i - 1] = r[(i - 1) + 1]
    BY <1>3, <2>1
  <2> QED  BY <2>1, <2>2, <1>4
<1>8. ASSUME \A i, j \in DOMAIN r : r[i] = r[j] => i = j
      PROVE  /\ \A i, j \in DOMAIN z : z[i] = z[j] => i = j
             /\ \A j \in DOMAIN z : z[j] # q
  <2>1. \A j \in DOMAIN z : z[j] # q
    BY <1>3, <1>5, <1>6, <1>8
  <2>2. ASSUME NEW i \in DOMAIN z, NEW j \in DOMAIN z, z[i] = z[j] PROVE i = j
    <3>1. i + 1 = j + 1 /\ i \in Nat /\ j \in Nat
      BY <1>6, <1>8, <2>2
    <3> QED  BY ONLY <3>1
  <2> QED  BY <2>1, <2>2
<1> QED  BY <1>3, <1>5, <1>6, <1>7, <1>8

\* The process in the CPU was in READY: nobody enters memory or leaves it.
LEMMA PasoPlanificar ==
  ASSUME IInv, NEW t \in Hilos, Planificar(t)
  PROVE  /\ IInv' /\ EnMemoria' = EnMemoria /\ t \notin Ordenes
         /\ Queda(t, IF t = Despachador THEN "sin empezar" ELSE "fin",
                  hilos[t].luego, hilos[t].n, hilos[t].faltan)
<1> PICK pc : pc = IF t = Despachador THEN "sin empezar" ELSE "fin"
  OBVIOUS
<1>1. /\ hilos[t].pc = "pcp" /\ Pasa(t, pc)
      /\ IF lista_execute = Nadie /\ lista_ready # <<>>
         THEN /\ lista_execute' = Head(lista_ready)
              /\ lista_ready' = Tail(lista_ready)
         ELSE UNCHANGED <<lista_execute, lista_ready>>
      /\ UNCHANGED <<pausaVars, lista_new, mutex_lista_new, terminados, gradoVars>>
  BY DEF Planificar, En
<1>2. t \notin Ordenes /\ pc \in Pcs
  BY <1>1, ClaseDe DEF DeOrden, Pcs
<1>3. Queda(t, pc, hilos[t].luego, hilos[t].n, hilos[t].faltan)
  BY <1>1, <1>2, ClaseDe, AlPasar
<1>4. Mueve(t)
  BY <1>1, <1>2, <1>3, Clase, ClaseDe DEF Mueve, Queda, DeProceso, DeDespacho
<1>5. t \in HilosDeProcesos => /\ Aguarda(hilos'[t]) <=> Aguarda(hilos[t])
                               /\ hilos'[t].pc \notin {"sin empezar", "nuevo"}
  BY <1>1, <1>3, Clase DEF Queda, Aguarda
<1>6. CASE ~(lista_execute = Nadie /\ lista_ready # <<>>)
  <2>1. UNCHANGED <<lista_new, lista_ready, lista_execute>>
    BY <1>1, <1>6
  <2>2. ConsolaTypeOK'
    BY <1>1, <1>3, <2>1, ClaseDe DEF ConsolaTypeOK, Queda, HTipo, pausaVars, gradoVars
  <2>3. IInv' /\ EnMemoria' = EnMemoria
    BY <1>4, <1>5, <2>1, <2>2, SoloHilos
  <2> QED  BY <1>2, <1>3, <2>3
<1>7. CASE lista_execute = Nadie /\ lista_ready # <<>>
  <2> PICK r, z, q, s : /\ r = lista_ready /\ z = Tail(lista_ready) /\ q = Head(lista_ready)
                        /\ s = lista_new
    OBVIOUS
  <2>1. /\ r \in Seq(Procesos) /\ r # <<>> /\ z = Tail(r) /\ q = Head(r)
        /\ s \in Seq(Procesos)
    <3>1. lista_ready \in Seq(Procesos) /\ lista_new \in Seq(Procesos)
      BY DEF IInv, ConsolaTypeOK
    <3> QED  BY <1>7, <3>1
  <2>2. /\ lista_ready' = z /\ lista_execute' = q /\ lista_new' = s
    BY <1>1, <1>7
  <2>3. /\ q \in Procesos /\ 1 \in DOMAIN r /\ r[1] = q /\ z \in Seq(Procesos)
        /\ \A i \in DOMAIN r : r[i] = q \/ \E j \in DOMAIN z : r[i] = z[j]
        /\ \A j \in DOMAIN z : \E i \in DOMAIN r : r[i] = z[j]
        /\ (\A i, j \in DOMAIN r : r[i] = r[j] => i = j) =>
             /\ \A i, j \in DOMAIN z : z[i] = z[j] => i = j
             /\ \A j \in DOMAIN z : z[j] # q
    BY ONLY <2>1, Cola
  <2>4. ConsolaTypeOK'
    BY <1>1, <1>3, <2>1, <2>2, <2>3, ClaseDe DEF ConsolaTypeOK, Queda, HTipo, pausaVars, gradoVars
  <2>5. Clases'
    BY <1>4, MueveClases DEF IInv
  <2>6. UnoPorHilo'
    <3>1. \A u \in HilosDeProcesos : Aguarda(hilos'[u]) <=> Aguarda(hilos[u])
      BY <1>3, <1>5, Clase DEF Queda
    <3>2. Aguardan' = Aguardan
      BY <3>1 DEF Aguardan
    <3> QED  BY <3>2, <1>1 DEF IInv, UnoPorHilo
  <2>8. EnMemoria' = EnMemoria
    <3>1. \A p : (\E i \in DOMAIN r : r[i] = p) <=> (p = q \/ \E i \in DOMAIN z : z[i] = p)
      <4>1. ASSUME NEW p, \E i \in DOMAIN r : r[i] = p
            PROVE  p = q \/ \E i \in DOMAIN z : z[i] = p
        <5> PICK i \in DOMAIN r : r[i] = p
          BY <4>1
        <5>1. r[i] = q \/ \E j \in DOMAIN z : r[i] = z[j]
          BY <2>3
        <5> QED  BY <5>1
      <4>2. ASSUME NEW p, p = q \/ \E i \in DOMAIN z : z[i] = p
            PROVE  \E i \in DOMAIN r : r[i] = p
        BY ONLY <2>3, <4>2, Zenon
      <4> QED  BY <4>1, <4>2
    <3>2. EnMemoria = {p \in Procesos : \E i \in DOMAIN r : r[i] = p}
      BY <1>7, Constantes DEF EnMemoria
    <3>3. EnMemoria' = {p \in Procesos : p = q \/ \E i \in DOMAIN z : z[i] = p}
      BY <2>2 DEF EnMemoria
    <3> QED  BY <3>1, <3>2, <3>3
  <2>9. Repartidos'
    <3>1. /\ \A i, j \in DOMAIN s : s[i] = s[j] => i = j
          /\ \A i, j \in DOMAIN r : r[i] = r[j] => i = j
          /\ \A i \in DOMAIN s : s[i] \notin EnMemoria
      BY DEF IInv, Repartidos
    <3>2. \A i, j \in DOMAIN z : z[i] = z[j] => i = j
      BY <2>3, <3>1
    <3>3. \A i \in DOMAIN z : z[i] # q
      BY <2>3, <3>1
    <3>4. ASSUME NEW p \in Procesos, p \in EnMemoria \/ \E i \in DOMAIN s : s[i] = p
          PROVE  hilos'[<<"proceso", p>>].pc \notin {"sin empezar", "nuevo"}
      <4> PICK u : u = <<"proceso", p>>
        OBVIOUS
      <4>1. u \in Hilos /\ u \in HilosDeProcesos
        BY DEF Hilos, HilosDeProcesos
      <4>2. hilos[u].pc \notin {"sin empezar", "nuevo"}
        BY <3>4 DEF IInv, Repartidos
      <4> QED  BY <4>1, <4>2, <1>3, <1>5 DEF Queda
    <3> QED  BY <2>2, <2>8, <3>1, <3>2, <3>3, <3>4 DEF Repartidos
  <2>10. IInv'
    BY <2>4, <2>5, <2>6, <2>9 DEF IInv
  <2> QED  BY <1>2, <1>3, <2>8, <2>10
<1> QED  BY <1>6, <1>7

LEMMA PasoSalir ==
  ASSUME IInv, Salir
  PROVE  /\ IInv' /\ hilos[Despachador].pc = "sin empezar"
         /\ Queda(Despachador, "pausador", "pcp", hilos[Despachador].n,
                  hilos[Despachador].faltan)
         /\ \E q \in EnMemoria : EnMemoria' = EnMemoria \ {q}
<1> PICK t, luego : t = Despachador /\ luego = "pcp"
  OBVIOUS
<1>1. /\ hilos[t].pc = "sin empezar" /\ LlamaPausador(t, luego)
      /\ lista_execute # Nadie /\ lista_execute' = Nadie
      /\ terminados' = terminados \union {lista_execute}
      /\ sem_procesos_en_memoria' = sem_procesos_en_memoria + 1
      /\ UNCHANGED <<pausaVars, lista_new, mutex_lista_new, lista_ready,
                     GRADO_MULTIPROGRAMACION>>
  BY DEF Salir, En
<1>2. t \in Hilos /\ t = Despachador /\ t \notin HilosDeProcesos /\ luego \in Pcs
  BY Clase DEF Pcs
<1>3. Queda(t, "pausador", luego, hilos[t].n, hilos[t].faltan)
  BY <1>1, <1>2, ClaseDe, AlLlamar
<1>4. Mueve(t)
  BY <1>2, <1>3, Clase DEF Mueve, Queda, DeDespacho
<1>5. Clases'
  BY <1>2, <1>4, MueveClases DEF IInv
<1> PICK q : q = lista_execute
  OBVIOUS
<1>6. q \in Procesos /\ q \in EnMemoria
  <2>1. lista_execute \in Procesos \union {Nadie}
    BY DEF IInv, ConsolaTypeOK
  <2> QED  BY <1>1, <2>1 DEF EnMemoria
<1>7. ConsolaTypeOK'
  <2>1. ConsolaTypeOK
    BY DEF IInv
  <2>2. sem_procesos_en_memoria' \in Nat
    <3>1. sem_procesos_en_memoria \in Nat
      BY <2>1 DEF ConsolaTypeOK
    <3>2. sem_procesos_en_memoria' = sem_procesos_en_memoria + 1
      BY <1>1
    <3> QED  BY ONLY <3>1, <3>2
  <2>3. hilos' \in HTipo
    BY <1>3 DEF Queda
  <2> QED  BY <2>1, <2>2, <2>3, <1>1, <1>6 DEF ConsolaTypeOK, HTipo, pausaVars
<1>8. UnoPorHilo'
  <2>1. \A u \in HilosDeProcesos : hilos'[u] = hilos[u]
    BY <1>2, <1>3, Clase DEF Queda
  <2>2. Aguardan' = Aguardan
    BY <2>1 DEF Aguardan
  <2> QED  BY <2>2, <1>1 DEF IInv, UnoPorHilo
<1>9. \A i \in DOMAIN lista_ready : lista_ready[i] # q
  BY DEF IInv, Repartidos
<1>10. EnMemoria' = EnMemoria \ {q}
  <2>1. EnMemoria = {p \in Procesos : p = q \/ \E i \in DOMAIN lista_ready : lista_ready[i] = p}
    BY DEF EnMemoria
  <2>2. EnMemoria' = {p \in Procesos : \E i \in DOMAIN lista_ready : lista_ready[i] = p}
    BY <1>1, Constantes DEF EnMemoria
  <2> QED  BY <2>1, <2>2, <1>9
<1>11. Repartidos'
  <2>1. \A i \in DOMAIN lista_ready : lista_ready[i] # Nadie
    <3>1. \A i \in DOMAIN lista_ready : lista_ready[i] \in Procesos
      <4>1. lista_ready \in Seq(Procesos)
        BY DEF IInv, ConsolaTypeOK
      <4> QED  BY <4>1, ElementOfSeq
    <3> QED  BY <3>1, Constantes
  <2>2. \A p \in Procesos : hilos'[<<"proceso", p>>] = hilos[<<"proceso", p>>]
    <3> SUFFICES ASSUME NEW p \in Procesos, NEW u, u = <<"proceso", p>>
                 PROVE  hilos'[u] = hilos[u]
      OBVIOUS
    <3>1. u \in HilosDeProcesos
      BY DEF HilosDeProcesos
    <3> QED  BY <3>1, <1>2, <1>3, Clase DEF Queda
  <2> QED  BY <2>1, <2>2, <1>1, <1>10 DEF IInv, Repartidos
<1>12. IInv'
  BY <1>5, <1>7, <1>8, <1>11 DEF IInv
<1> QED  BY <1>1, <1>2, <1>3, <1>6, <1>10, <1>12

-----------------------------------------------------------------------------
(* Types, and the invariant the other theorems rest on *)

LEMMA IInvInicial == Init => IInv
<1> SUFFICES ASSUME Init PROVE IInv
  OBVIOUS
<1>1. \A t \in Hilos : /\ hilos[t] = Hilo("sin empezar")
                       /\ hilos[t].pc = "sin empezar" /\ hilos[t].luego = "fin"
  BY DEF Init, Hilo
<1>2. ConsolaTypeOK
  <2>1. Hilo("sin empezar") \in [pc: Pcs, luego: Pcs, n: 0..MaxGrado,
                                 faltan: (-MaxGrado)..MaxGrado]
    BY Constantes DEF Hilo, Pcs
  <2>2. hilos \in [Hilos -> [pc: Pcs, luego: Pcs, n: 0..MaxGrado,
                             faltan: (-MaxGrado)..MaxGrado]]
    BY <2>1 DEF Init
  <2>3. << >> \in Seq(Procesos)
    BY EmptySeq
  <2>4. GradoInicial \in Nat /\ GradoInicial \in 1..MaxGrado
    BY Constantes
  <2> QED  BY <2>2, <2>3, <2>4 DEF Init, ConsolaTypeOK
<1>3. Clases
  BY <1>1, Clase DEF Clases, DeOrden, DeProceso, DeDespacho
<1>4. UnoPorHilo
  <2>1. Aguardan = {}
    BY <1>1, Clase DEF Aguardan, Aguarda
  <2>2. Len(lista_new) = 0
    BY EmptySeq DEF Init
  <2> QED  BY <2>1, <2>2, FS_EmptySet DEF UnoPorHilo
<1>5. Repartidos
  <2>1. DOMAIN lista_new = {} /\ DOMAIN lista_ready = {}
    <3>1. DOMAIN << >> = {}
      OBVIOUS
    <3> QED  BY <3>1 DEF Init
  <2>2. EnMemoria = {}
    BY <2>1, Constantes DEF Init, EnMemoria
  <2> QED  BY <2>1, <2>2 DEF Repartidos
<1> QED  BY <1>2, <1>3, <1>4, <1>5 DEF IInv

LEMMA Quieto ==
  ASSUME UNCHANGED vars
  PROVE  /\ UNCHANGED <<var_pausa, sem_pausa, mutex_pausa, sem_procesos_en_memoria,
                        GRADO_MULTIPROGRAMACION, lista_new, mutex_lista_new, lista_ready,
                        lista_execute, terminados, hilos>>
         /\ EnMemoria' = EnMemoria
<1>1. UNCHANGED <<var_pausa, sem_pausa, mutex_pausa, sem_procesos_en_memoria,
                  GRADO_MULTIPROGRAMACION, lista_new, mutex_lista_new, lista_ready,
                  lista_execute, terminados, hilos>>
  BY DEF vars, pausaVars, planVars, gradoVars
<1> QED  BY <1>1 DEF EnMemoria

\* What a step is, with the thread that takes it
LEMMA Pasos ==
  ASSUME [Next]_vars
  PROVE  \/ \E p \in Procesos : IniciarProceso(p) \/ Nuevo(p)
         \/ \E t \in Ordenes : \/ \E pc \in {"detener", "iniciar"} : OrdenarPausa(t, pc)
                               \/ \E n \in 0..MaxGrado : OrdenarGrado(t, n)
         \/ \E t \in Hilos : Avanza(t)
         \/ Salir
         \/ UNCHANGED vars
<1>1. \A p \in Procesos : <<"proceso", p>> \in Hilos
  BY DEF Hilos, HilosDeProcesos
<1>2. Ordenes \subseteq Hilos /\ Despachador \in Hilos
  BY DEF Hilos
<1>3. CASE Ordenar
  BY <1>3 DEF Ordenar
<1>4. CASE \E p \in Procesos : AvanzaProceso(p)
  <2> PICK p \in Procesos : AvanzaProceso(p)
    BY <1>4
  <2> QED  BY <1>1 DEF AvanzaProceso
<1>5. CASE \E t \in Ordenes : Avanza(t)
  BY <1>2, <1>5
<1>6. CASE AvanzaDespachador
  BY <1>2, <1>6 DEF AvanzaDespachador
<1> QED  BY <1>3, <1>4, <1>5, <1>6 DEF Next

LEMMA IInvInductivo == IInv /\ [Next]_vars => IInv'
<1> SUFFICES ASSUME IInv, [Next]_vars PROVE IInv'
  OBVIOUS
<1>1. ASSUME NEW p \in Procesos, IniciarProceso(p) \/ Nuevo(p) PROVE IInv'
  BY <1>1, PasoIniciarProceso, PasoNuevo
<1>2. ASSUME NEW t \in Ordenes, NEW pc \in {"detener", "iniciar"}, OrdenarPausa(t, pc)
      PROVE  IInv'
  BY <1>2, PasoOrdenarPausa
<1>3. ASSUME NEW t \in Ordenes, NEW n \in 0..MaxGrado, OrdenarGrado(t, n) PROVE IInv'
  BY <1>3, PasoOrdenarGrado
<1>4. ASSUME NEW t \in Hilos, Avanza(t) PROVE IInv'
  <2>1. CASE PasarPausador(t) \/ Detenerse(t) \/ Despertar(t)
    BY <2>1, PasoPasarPausador, PasoDetenerse, PasoDespertar
  <2>2. CASE Detener(t) \/ Pausar(t) \/ Iniciar(t) \/ Reanudar(t) \/ Avisar(t)
    BY <2>2, PasoDetener, PasoPausar, PasoIniciar, PasoReanudar, PasoAvisar
  <2>3. CASE LeerGrado(t) \/ PonerCupo(t) \/ SacarCupo(t) \/ FijarGrado(t)
    BY <2>3, PasoLeerGrado, PasoUnCupo, PasoFijarGrado
  <2>4. CASE TomarNew(t) \/ Admitir(t) \/ Planificar(t)
    BY <2>4, PasoTomarNew, PasoAdmitir, PasoPlanificar
  <2> QED  BY <1>4, <2>1, <2>2, <2>3, <2>4 DEF Avanza
<1>5. ASSUME UNCHANGED vars PROVE IInv'
  BY <1>5, Quieto DEF IInv, ConsolaTypeOK, Clases, UnoPorHilo, Aguardan, Repartidos
<1> QED  BY <1>1, <1>2, <1>3, <1>4, <1>5, PasoSalir, Pasos

\* Every variable keeps its type, whatever the commands do: no semaphore goes
\* below zero, nobody takes a process from an empty NEW, and the slots still
\* to move never exceed the largest degree.
THEOREM ConsolaTipos == Spec => []ConsolaTypeOK
<1>1. IInv => ConsolaTypeOK
  BY DEF IInv
<1> QED  BY <1>1, IInvInicial, IInvInductivo, PTL DEF Spec

-----------------------------------------------------------------------------
(* The slots, with one change of degree at a time *)

DeGrado == {"leer grado", "ajustar"}

\* A step that changes no degree may move a slot, if it moves a process too.
LEMMA AlDiaAparte ==
  ASSUME AlDia, NEW t \in Hilos, NEW pc, NEW luego, NEW n, NEW faltan,
         Queda(t, pc, luego, n, faltan),
         t \in Ordenes => hilos[t].pc \notin DeGrado /\ pc \notin DeGrado,
         IsFiniteSet(EnMemoria'), Ocupados' = Ocupados,
         GRADO_MULTIPROGRAMACION' = GRADO_MULTIPROGRAMACION
  PROVE  AlDia'
<1>1. \A u \in Ordenes : /\ hilos'[u].pc \in DeGrado <=> hilos[u].pc \in DeGrado
                         /\ hilos[u].pc \in DeGrado => hilos'[u] = hilos[u]
  BY Clase DEF Queda
<1>2. CambiosEnCurso' = CambiosEnCurso
  BY <1>1 DEF CambiosEnCurso, DeGrado
<1>3. \A u \in Ordenes : /\ En(u, "ajustar")' <=> En(u, "ajustar")
                         /\ En(u, "ajustar") => hilos'[u] = hilos[u]
  BY <1>1 DEF En, DeGrado
<1> QED  BY <1>2, <1>3 DEF AlDia

\* ... in particular one that moves neither
LEMMA AlDiaIgual ==
  ASSUME AlDia, NEW t \in Hilos, NEW pc, NEW luego, NEW n, NEW faltan,
         Queda(t, pc, luego, n, faltan),
         t \in Ordenes => hilos[t].pc \notin DeGrado /\ pc \notin DeGrado,
         EnMemoria' = EnMemoria, UNCHANGED gradoVars
  PROVE  AlDia'
<1>1. IsFiniteSet(EnMemoria')
  BY DEF AlDia
<1>2. Ocupados' = Ocupados /\ GRADO_MULTIPROGRAMACION' = GRADO_MULTIPROGRAMACION
  BY DEF Ocupados, gradoVars
<1> QED  BY <1>1, <1>2, AlDiaAparte

\* Threads that a command of pause or a process moves
LEMMA AlDiaHilos ==
  ASSUME IInv, AlDia, NEW t \in Hilos,
         \/ PasarPausador(t) \/ Detenerse(t) \/ Despertar(t)
         \/ Detener(t) \/ Pausar(t) \/ Iniciar(t) \/ Reanudar(t) \/ Avisar(t)
         \/ TomarNew(t) \/ Planificar(t)
  PROVE  AlDia'
<1> USE DEF DeGrado
<1>1. CASE PasarPausador(t)
  <2> PICK pc, n, faltan : pc = hilos[t].luego /\ n = hilos[t].n /\ faltan = hilos[t].faltan
    OBVIOUS
  <2>1. Queda(t, pc, pc, n, faltan) /\ EnMemoria' = EnMemoria /\ UNCHANGED gradoVars
    BY <1>1, PasoPasarPausador DEF PasarPausador
  <2>2. t \in Ordenes => hilos[t].pc \notin DeGrado /\ pc \notin DeGrado
    BY <1>1, ClaseDe DEF PasarPausador, En, DeOrden
  <2> QED  BY <2>1, <2>2, AlDiaIgual
<1>2. CASE Detenerse(t)
  <2> PICK pc, luego, n, faltan : /\ pc = "esperar" /\ luego = hilos[t].luego
                                  /\ n = hilos[t].n /\ faltan = hilos[t].faltan
    OBVIOUS
  <2>1. Queda(t, pc, luego, n, faltan) /\ EnMemoria' = EnMemoria /\ UNCHANGED gradoVars
    BY <1>2, PasoDetenerse DEF Detenerse
  <2>2. hilos[t].pc \notin DeGrado /\ pc \notin DeGrado
    BY <1>2 DEF Detenerse, En
  <2> QED  BY <2>1, <2>2, AlDiaIgual
<1>3. CASE Despertar(t)
  <2> PICK pc, n, faltan : pc = hilos[t].luego /\ n = hilos[t].n /\ faltan = hilos[t].faltan
    OBVIOUS
  <2>1. Queda(t, pc, pc, n, faltan) /\ EnMemoria' = EnMemoria /\ UNCHANGED gradoVars
    BY <1>3, PasoDespertar DEF Despertar
  <2>2. t \in Ordenes => hilos[t].pc \notin DeGrado /\ pc \notin DeGrado
    BY <1>3, ClaseDe DEF Despertar, En, DeOrden
  <2> QED  BY <2>1, <2>2, AlDiaIgual
<1>4. CASE Detener(t)
  <2> PICK pc, luego, n, faltan : /\ pc = IF var_pausa = 1 THEN "fin" ELSE "pausar"
                                  /\ luego = hilos[t].luego
                                  /\ n = hilos[t].n /\ faltan = hilos[t].faltan
    OBVIOUS
  <2>1. Queda(t, pc, luego, n, faltan) /\ EnMemoria' = EnMemoria /\ UNCHANGED gradoVars
    BY <1>4, PasoDetener DEF Detener
  <2>2. hilos[t].pc \notin DeGrado /\ pc \notin DeGrado
    BY <1>4 DEF Detener, En
  <2> QED  BY <2>1, <2>2, AlDiaIgual
<1>5. CASE Pausar(t)
  <2> PICK pc, luego, n, faltan : /\ pc = "pausador" /\ luego = hilos[t].luego
                                  /\ n = hilos[t].n /\ faltan = hilos[t].faltan
    OBVIOUS
  <2>1. Queda(t, pc, luego, n, faltan) /\ EnMemoria' = EnMemoria /\ UNCHANGED gradoVars
    BY <1>5, PasoPausar DEF Pausar
  <2>2. hilos[t].pc \notin DeGrado /\ pc \notin DeGrado
    BY <1>5 DEF Pausar, En
  <2> QED  BY <2>1, <2>2, AlDiaIgual
<1>6. CASE Iniciar(t)
  <2> PICK pc, luego, n, faltan : /\ pc = IF var_pausa = 0 THEN "fin" ELSE "reanudar"
                                  /\ luego = hilos[t].luego
                                  /\ n = hilos[t].n /\ faltan = hilos[t].faltan
    OBVIOUS
  <2>1. Queda(t, pc, luego, n, faltan) /\ EnMemoria' = EnMemoria /\ UNCHANGED gradoVars
    BY <1>6, PasoIniciar DEF Iniciar
  <2>2. hilos[t].pc \notin DeGrado /\ pc \notin DeGrado
    BY <1>6 DEF Iniciar, En
  <2> QED  BY <2>1, <2>2, AlDiaIgual
<1>7. CASE Reanudar(t)
  <2> PICK pc, luego, n, faltan : /\ pc = "avisar" /\ luego = hilos[t].luego
                                  /\ n = hilos[t].n /\ faltan = hilos[t].faltan
    OBVIOUS
  <2>1. Queda(t, pc, luego, n, faltan) /\ EnMemoria' = EnMemoria /\ UNCHANGED gradoVars
    BY <1>7, PasoReanudar DEF Reanudar
  <2>2. hilos[t].pc \notin DeGrado /\ pc \notin DeGrado
    BY <1>7 DEF Reanudar, En
  <2> QED  BY <2>1, <2>2, AlDiaIgual
<1>8. CASE Avisar(t)
  <2> PICK pc, luego, n, faltan : /\ pc = "fin" /\ luego = hilos[t].luego
                                  /\ n = hilos[t].n /\ faltan = hilos[t].faltan
    OBVIOUS
  <2>1. Queda(t, pc, luego, n, faltan) /\ EnMemoria' = EnMemoria /\ UNCHANGED gradoVars
    BY <1>8, PasoAvisar DEF Avisar
  <2>2. hilos[t].pc \notin DeGrado /\ pc \notin DeGrado
    BY <1>8 DEF Avisar, En
  <2> QED  BY <2>1, <2>2, AlDiaIgual
<1>9. CASE TomarNew(t)
  <2> PICK pc, luego, n, faltan : /\ pc = "plp_cupo" /\ luego = hilos[t].luego
                                  /\ n = hilos[t].n /\ faltan = hilos[t].faltan
    OBVIOUS
  <2>1. Queda(t, pc, luego, n, faltan) /\ EnMemoria' = EnMemoria /\ UNCHANGED gradoVars
    BY <1>9, PasoTomarNew DEF TomarNew
  <2>2. hilos[t].pc \notin DeGrado /\ pc \notin DeGrado
    BY <1>9 DEF TomarNew, En
  <2> QED  BY <2>1, <2>2, AlDiaIgual
<1>10. CASE Planificar(t)
  <2> PICK pc, luego, n, faltan : /\ pc = IF t = Despachador THEN "sin empezar" ELSE "fin"
                                  /\ luego = hilos[t].luego
                                  /\ n = hilos[t].n /\ faltan = hilos[t].faltan
    OBVIOUS
  <2>1. Queda(t, pc, luego, n, faltan) /\ EnMemoria' = EnMemoria /\ UNCHANGED gradoVars
    BY <1>10, PasoPlanificar DEF Planificar
  <2>2. hilos[t].pc \notin DeGrado /\ pc \notin DeGrado
    BY <1>10 DEF Planificar, En
  <2> QED  BY <2>1, <2>2, AlDiaIgual
<1> QED  BY <1>1, <1>2, <1>3, <1>4, <1>5, <1>6, <1>7, <1>8, <1>9, <1>10

LEMMA AlDiaOrdenes ==
  ASSUME IInv, AlDia, NEW t \in Ordenes, NEW pc \in {"detener", "iniciar"}, OrdenarPausa(t, pc)
  PROVE  AlDia'
<1> PICK luego, n, faltan : /\ luego = hilos[t].luego
                            /\ n = hilos[t].n /\ faltan = hilos[t].faltan
  OBVIOUS
<1>1. Queda(t, pc, luego, n, faltan) /\ EnMemoria' = EnMemoria /\ UNCHANGED gradoVars
  BY PasoOrdenarPausa DEF OrdenarPausa
<1>2. hilos[t].pc \notin DeGrado /\ pc \notin DeGrado /\ t \in Hilos
  BY Clase DEF OrdenarPausa, EsLaProxima, En, DeGrado
<1> QED  BY <1>1, <1>2, AlDiaIgual

LEMMA AlDiaProcesos ==
  ASSUME IInv, AlDia, NEW p \in Procesos, IniciarProceso(p) \/ Nuevo(p)
  PROVE  AlDia'
<1> PICK t : t = <<"proceso", p>>
  OBVIOUS
<1> PICK luego, n, faltan : /\ luego = hilos[t].luego
                            /\ n = hilos[t].n /\ faltan = hilos[t].faltan
  OBVIOUS
<1>1. t \in Hilos /\ t \notin Ordenes
  BY Clase DEF HilosDeProcesos
<1>2. CASE IniciarProceso(p)
  <2>1. Queda(t, "nuevo", luego, n, faltan) /\ EnMemoria' = EnMemoria /\ UNCHANGED gradoVars
    BY <1>2, PasoIniciarProceso DEF IniciarProceso
  <2> QED  BY <1>1, <2>1, AlDiaIgual
<1>3. CASE Nuevo(p)
  <2>1. Queda(t, "pausador", "plp", n, faltan) /\ EnMemoria' = EnMemoria /\ UNCHANGED gradoVars
    BY <1>3, PasoNuevo DEF Nuevo
  <2> QED  BY <1>1, <2>1, AlDiaIgual
<1> QED  BY <1>2, <1>3

\* A slot for a process, and back
LEMMA AlDiaAdmitir ==
  ASSUME IInv, AlDia, NEW t \in Hilos, Admitir(t)
  PROVE  AlDia'
<1> PICK luego, n, faltan, E : /\ luego = "pcp" /\ E = EnMemoria
                               /\ n = hilos[t].n /\ faltan = hilos[t].faltan
  OBVIOUS
<1>1. t \notin Ordenes /\ Queda(t, "pausador", luego, n, faltan)
  BY PasoAdmitir, Clase
<1>2. PICK q \in Procesos \ E : EnMemoria' = E \union {q}
  BY PasoAdmitir
<1>3. IsFiniteSet(E) /\ q \notin E
  BY <1>2 DEF AlDia
<1>4. /\ IsFiniteSet(E \union {q}) /\ Cardinality(E) \in Nat
      /\ Cardinality(E \union {q}) = Cardinality(E) + 1
  BY <1>3, FS_AddElement, FS_CardinalityType
<1>5. /\ sem_procesos_en_memoria \in Nat
      /\ sem_procesos_en_memoria' = sem_procesos_en_memoria - 1
      /\ GRADO_MULTIPROGRAMACION' = GRADO_MULTIPROGRAMACION
  BY DEF IInv, ConsolaTypeOK, Admitir
<1>6. Ocupados' = Ocupados
  <2>1. Ocupados = sem_procesos_en_memoria + Cardinality(E)
    BY DEF Ocupados
  <2>2. Ocupados' = sem_procesos_en_memoria' + Cardinality(E \union {q})
    BY <1>2 DEF Ocupados
  <2> QED  BY ONLY <1>4, <1>5, <2>1, <2>2
<1> QED  BY <1>1, <1>2, <1>4, <1>5, <1>6, AlDiaAparte

LEMMA AlDiaSalir ==
  ASSUME IInv, AlDia, Salir
  PROVE  AlDia'
<1> PICK t, luego, n, faltan, E : /\ t = Despachador /\ luego = "pcp" /\ E = EnMemoria
                                  /\ n = hilos[t].n /\ faltan = hilos[t].faltan
  OBVIOUS
<1>1. t \in Hilos /\ t \notin Ordenes /\ Queda(t, "pausador", luego, n, faltan)
  BY PasoSalir, Clase
<1>2. PICK q \in E : EnMemoria' = E \ {q}
  BY PasoSalir
<1>3. IsFiniteSet(E)
  BY DEF AlDia
<1>4. /\ IsFiniteSet(E \ {q}) /\ Cardinality(E) \in Nat
      /\ Cardinality(E \ {q}) = Cardinality(E) - 1
  BY <1>2, <1>3, FS_RemoveElement, FS_CardinalityType
<1>5. /\ sem_procesos_en_memoria \in Nat
      /\ sem_procesos_en_memoria' = sem_procesos_en_memoria + 1
      /\ GRADO_MULTIPROGRAMACION' = GRADO_MULTIPROGRAMACION
  BY DEF IInv, ConsolaTypeOK, Salir
<1>6. Ocupados' = Ocupados
  <2>1. Ocupados = sem_procesos_en_memoria + Cardinality(E)
    BY DEF Ocupados
  <2>2. Ocupados' = sem_procesos_en_memoria' + Cardinality(E \ {q})
    BY <1>2 DEF Ocupados
  <2> QED  BY ONLY <1>4, <1>5, <2>1, <2>2
<1> QED  BY <1>1, <1>2, <1>4, <1>5, <1>6, AlDiaAparte

\* A command starts to change the degree when no other one is at it.
LEMMA AlDiaOrdenarGrado ==
  ASSUME IInv, AlDia, "A LA VEZ" \notin Casos,
         NEW t \in Ordenes, NEW n \in 0..MaxGrado, OrdenarGrado(t, n)
  PROVE  AlDia'
<1>1. Queda(t, "leer grado", hilos[t].luego, n, hilos[t].faltan) /\ EnMemoria' = EnMemoria
  BY PasoOrdenarGrado
<1>2. CambiosEnCurso = {} /\ UNCHANGED gradoVars
  BY DEF OrdenarGrado
<1>3. \A u \in Ordenes : hilos[u].pc \notin DeGrado
  BY <1>2 DEF CambiosEnCurso, DeGrado
<1>4. \A u \in Ordenes : hilos'[u].pc \in DeGrado => u = t
  BY <1>1, <1>3, Clase DEF Queda
<1>5. \A u \in Ordenes : hilos'[u].pc # "ajustar" /\ hilos[u].pc # "ajustar"
  BY <1>1, <1>3, <1>4 DEF Queda, DeGrado
<1>6. \A u, v \in CambiosEnCurso' : u = v
  BY <1>4 DEF CambiosEnCurso, DeGrado
<1>7. Ocupados = GRADO_MULTIPROGRAMACION /\ Ocupados' = Ocupados
  BY <1>1, <1>2, <1>5 DEF AlDia, En, Ocupados, gradoVars
<1> QED  BY <1>1, <1>2, <1>5, <1>6, <1>7 DEF AlDia, En, gradoVars

\* The numbers are integers.
LEMMA Enteros ==
  ASSUME ConsolaTypeOK
  PROVE  /\ GRADO_MULTIPROGRAMACION \in Int /\ sem_procesos_en_memoria \in Int
         /\ \A t \in Hilos : hilos[t].n \in Int /\ hilos[t].faltan \in Int
<1>1. GRADO_MULTIPROGRAMACION \in 1..MaxGrado /\ sem_procesos_en_memoria \in Nat
  BY DEF ConsolaTypeOK
<1>2. \A t \in Hilos : hilos[t].n \in 0..MaxGrado /\ hilos[t].faltan \in (-MaxGrado)..MaxGrado
  BY HiloTipo
<1>3. /\ GRADO_MULTIPROGRAMACION \in Int /\ sem_procesos_en_memoria \in Int
  BY <1>1
<1>4. \A t \in Hilos : hilos[t].n \in Int /\ hilos[t].faltan \in Int
  BY <1>2
<1> QED  BY <1>3, <1>4

\* The only command at a change of degree, and where the others are
LEMMA UnicoCambio ==
  ASSUME AlDia, NEW t \in Ordenes, hilos[t].pc \in DeGrado,
         NEW pc, NEW luego, NEW n, NEW faltan, Queda(t, pc, luego, n, faltan)
  PROVE  /\ \A u \in Ordenes \ {t} : hilos[u].pc \notin DeGrado /\ hilos'[u].pc \notin DeGrado
         /\ \A u, v \in CambiosEnCurso' : u = v
<1>1. \A u \in Ordenes : hilos[u].pc \in DeGrado => u = t
  BY DEF AlDia, CambiosEnCurso, DeGrado
<1>2. \A u \in Ordenes \ {t} : hilos[u].pc \notin DeGrado /\ hilos'[u].pc \notin DeGrado
  BY <1>1, Clase DEF Queda
<1> QED  BY <1>2 DEF CambiosEnCurso, DeGrado

LEMMA AlDiaLeerGrado ==
  ASSUME IInv, AlDia, NEW t \in Hilos, LeerGrado(t)
  PROVE  AlDia'
<1>1. t \in Ordenes /\ EnMemoria' = EnMemoria /\ hilos[t].pc = "leer grado"
      /\ UNCHANGED gradoVars
  BY PasoLeerGrado DEF LeerGrado, En
<1>2. Ocupados' = Ocupados /\ GRADO_MULTIPROGRAMACION' = GRADO_MULTIPROGRAMACION
      /\ IsFiniteSet(EnMemoria')
  BY <1>1 DEF Ocupados, gradoVars, AlDia
<1> PICK luego, n, faltan, g : /\ luego = hilos[t].luego /\ n = hilos[t].n
                               /\ faltan = hilos[t].faltan /\ g = GRADO_MULTIPROGRAMACION
  OBVIOUS
<1>3. n \in Int /\ g \in Int
  BY ClaseDe, HiloTipo, Constantes DEF ConsolaTypeOK
<1>4. CASE Queda(t, "fin", luego, n, faltan)
  <2>1. /\ \A u \in Ordenes \ {t} : hilos[u].pc \notin DeGrado /\ hilos'[u].pc \notin DeGrado
        /\ \A u, v \in CambiosEnCurso' : u = v
    BY <1>1, <1>4, UnicoCambio DEF DeGrado
  <2>2. \A u \in Ordenes : hilos'[u].pc # "ajustar" /\ hilos[u].pc # "ajustar"
    BY <2>1, <1>1, <1>4 DEF Queda, DeGrado
  <2>3. Ocupados = g
    BY <2>2 DEF AlDia, En
  <2> QED  BY <2>1, <2>2, <2>3, <1>2 DEF AlDia, En
<1>5. CASE Queda(t, "ajustar", luego, n, n - g)
  <2>1. /\ \A u \in Ordenes \ {t} : hilos[u].pc \notin DeGrado /\ hilos'[u].pc \notin DeGrado
        /\ \A u, v \in CambiosEnCurso' : u = v
    BY <1>1, <1>5, UnicoCambio DEF DeGrado
  <2>2. \A u \in Ordenes : hilos[u].pc # "ajustar"
    BY <2>1, <1>1 DEF DeGrado
  <2>3. Ocupados = g
    BY <2>2 DEF AlDia, En
  <2>4. hilos'[t].pc = "ajustar" /\ hilos'[t].n = n /\ hilos'[t].faltan = n - g
    BY <1>5 DEF Queda
  <2>5. Ocupados' = hilos'[t].n - hilos'[t].faltan
    BY <2>3, <2>4, <1>2, <1>3
  <2>6. \A u \in Ordenes : hilos'[u].pc = "ajustar" => u = t
    BY <2>1 DEF DeGrado
  <2> QED  BY <2>1, <2>4, <2>5, <2>6, <1>1, <1>2 DEF AlDia, En
<1> QED  BY <1>4, <1>5, PasoLeerGrado

\* Each slot moved is one less to move.
LEMMA AlDiaUnCupo ==
  ASSUME IInv, AlDia, NEW t \in Hilos, PonerCupo(t) \/ SacarCupo(t)
  PROVE  AlDia'
<1>1. t \in Ordenes /\ EnMemoria' = EnMemoria /\ hilos[t].pc = "ajustar"
      /\ IsFiniteSet(EnMemoria') /\ IsFiniteSet(EnMemoria)
  BY PasoUnCupo DEF AlDia
<1> PICK luego, n, faltan, E : /\ luego = hilos[t].luego /\ n = hilos[t].n
                               /\ faltan = hilos[t].faltan /\ E = EnMemoria
  OBVIOUS
<1>2. PICK mas \in {1, -1} : /\ Queda(t, "ajustar", luego, n, faltan - mas)
                             /\ sem_procesos_en_memoria' = sem_procesos_en_memoria + mas
  BY PasoUnCupo
<1>3. /\ n \in Int /\ faltan \in Int /\ mas \in Int /\ sem_procesos_en_memoria \in Int
      /\ Cardinality(E) \in Int
  <2>1. IsFiniteSet(E)
    BY <1>1
  <2>2. Cardinality(E) \in Nat
    BY <2>1, FS_CardinalityType
  <2> QED  BY <2>2, ClaseDe, Enteros
<1>4. Ocupados = n - faltan
  BY <1>1 DEF AlDia, En
<1>5. Ocupados' = n - (faltan - mas)
  <2>1. Ocupados = sem_procesos_en_memoria + Cardinality(E)
    BY DEF Ocupados
  <2>2. Ocupados' = (sem_procesos_en_memoria + mas) + Cardinality(E)
    BY <1>1, <1>2 DEF Ocupados
  <2> PICK o, c, d : o = Ocupados /\ c = Cardinality(E) /\ d = sem_procesos_en_memoria
    OBVIOUS
  <2>3. /\ n \in Int /\ faltan \in Int /\ mas \in Int /\ c \in Int /\ d \in Int
        /\ d + c = n - faltan
    BY <1>3, <1>4, <2>1
  <2>4. (d + mas) + c = n - (faltan - mas)
    BY ONLY <2>3
  <2> QED  BY <2>2, <2>4
<1>6. /\ \A u \in Ordenes \ {t} : hilos[u].pc \notin DeGrado /\ hilos'[u].pc \notin DeGrado
      /\ \A u, v \in CambiosEnCurso' : u = v
  BY <1>1, <1>2, UnicoCambio DEF DeGrado
<1>7. /\ hilos'[t].pc = "ajustar" /\ hilos'[t].n = n /\ hilos'[t].faltan = faltan - mas
  BY <1>2 DEF Queda
<1>8. \A u \in Ordenes : hilos'[u].pc = "ajustar" => u = t
  BY <1>6 DEF DeGrado
<1> QED  BY <1>1, <1>5, <1>6, <1>7, <1>8 DEF AlDia, En

\* The degree is set when there is nothing left to move.
LEMMA AlDiaFijarGrado ==
  ASSUME IInv, AlDia, NEW t \in Hilos, FijarGrado(t)
  PROVE  AlDia'
<1>1. t \in Ordenes /\ EnMemoria' = EnMemoria /\ hilos[t].pc = "ajustar"
      /\ hilos[t].faltan = 0
  BY PasoFijarGrado
<1> PICK luego, n, faltan : /\ luego = hilos[t].luego /\ n = hilos[t].n
                            /\ faltan = hilos[t].faltan
  OBVIOUS
<1>2. Queda(t, "fin", luego, n, faltan)
  BY PasoFijarGrado
<1>3. GRADO_MULTIPROGRAMACION' = n /\ Ocupados' = Ocupados /\ IsFiniteSet(EnMemoria')
  BY <1>1 DEF FijarGrado, Ocupados, AlDia
<1>4. Ocupados = n - faltan
  BY <1>1 DEF AlDia, En
<1>5. n \in Int /\ faltan = 0
  BY <1>1, Clase, ClaseDe, Enteros
<1>6. Ocupados' = GRADO_MULTIPROGRAMACION'
  BY <1>3, <1>4, <1>5
<1>7. /\ \A u \in Ordenes \ {t} : hilos[u].pc \notin DeGrado /\ hilos'[u].pc \notin DeGrado
      /\ \A u, v \in CambiosEnCurso' : u = v
  BY <1>1, <1>2, UnicoCambio DEF DeGrado
<1>8. \A u \in Ordenes : hilos'[u].pc # "ajustar"
  BY <1>2, <1>7 DEF Queda, DeGrado
<1> QED  BY <1>3, <1>6, <1>7, <1>8 DEF AlDia, En

LEMMA AlDiaInicial == Init => AlDia
<1> SUFFICES ASSUME Init PROVE AlDia
  OBVIOUS
<1>1. \A t \in Ordenes : hilos[t].pc = "sin empezar"
  BY Clase DEF Init, Hilo
<1>2. EnMemoria = {}
  <2>1. DOMAIN << >> = {}
    OBVIOUS
  <2> QED  BY <2>1, Constantes DEF Init, EnMemoria
<1>3. CambiosEnCurso = {}
  BY <1>1 DEF CambiosEnCurso
<1>4. IsFiniteSet({}) /\ Cardinality({}) = 0
  BY FS_EmptySet
<1>5. Ocupados = GRADO_MULTIPROGRAMACION
  <2>1. GradoInicial \in Int
    BY Constantes
  <2>2. Ocupados = GradoInicial + 0 /\ GRADO_MULTIPROGRAMACION = GradoInicial
    BY <1>2, <1>4 DEF Init, Ocupados
  <2> QED  BY <2>1, <2>2
<1> QED  BY <1>1, <1>2, <1>3, <1>4, <1>5 DEF AlDia, En

LEMMA AlDiaInductivo == "A LA VEZ" \notin Casos /\ IInv /\ AlDia /\ [Next]_vars => AlDia'
<1> SUFFICES ASSUME "A LA VEZ" \notin Casos, IInv, AlDia, [Next]_vars PROVE AlDia'
  OBVIOUS
<1>1. ASSUME NEW p \in Procesos, IniciarProceso(p) \/ Nuevo(p) PROVE AlDia'
  BY <1>1, AlDiaProcesos
<1>2. ASSUME NEW t \in Ordenes, NEW pc \in {"detener", "iniciar"}, OrdenarPausa(t, pc)
      PROVE  AlDia'
  BY <1>2, AlDiaOrdenes
<1>3. ASSUME NEW t \in Ordenes, NEW n \in 0..MaxGrado, OrdenarGrado(t, n) PROVE AlDia'
  BY <1>3, AlDiaOrdenarGrado
<1>4. ASSUME NEW t \in Hilos, Avanza(t) PROVE AlDia'
  BY <1>4, AlDiaHilos, AlDiaLeerGrado, AlDiaUnCupo, AlDiaFijarGrado, AlDiaAdmitir DEF Avanza
<1>5. ASSUME UNCHANGED vars PROVE AlDia'
  BY <1>5, Quieto DEF AlDia, CambiosEnCurso, En, Ocupados
<1> QED  BY <1>1, <1>2, <1>3, <1>4, <1>5, AlDiaSalir, Pasos

\* Slots and processes in memory add up to the degree at any point of a change
\* of degree, however it competes with admissions and ends, as long as there is
\* one MULTIPROGRAMACION under way at a time.
THEOREM ConsolaCupos ==
  ASSUME "A LA VEZ" \notin Casos
  PROVE  Spec => []CuposExactos
<1>1. IInv /\ AlDia => CuposExactos
  <2> SUFFICES ASSUME IInv, AlDia PROVE CuposExactos
    OBVIOUS
  <2> DEFINE Hecho(t) == hilos[t].n - hilos[t].faltan - GRADO_MULTIPROGRAMACION
             ajustan == {t \in Ordenes : En(t, "ajustar")}
  <2>1. GRADO_MULTIPROGRAMACION \in Int
    BY Enteros DEF IInv
  <2>2. CASE ajustan = {}
    <3>1. Ocupados = GRADO_MULTIPROGRAMACION
      BY <2>2 DEF AlDia
    <3>2. Ocupados = GRADO_MULTIPROGRAMACION + 0
      BY ONLY <2>1, <3>1
    <3>3. (IF ajustan = {} THEN 0 ELSE Hecho(CHOOSE t \in ajustan : TRUE)) = 0
      BY <2>2
    <3> HIDE DEF Hecho
    <3>4. Ocupados = GRADO_MULTIPROGRAMACION
                       + IF ajustan = {} THEN 0 ELSE Hecho(CHOOSE t \in ajustan : TRUE)
      BY <3>2, <3>3
    <3> QED  BY <3>4 DEF CuposExactos, Ocupados, Hecho
  <2>3. CASE ajustan # {}
    <3>1. PICK t : t = CHOOSE u \in ajustan : TRUE
      OBVIOUS
    <3>2. t \in ajustan
      BY <2>3, <3>1
    <3>3. t \in Ordenes /\ En(t, "ajustar")
      BY <3>2
    <3>4. Ocupados = hilos[t].n - hilos[t].faltan
      BY <3>3 DEF AlDia
    <3>5. hilos[t].n \in Int /\ hilos[t].faltan \in Int
      BY <3>3, Clase, Enteros DEF IInv
    <3>6. Ocupados = GRADO_MULTIPROGRAMACION + Hecho(t)
      <4> PICK o, n, f, g : /\ o = Ocupados /\ n = hilos[t].n /\ f = hilos[t].faltan
                            /\ g = GRADO_MULTIPROGRAMACION
        OBVIOUS
      <4>1. n \in Int /\ f \in Int /\ g \in Int /\ o = n - f
        BY <2>1, <3>4, <3>5
      <4>2. o = g + (n - f - g)
        BY ONLY <4>1
      <4> QED  BY <4>2
    <3> QED  BY <2>3, <3>1, <3>6 DEF CuposExactos, Ocupados
  <2> QED  BY <2>2, <2>3
<1>2. Init => IInv /\ AlDia
  BY IInvInicial, AlDiaInicial
<1>3. IInv /\ AlDia /\ [Next]_vars => (IInv /\ AlDia)'
  BY IInvInductivo, AlDiaInductivo
<1> QED  BY <1>1, <1>2, <1>3, PTL DEF Spec

-----------------------------------------------------------------------------
(* The pause, with a command given once the one before is in force *)

DeLaPausa == {"detener", "pausar", "iniciar", "reanudar", "avisar"}

\* Where the threads are after a step, and which commands are under way
LEMMA Donde ==
  ASSUME NEW t \in Hilos, NEW pc, NEW luego, NEW n, NEW faltan, Queda(t, pc, luego, n, faltan)
  PROVE  /\ \A u \in Hilos : hilos'[u].pc = IF u = t THEN pc ELSE hilos[u].pc
         /\ \A u \in Ordenes : u \in Activos <=> hilos[u].pc \in DeLaPausa
         /\ \A u \in Ordenes : u \in Activos' <=> hilos'[u].pc \in DeLaPausa
         /\ Activos \subseteq Ordenes /\ Activos' \subseteq Ordenes
BY DEF Queda, Activos, DeLaPausa

\* Steps that have nothing to do with the pause
LEMMA TurnoAparte ==
  ASSUME Turno, NEW t \in Hilos, NEW pc, NEW luego, NEW n, NEW faltan,
         Queda(t, pc, luego, n, faltan), UNCHANGED pausaVars,
         hilos[t].pc # "esperar" /\ pc # "esperar",
         t \in Ordenes => /\ hilos[t].pc \notin DeLaPausa \union {"pausador"}
                          /\ pc \notin DeLaPausa
  PROVE  Turno'
<1>1. \A u \in Hilos : hilos'[u].pc = IF u = t THEN pc ELSE hilos[u].pc
  BY Donde
<1>2. UNCHANGED <<var_pausa, sem_pausa, mutex_pausa>>
  BY DEF pausaVars
<1>3. Activos' = Activos
  <2>1. \A u \in Ordenes : hilos'[u].pc \in DeLaPausa <=> hilos[u].pc \in DeLaPausa
    BY <1>1, Clase
  <2> QED  BY <2>1, Donde
<1>4. \A u \in Hilos : hilos'[u].pc = "esperar" <=> hilos[u].pc = "esperar"
  BY <1>1
<1>5. \A u \in Ordenes : /\ hilos'[u].pc = "reanudar" <=> hilos[u].pc = "reanudar"
                         /\ hilos'[u].pc = "avisar" <=> hilos[u].pc = "avisar"
                         /\ hilos'[u].pc = "iniciar" <=> hilos[u].pc = "iniciar"
                         /\ hilos[u].pc = "pausador" => hilos'[u].pc = "pausador"
  BY <1>1, Clase DEF DeLaPausa
<1> QED  BY <1>2, <1>3, <1>4, <1>5 DEF Turno, En

\* pausador lets a thread by.
LEMMA TurnoPasar ==
  ASSUME IInv, Turno, NEW t \in Hilos, PasarPausador(t)
  PROVE  Turno'
<1> PICK pc, n, faltan : pc = hilos[t].luego /\ n = hilos[t].n /\ faltan = hilos[t].faltan
  OBVIOUS
<1>1. Queda(t, pc, pc, n, faltan)
  BY PasoPasarPausador
<1>2. /\ hilos[t].pc = "pausador" /\ mutex_pausa = Nadie /\ var_pausa # 1
      /\ UNCHANGED <<var_pausa, sem_pausa, mutex_pausa>>
  BY DEF PasarPausador, En, Pausado, pausaVars
<1>3. pc # "esperar" /\ (t \in Ordenes => pc = "fin")
  BY <1>2, Clase, ClaseDe DEF DeOrden, DeProceso, DeDespacho
<1>4. \A u \in Hilos : hilos'[u].pc = IF u = t THEN pc ELSE hilos[u].pc
  BY <1>1, Donde
<1>5. Activos' = Activos
  <2>1. \A u \in Ordenes : hilos'[u].pc \in DeLaPausa <=> hilos[u].pc \in DeLaPausa
    BY <1>2, <1>3, <1>4, Clase DEF DeLaPausa
  <2> QED  BY <1>1, <2>1, Donde
<1>6. \A u \in Hilos : hilos'[u].pc = "esperar" <=> hilos[u].pc = "esperar"
  BY <1>2, <1>3, <1>4
<1>7. \A u \in Ordenes : /\ hilos'[u].pc = "reanudar" => hilos[u].pc = "reanudar"
                         /\ hilos'[u].pc = "avisar" => hilos[u].pc = "avisar"
                         /\ hilos'[u].pc = "iniciar" => hilos[u].pc = "iniciar"
  BY <1>3, <1>4, Clase
<1> QED  BY <1>2, <1>5, <1>6, <1>7 DEF Turno, En

\* A thread stops in pausador: it is the one the next token is for.
LEMMA TurnoDetenerse ==
  ASSUME IInv, Turno, NEW t \in Hilos, Detenerse(t)
  PROVE  Turno'
<1> PICK pc, luego, n, faltan : /\ pc = "esperar" /\ luego = hilos[t].luego
                                /\ n = hilos[t].n /\ faltan = hilos[t].faltan
  OBVIOUS
<1>1. Queda(t, pc, luego, n, faltan)
  BY PasoDetenerse
<1>2. /\ hilos[t].pc = "pausador" /\ mutex_pausa = Nadie /\ var_pausa = 1
      /\ mutex_pausa' = t /\ UNCHANGED <<var_pausa, sem_pausa>>
  BY DEF Detenerse, En, Pausado
<1>3. t # Nadie /\ \A u \in Hilos : u # Nadie
  BY Constantes
<1>4. \A u \in Hilos : hilos'[u].pc = IF u = t THEN pc ELSE hilos[u].pc
  BY <1>1, Donde
<1>5. Activos' = Activos
  <2>1. \A u \in Ordenes : hilos'[u].pc \in DeLaPausa <=> hilos[u].pc \in DeLaPausa
    BY <1>2, <1>4, Clase DEF DeLaPausa
  <2> QED  BY <1>1, <2>1, Donde
<1>6. \A u \in Hilos : hilos'[u].pc = "esperar" <=> mutex_pausa' = u
  BY <1>2, <1>3, <1>4 DEF Turno, En
<1>7. \A u \in Ordenes : /\ hilos'[u].pc = "reanudar" => hilos[u].pc = "reanudar"
                         /\ hilos'[u].pc = "avisar" => hilos[u].pc = "avisar"
                         /\ hilos'[u].pc = "iniciar" => hilos[u].pc = "iniciar"
  BY <1>4, Clase
<1> QED  BY <1>2, <1>3, <1>5, <1>6, <1>7 DEF Turno, En

\* ... and goes on with that token, the planners resumed.
LEMMA TurnoDespertar ==
  ASSUME IInv, Turno, NEW t \in Hilos, Despertar(t)
  PROVE  Turno' /\ var_pausa = 0
<1> PICK pc, n, faltan : pc = hilos[t].luego /\ n = hilos[t].n /\ faltan = hilos[t].faltan
  OBVIOUS
<1>1. Queda(t, pc, pc, n, faltan)
  BY PasoDespertar
<1>2. /\ hilos[t].pc = "esperar" /\ sem_pausa > 0 /\ sem_pausa' = sem_pausa - 1
      /\ mutex_pausa' = Nadie /\ var_pausa' = var_pausa
  BY DEF Despertar, En
<1>3. pc # "esperar" /\ (t \in Ordenes => pc = "fin")
  BY <1>2, Clase, ClaseDe DEF DeOrden, DeProceso, DeDespacho
<1>4. \A u \in Hilos : hilos'[u].pc = IF u = t THEN pc ELSE hilos[u].pc
  BY <1>1, Donde
<1>5. sem_pausa = 1 /\ var_pausa = 0 /\ Activos = {} /\ mutex_pausa = t
  BY <1>2 DEF Turno, En
<1>6. \A u \in Ordenes : hilos'[u].pc \notin DeLaPausa
  BY <1>1, <1>3, <1>4, <1>5, Clase, Donde DEF DeLaPausa
<1>7. Activos' = {}
  BY <1>1, <1>6, Donde
<1>8. \A u \in Hilos : hilos'[u].pc = "esperar" <=> mutex_pausa' = u
  BY <1>2, <1>3, <1>4, <1>5, Constantes DEF Turno, En
<1>9. sem_pausa' = 0 /\ var_pausa' = 0
  BY <1>2, <1>5
<1> QED  BY <1>5, <1>6, <1>7, <1>8, <1>9 DEF Turno, En, DeLaPausa

\* The command under way is the only one, with no token posted.
LEMMA UnicaOrden ==
  ASSUME Turno, NEW t \in Ordenes, hilos[t].pc \in DeLaPausa, sem_pausa \in Nat,
         NEW pc, NEW luego, NEW n, NEW faltan, Queda(t, pc, luego, n, faltan)
  PROVE  /\ sem_pausa = 0
         /\ \A u \in Ordenes \ {t} : /\ hilos[u].pc \notin DeLaPausa
                                     /\ hilos'[u].pc \notin DeLaPausa
         /\ Activos' = IF pc \in DeLaPausa THEN {t} ELSE {}
         /\ \A u \in Hilos : hilos'[u].pc = IF u = t THEN pc ELSE hilos[u].pc
         /\ t \in Hilos
<1>1. t \in Hilos /\ t \in Activos
  BY Clase DEF Activos, DeLaPausa
<1>2. \A u \in Hilos : hilos'[u].pc = IF u = t THEN pc ELSE hilos[u].pc
  BY <1>1, Donde
<1>3. sem_pausa = 0
  BY <1>1 DEF Turno
<1>4. \A u \in Ordenes \ {t} : hilos[u].pc \notin DeLaPausa
  BY <1>1, Donde DEF Turno
<1>5. \A u \in Ordenes \ {t} : hilos'[u].pc \notin DeLaPausa
  BY <1>2, <1>4, Clase
<1>6. Activos' = IF pc \in DeLaPausa THEN {t} ELSE {}
  BY <1>1, <1>2, <1>5, Donde
<1> QED  BY <1>1, <1>2, <1>3, <1>4, <1>5, <1>6

\* The steps of a command of pause, whatever it leaves in var_pausa
LEMMA TurnoOrden ==
  ASSUME IInv, Turno, NEW t \in Ordenes, hilos[t].pc \in DeLaPausa,
         NEW pc, NEW luego, NEW n, NEW faltan, Queda(t, pc, luego, n, faltan),
         pc \in {"fin", "pausar", "reanudar", "avisar", "pausador"},
         mutex_pausa' = mutex_pausa,
         pc \in {"reanudar", "avisar"} => mutex_pausa # Nadie,
         pc = "reanudar" => var_pausa' = 1,
         pc = "avisar" => var_pausa' = 0,
         sem_pausa' \in {0, 1},
         sem_pausa' = 1 => pc = "fin" /\ var_pausa' = 0 /\ mutex_pausa # Nadie,
         var_pausa' = 1 => pc = "pausador" \/ var_pausa = 1
  PROVE  Turno'
<1>1. sem_pausa \in Nat
  BY DEF IInv, ConsolaTypeOK
<1>2. /\ \A u \in Ordenes \ {t} : hilos'[u].pc \notin DeLaPausa
      /\ Activos' = IF pc \in DeLaPausa THEN {t} ELSE {}
      /\ \A u \in Hilos : hilos'[u].pc = IF u = t THEN pc ELSE hilos[u].pc
      /\ t \in Hilos
  BY <1>1, UnicaOrden
<1>3. \A u \in Hilos : hilos'[u].pc = "esperar" <=> mutex_pausa' = u
  BY <1>2 DEF Turno, En, DeLaPausa
<1>4. \A u, v \in Activos' : u = v
  BY <1>2
<1>5. sem_pausa' > 0 => /\ sem_pausa' = 1 /\ var_pausa' = 0 /\ Activos' = {}
                        /\ mutex_pausa' # Nadie
  BY <1>2 DEF DeLaPausa
<1>6. \A u \in Ordenes : hilos'[u].pc \in {"reanudar", "avisar", "iniciar"} =>
                            u = t /\ hilos'[u].pc = pc
  BY <1>2 DEF DeLaPausa
<1>7. var_pausa' = 1 => mutex_pausa' # Nadie \/ \E u \in Ordenes : hilos'[u].pc = "pausador"
  <2> SUFFICES ASSUME var_pausa' = 1, mutex_pausa = Nadie
               PROVE  \E u \in Ordenes : hilos'[u].pc = "pausador"
    OBVIOUS
  <2>1. CASE pc = "pausador"
    BY <2>1, <1>2
  <2>2. CASE var_pausa = 1
    <3> PICK u \in Ordenes : hilos[u].pc = "pausador"
      BY <2>2 DEF Turno, En
    <3>1. u # t
      BY DEF DeLaPausa
    <3> QED  BY <3>1, <1>2, Clase
  <2> QED  BY <2>1, <2>2
<1> QED  BY <1>3, <1>4, <1>5, <1>6, <1>7 DEF Turno, En


LEMMA TurnoOrdenes ==
  ASSUME IInv, Turno, NEW t \in Hilos,
         Detener(t) \/ Pausar(t) \/ Iniciar(t) \/ Reanudar(t) \/ Avisar(t)
  PROVE  Turno'
<1>1. /\ var_pausa \in {0, 1} /\ sem_pausa \in Nat
  BY DEF IInv, ConsolaTypeOK
<1>2. CASE Detener(t)
  <2> PICK pc, luego, n, faltan : /\ pc = IF var_pausa = 1 THEN "fin" ELSE "pausar"
                                  /\ luego = hilos[t].luego
                                  /\ n = hilos[t].n /\ faltan = hilos[t].faltan
    OBVIOUS
  <2>1. t \in Ordenes /\ Queda(t, pc, luego, n, faltan)
    BY <1>2, PasoDetener
  <2>2. /\ hilos[t].pc = "detener" /\ hilos[t].pc \in DeLaPausa
        /\ UNCHANGED <<var_pausa, sem_pausa, mutex_pausa>>
    BY <1>2 DEF Detener, En, DeLaPausa, pausaVars
  <2>3. sem_pausa = 0
    BY <1>1, <2>1, <2>2, UnicaOrden
  <2>5. /\ pc \in {"fin", "pausar", "reanudar", "avisar", "pausador"}
        /\ mutex_pausa' = mutex_pausa
        /\ pc \in {"reanudar", "avisar"} => mutex_pausa # Nadie
        /\ pc = "reanudar" => var_pausa' = 1
        /\ pc = "avisar" => var_pausa' = 0
        /\ sem_pausa' \in {0, 1}
        /\ sem_pausa' = 1 => pc = "fin" /\ var_pausa' = 0 /\ mutex_pausa # Nadie
        /\ var_pausa' = 1 => pc = "pausador" \/ var_pausa = 1
    BY <1>1, <2>2, <2>3
  <2>6. IInv /\ Turno
    OBVIOUS
  <2> QED  BY ONLY <2>1, <2>2, <2>5, <2>6, TurnoOrden
<1>3. CASE Pausar(t)
  <2> PICK pc, luego, n, faltan : /\ pc = "pausador"
                                  /\ luego = hilos[t].luego
                                  /\ n = hilos[t].n /\ faltan = hilos[t].faltan
    OBVIOUS
  <2>1. t \in Ordenes /\ Queda(t, pc, luego, n, faltan)
    BY <1>3, PasoPausar
  <2>2. /\ hilos[t].pc = "pausar" /\ hilos[t].pc \in DeLaPausa
        /\ var_pausa' = 1 /\ UNCHANGED <<sem_pausa, mutex_pausa>>
    BY <1>3 DEF Pausar, En, DeLaPausa
  <2>3. sem_pausa = 0
    BY <1>1, <2>1, <2>2, UnicaOrden
  <2>5. /\ pc \in {"fin", "pausar", "reanudar", "avisar", "pausador"}
        /\ mutex_pausa' = mutex_pausa
        /\ pc \in {"reanudar", "avisar"} => mutex_pausa # Nadie
        /\ pc = "reanudar" => var_pausa' = 1
        /\ pc = "avisar" => var_pausa' = 0
        /\ sem_pausa' \in {0, 1}
        /\ sem_pausa' = 1 => pc = "fin" /\ var_pausa' = 0 /\ mutex_pausa # Nadie
        /\ var_pausa' = 1 => pc = "pausador" \/ var_pausa = 1
    BY <1>1, <2>2, <2>3
  <2>6. IInv /\ Turno
    OBVIOUS
  <2> QED  BY ONLY <2>1, <2>2, <2>5, <2>6, TurnoOrden
<1>4. CASE Iniciar(t)
  <2> PICK pc, luego, n, faltan : /\ pc = IF var_pausa = 0 THEN "fin" ELSE "reanudar"
                                  /\ luego = hilos[t].luego
                                  /\ n = hilos[t].n /\ faltan = hilos[t].faltan
    OBVIOUS
  <2>1. t \in Ordenes /\ Queda(t, pc, luego, n, faltan)
    BY <1>4, PasoIniciar
  <2>2. /\ hilos[t].pc = "iniciar" /\ hilos[t].pc \in DeLaPausa
        /\ UNCHANGED <<var_pausa, sem_pausa, mutex_pausa>>
    BY <1>4 DEF Iniciar, En, DeLaPausa, pausaVars
  <2>3. sem_pausa = 0
    BY <1>1, <2>1, <2>2, UnicaOrden
  <2>4. var_pausa = 1 => mutex_pausa # Nadie
    BY <2>1, <2>2 DEF Turno, En
  <2>5. /\ pc \in {"fin", "pausar", "reanudar", "avisar", "pausador"}
        /\ mutex_pausa' = mutex_pausa
        /\ pc \in {"reanudar", "avisar"} => mutex_pausa # Nadie
        /\ pc = "reanudar" => var_pausa' = 1
        /\ pc = "avisar" => var_pausa' = 0
        /\ sem_pausa' \in {0, 1}
        /\ sem_pausa' = 1 => pc = "fin" /\ var_pausa' = 0 /\ mutex_pausa # Nadie
        /\ var_pausa' = 1 => pc = "pausador" \/ var_pausa = 1
    BY <1>1, <2>2, <2>3, <2>4
  <2>6. IInv /\ Turno
    OBVIOUS
  <2> QED  BY ONLY <2>1, <2>2, <2>5, <2>6, TurnoOrden
<1>5. CASE Reanudar(t)
  <2> PICK pc, luego, n, faltan : /\ pc = "avisar"
                                  /\ luego = hilos[t].luego
                                  /\ n = hilos[t].n /\ faltan = hilos[t].faltan
    OBVIOUS
  <2>1. t \in Ordenes /\ Queda(t, pc, luego, n, faltan)
    BY <1>5, PasoReanudar
  <2>2. /\ hilos[t].pc = "reanudar" /\ hilos[t].pc \in DeLaPausa
        /\ var_pausa' = 0 /\ UNCHANGED <<sem_pausa, mutex_pausa>>
    BY <1>5 DEF Reanudar, En, DeLaPausa
  <2>3. sem_pausa = 0
    BY <1>1, <2>1, <2>2, UnicaOrden
  <2>4. var_pausa = 1 /\ mutex_pausa # Nadie
    BY <2>1, <2>2 DEF Turno, En
  <2>5. /\ pc \in {"fin", "pausar", "reanudar", "avisar", "pausador"}
        /\ mutex_pausa' = mutex_pausa
        /\ pc \in {"reanudar", "avisar"} => mutex_pausa # Nadie
        /\ pc = "reanudar" => var_pausa' = 1
        /\ pc = "avisar" => var_pausa' = 0
        /\ sem_pausa' \in {0, 1}
        /\ sem_pausa' = 1 => pc = "fin" /\ var_pausa' = 0 /\ mutex_pausa # Nadie
        /\ var_pausa' = 1 => pc = "pausador" \/ var_pausa = 1
    BY <1>1, <2>2, <2>3, <2>4
  <2>6. IInv /\ Turno
    OBVIOUS
  <2> QED  BY ONLY <2>1, <2>2, <2>5, <2>6, TurnoOrden
<1>6. CASE Avisar(t)
  <2> PICK pc, luego, n, faltan : /\ pc = "fin"
                                  /\ luego = hilos[t].luego
                                  /\ n = hilos[t].n /\ faltan = hilos[t].faltan
    OBVIOUS
  <2>1. t \in Ordenes /\ Queda(t, pc, luego, n, faltan)
    BY <1>6, PasoAvisar
  <2>2. /\ hilos[t].pc = "avisar" /\ hilos[t].pc \in DeLaPausa
        /\ sem_pausa' = sem_pausa + 1 /\ UNCHANGED <<var_pausa, mutex_pausa>>
    BY <1>6 DEF Avisar, En, DeLaPausa, PostPausa
  <2>3. sem_pausa = 0
    BY <1>1, <2>1, <2>2, UnicaOrden
  <2>4. var_pausa = 0 /\ mutex_pausa # Nadie
    BY <2>1, <2>2 DEF Turno, En
  <2>5. /\ pc \in {"fin", "pausar", "reanudar", "avisar", "pausador"}
        /\ mutex_pausa' = mutex_pausa
        /\ pc \in {"reanudar", "avisar"} => mutex_pausa # Nadie
        /\ pc = "reanudar" => var_pausa' = 1
        /\ pc = "avisar" => var_pausa' = 0
        /\ sem_pausa' \in {0, 1}
        /\ sem_pausa' = 1 => pc = "fin" /\ var_pausa' = 0 /\ mutex_pausa # Nadie
        /\ var_pausa' = 1 => pc = "pausador" \/ var_pausa = 1
    BY <1>1, <2>2, <2>3, <2>4
  <2>6. IInv /\ Turno
    OBVIOUS
  <2> QED  BY ONLY <2>1, <2>2, <2>5, <2>6, TurnoOrden
<1> QED  BY <1>2, <1>3, <1>4, <1>5, <1>6

\* A command of pause is given when the one before is in force.
LEMMA TurnoOrdenar ==
  ASSUME IInv, Turno, "SEGUIDAS" \notin Casos,
         NEW t \in Ordenes, NEW pc \in {"detener", "iniciar"}, OrdenarPausa(t, pc)
  PROVE  Turno'
<1> PICK luego, n, faltan : /\ luego = hilos[t].luego
                            /\ n = hilos[t].n /\ faltan = hilos[t].faltan
  OBVIOUS
<1>1. Queda(t, pc, luego, n, faltan) /\ t \in Hilos
  BY PasoOrdenarPausa, Clase
<1>2. /\ hilos[t].pc = "sin empezar" /\ sem_pausa = 0
      /\ UNCHANGED <<var_pausa, sem_pausa, mutex_pausa>>
      /\ \A u \in DePausa :
           hilos[u].pc = "esperar" \/ (hilos[u].pc = "pausador" /\ mutex_pausa # Nadie)
  <2>1. PausaAsentada
    BY DEF OrdenarPausa
  <2>2. \A u \in DePausa :
           hilos[u].pc = "esperar" \/ (hilos[u].pc = "pausador" /\ mutex_pausa # Nadie)
    <3> SUFFICES ASSUME NEW u \in DePausa
                 PROVE  hilos[u].pc = "esperar" \/ (hilos[u].pc = "pausador" /\ mutex_pausa # Nadie)
      OBVIOUS
    <3>1. En(u, "esperar") \/ (En(u, "pausador") /\ mutex_pausa # Nadie)
      BY <2>1 DEF PausaAsentada
    <3> QED  BY <3>1 DEF En
  <2> QED  BY <2>1, <2>2 DEF OrdenarPausa, EsLaProxima, En, pausaVars, PausaAsentada
<1>3. \A u \in Hilos : hilos'[u].pc = IF u = t THEN pc ELSE hilos[u].pc
  BY <1>1, Donde
<1>4. \A u \in Ordenes : hilos[u].pc \notin DeLaPausa
  BY <1>2 DEF DePausa, DeLaPausa
<1>5. \A u \in Ordenes : hilos[u].pc = "pausador" => mutex_pausa # Nadie
  BY <1>2 DEF DePausa
<1>6. \A u \in Ordenes : hilos'[u].pc \in DeLaPausa => u = t
  BY <1>3, <1>4, Clase
<1>7. \A u, v \in Activos' : u = v
  BY <1>1, <1>6, Donde
<1>8. \A u \in Hilos : hilos'[u].pc = "esperar" <=> mutex_pausa' = u
  BY <1>1, <1>2, <1>3 DEF Turno, En
<1>9. var_pausa = 1 => mutex_pausa # Nadie
  BY <1>5 DEF Turno, En
<1>10. \A u \in Ordenes : hilos'[u].pc \notin {"reanudar", "avisar"}
  BY <1>1, <1>3, <1>6 DEF DeLaPausa
<1>11. /\ ~(sem_pausa' > 0)
       /\ \A u \in Ordenes : hilos'[u].pc = "iniciar" /\ var_pausa' = 1 => mutex_pausa' # Nadie
       /\ var_pausa' = 1 => mutex_pausa' # Nadie
  <2>1. sem_pausa' = 0
    BY <1>2
  <2>2. ~(sem_pausa' > 0)
    BY ONLY <2>1
  <2> QED  BY <2>2, <1>2, <1>9
<1> QED  BY <1>7, <1>8, <1>10, <1>11 DEF Turno, En

\* Commands of degree, and the life of the processes
LEMMA TurnoGrado ==
  ASSUME IInv, Turno, NEW t \in Hilos,
         LeerGrado(t) \/ PonerCupo(t) \/ SacarCupo(t) \/ FijarGrado(t)
  PROVE  Turno'
<1> PICK luego, n, faltan : /\ luego = hilos[t].luego /\ n = hilos[t].n
                            /\ faltan = hilos[t].faltan
  OBVIOUS
<1>1. \E pc, f : pc \in {"fin", "ajustar"} /\ Queda(t, pc, luego, n, f)
  BY PasoLeerGrado, PasoUnCupo, PasoFijarGrado
<1>2. /\ hilos[t].pc \in {"leer grado", "ajustar"} /\ UNCHANGED pausaVars
  BY DEF LeerGrado, PonerCupo, SacarCupo, UnCupo, FijarGrado, En
<1> PICK pc, f : pc \in {"fin", "ajustar"} /\ Queda(t, pc, luego, n, f)
  BY <1>1
<1>3. /\ hilos[t].pc \notin DeLaPausa \union {"pausador"} /\ hilos[t].pc # "esperar"
      /\ pc # "esperar" /\ pc \notin DeLaPausa
  BY <1>2 DEF DeLaPausa
<1> QED  BY <1>2, <1>3, TurnoAparte

LEMMA TurnoOrdenarGrado ==
  ASSUME IInv, Turno, NEW t \in Ordenes, NEW n \in 0..MaxGrado, OrdenarGrado(t, n)
  PROVE  Turno'
<1> PICK pc, luego, faltan : /\ pc = "leer grado" /\ luego = hilos[t].luego
                             /\ faltan = hilos[t].faltan
  OBVIOUS
<1>1. Queda(t, pc, luego, n, faltan) /\ t \in Hilos
  BY PasoOrdenarGrado, Clase
<1>2. hilos[t].pc = "sin empezar" /\ UNCHANGED pausaVars
  BY DEF OrdenarGrado, EsLaProxima, En
<1>3. /\ hilos[t].pc \notin DeLaPausa \union {"pausador"} /\ hilos[t].pc # "esperar"
      /\ pc # "esperar" /\ pc \notin DeLaPausa
  BY <1>2 DEF DeLaPausa
<1> QED  BY <1>1, <1>2, <1>3, TurnoAparte

LEMMA TurnoHilo ==
  ASSUME IInv, Turno, NEW t \in Hilos, TomarNew(t) \/ Admitir(t) \/ Planificar(t)
  PROVE  Turno'
<1>1. /\ t \notin Ordenes /\ UNCHANGED pausaVars /\ hilos[t].pc # "esperar"
      /\ \E pc, luego, n, faltan : pc # "esperar" /\ Queda(t, pc, luego, n, faltan)
  <2>1. CASE TomarNew(t)
    BY <2>1, PasoTomarNew, Clase DEF TomarNew, En
  <2>2. CASE Admitir(t)
    BY <2>2, PasoAdmitir, Clase DEF Admitir, En
  <2>3. CASE Planificar(t)
    <3> PICK pc : pc = IF t = Despachador THEN "sin empezar" ELSE "fin"
      OBVIOUS
    <3>1. Queda(t, pc, hilos[t].luego, hilos[t].n, hilos[t].faltan) /\ pc # "esperar"
      BY <2>3, PasoPlanificar
    <3> QED  BY <2>3, <3>1, PasoPlanificar DEF Planificar, En
  <2> QED  BY <2>1, <2>2, <2>3
<1> PICK pc, luego, n, faltan : pc # "esperar" /\ Queda(t, pc, luego, n, faltan)
  BY <1>1
<1> QED  BY <1>1, TurnoAparte

LEMMA TurnoProcesos ==
  ASSUME IInv, Turno, NEW p \in Procesos, IniciarProceso(p) \/ Nuevo(p)
  PROVE  Turno'
<1> PICK t : t = <<"proceso", p>>
  OBVIOUS
<1> PICK luego, n, faltan : /\ luego = hilos[t].luego
                            /\ n = hilos[t].n /\ faltan = hilos[t].faltan
  OBVIOUS
<1>1. t \in Hilos /\ t \notin Ordenes
  BY Clase DEF HilosDeProcesos
<1>2. UNCHANGED pausaVars /\ hilos[t].pc # "esperar"
  BY DEF IniciarProceso, Nuevo, En
<1>3. CASE IniciarProceso(p)
  <2>1. Queda(t, "nuevo", luego, n, faltan)
    BY <1>3, PasoIniciarProceso
  <2> QED  BY <1>1, <1>2, <2>1, TurnoAparte
<1>4. CASE Nuevo(p)
  <2>1. Queda(t, "pausador", "plp", n, faltan)
    BY <1>4, PasoNuevo
  <2> QED  BY <1>1, <1>2, <2>1, TurnoAparte
<1> QED  BY <1>3, <1>4

LEMMA TurnoSalir ==
  ASSUME IInv, Turno, Salir
  PROVE  Turno'
<1> PICK t, n, faltan : t = Despachador /\ n = hilos[t].n /\ faltan = hilos[t].faltan
  OBVIOUS
<1>1. t \in Hilos /\ t \notin Ordenes /\ Queda(t, "pausador", "pcp", n, faltan)
  BY PasoSalir, Clase
<1>2. UNCHANGED pausaVars /\ hilos[t].pc # "esperar"
  BY DEF Salir, En
<1> QED  BY <1>1, <1>2, TurnoAparte

LEMMA TurnoInicial == Init => Turno
<1> SUFFICES ASSUME Init PROVE Turno
  OBVIOUS
<1>1. \A t \in Hilos : hilos[t].pc = "sin empezar"
  BY DEF Init, Hilo
<1>2. \A t \in Hilos : t # Nadie
  BY Constantes
<1>3. Activos = {}
  BY <1>1, Clase DEF Activos
<1>4. /\ ~(sem_pausa > 0) /\ var_pausa # 1 /\ mutex_pausa = Nadie
  <2>1. sem_pausa = 0 /\ var_pausa = 0 /\ mutex_pausa = Nadie
    BY DEF Init
  <2> QED  BY ONLY <2>1
<1> QED  BY <1>1, <1>2, <1>3, <1>4, Clase DEF Turno, En

LEMMA TurnoInductivo == "SEGUIDAS" \notin Casos /\ IInv /\ Turno /\ [Next]_vars => Turno'
<1> SUFFICES ASSUME "SEGUIDAS" \notin Casos, IInv, Turno, [Next]_vars PROVE Turno'
  OBVIOUS
<1>1. ASSUME NEW p \in Procesos, IniciarProceso(p) \/ Nuevo(p) PROVE Turno'
  BY <1>1, TurnoProcesos
<1>2. ASSUME NEW t \in Ordenes, NEW pc \in {"detener", "iniciar"}, OrdenarPausa(t, pc)
      PROVE  Turno'
  BY <1>2, TurnoOrdenar
<1>3. ASSUME NEW t \in Ordenes, NEW n \in 0..MaxGrado, OrdenarGrado(t, n) PROVE Turno'
  BY <1>3, TurnoOrdenarGrado
<1>4. ASSUME NEW t \in Hilos, Avanza(t) PROVE Turno'
  BY <1>4, TurnoPasar, TurnoDetenerse, TurnoDespertar, TurnoOrdenes, TurnoGrado, TurnoHilo
     DEF Avanza
<1>5. ASSUME UNCHANGED vars PROVE Turno'
  BY <1>5, Quieto DEF Turno, Activos, En
<1> QED  BY <1>1, <1>2, <1>3, <1>4, <1>5, TurnoSalir, Pasos

\* A token of sem_pausa is always for a thread that waits for it, and there is
\* never more than one.
THEOREM ConsolaSinFichas ==
  ASSUME "SEGUIDAS" \notin Casos
  PROVE  Spec => []SinFichasDeMas
<1>1. IInv /\ Turno => SinFichasDeMas
  BY DEF IInv, ConsolaTypeOK, Turno, SinFichasDeMas
<1>2. Init => IInv /\ Turno
  BY IInvInicial, TurnoInicial
<1>3. IInv /\ Turno /\ [Next]_vars => (IInv /\ Turno)'
  BY IInvInductivo, TurnoInductivo
<1> QED  BY <1>1, <1>2, <1>3, PTL DEF Spec

\* What a step does to the threads that are in pausador
Pasan ==
  \A t \in Hilos :
    hilos[t].pc \in {"pausador", "esperar"}
      /\ hilos'[t].pc \notin {"pausador", "esperar"} => var_pausa = 0

LEMMA NoPasan ==
  ASSUME NEW t \in Hilos, NEW pc, NEW luego, NEW n, NEW faltan, Queda(t, pc, luego, n, faltan),
         \/ hilos[t].pc \notin {"pausador", "esperar"}
         \/ pc \in {"pausador", "esperar"}
         \/ var_pausa = 0
  PROVE  Pasan
BY Donde DEF Pasan

LEMMA NadiePasa ==
  ASSUME IInv, Turno, [Next]_vars
  PROVE  Pasan
<1>1. ASSUME NEW p \in Procesos, IniciarProceso(p) \/ Nuevo(p) PROVE Pasan
  <2> PICK t : t = <<"proceso", p>>
    OBVIOUS
  <2>1. t \in Hilos
    BY DEF Hilos, HilosDeProcesos
  <2>2. hilos[t].pc \notin {"pausador", "esperar"}
    BY <1>1 DEF IniciarProceso, Nuevo, En
  <2>3. \E pc, luego, n, faltan : Queda(t, pc, luego, n, faltan)
    BY <1>1, PasoIniciarProceso, PasoNuevo
  <2> QED  BY <2>1, <2>2, <2>3, NoPasan
<1>2. ASSUME NEW t \in Ordenes, NEW pc \in {"detener", "iniciar"}, OrdenarPausa(t, pc)
      PROVE  Pasan
  <2>1. t \in Hilos /\ hilos[t].pc \notin {"pausador", "esperar"}
    BY <1>2, Clase DEF OrdenarPausa, EsLaProxima, En
  <2>2. \E luego, n, faltan : Queda(t, pc, luego, n, faltan)
    BY <1>2, PasoOrdenarPausa
  <2> QED  BY <2>1, <2>2, NoPasan
<1>3. ASSUME NEW t \in Ordenes, NEW n \in 0..MaxGrado, OrdenarGrado(t, n) PROVE Pasan
  <2>1. t \in Hilos /\ hilos[t].pc \notin {"pausador", "esperar"}
    BY <1>3, Clase DEF OrdenarGrado, EsLaProxima, En
  <2>2. \E luego, faltan : Queda(t, "leer grado", luego, n, faltan)
    BY <1>3, PasoOrdenarGrado
  <2> QED  BY <2>1, <2>2, NoPasan
<1>4. ASSUME NEW t \in Hilos, Avanza(t) PROVE Pasan
  <2>1. CASE PasarPausador(t) \/ Despertar(t)
    <3>1. var_pausa = 0
      <4>1. CASE PasarPausador(t)
        BY <4>1 DEF PasarPausador, Pausado, IInv, ConsolaTypeOK
      <4>2. CASE Despertar(t)
        BY <4>2, TurnoDespertar
      <4> QED  BY <2>1, <4>1, <4>2
    <3>2. \E pc, n, faltan : Queda(t, pc, pc, n, faltan)
      BY <2>1, PasoPasarPausador, PasoDespertar
    <3> QED  BY <3>1, <3>2, NoPasan
  <2>2. CASE Detenerse(t)
    <3>1. \E luego, n, faltan : Queda(t, "esperar", luego, n, faltan)
      BY <2>2, PasoDetenerse
    <3> QED  BY <3>1, NoPasan
  <2>3. CASE \/ Detener(t) \/ Pausar(t) \/ Iniciar(t) \/ Reanudar(t) \/ Avisar(t)
    <3>1. hilos[t].pc \notin {"pausador", "esperar"}
      BY <2>3 DEF Detener, Pausar, Iniciar, Reanudar, Avisar, En
    <3>2. \E pc, luego, n, faltan : Queda(t, pc, luego, n, faltan)
      BY <2>3, PasoDetener, PasoPausar, PasoIniciar, PasoReanudar, PasoAvisar
    <3> QED  BY <3>1, <3>2, NoPasan
  <2>4. CASE LeerGrado(t) \/ PonerCupo(t) \/ SacarCupo(t) \/ FijarGrado(t)
    <3>1. hilos[t].pc \notin {"pausador", "esperar"}
      BY <2>4 DEF LeerGrado, PonerCupo, SacarCupo, FijarGrado, En
    <3>2. \E pc, luego, n, faltan : Queda(t, pc, luego, n, faltan)
      BY <2>4, PasoLeerGrado, PasoUnCupo, PasoFijarGrado
    <3> QED  BY <3>1, <3>2, NoPasan
  <2>5. CASE TomarNew(t) \/ Admitir(t) \/ Planificar(t)
    <3>1. hilos[t].pc \notin {"pausador", "esperar"}
      BY <2>5 DEF TomarNew, Admitir, Planificar, En
    <3>2. \E pc, luego, n, faltan : Queda(t, pc, luego, n, faltan)
      BY <2>5, PasoTomarNew, PasoAdmitir, PasoPlanificar
    <3> QED  BY <3>1, <3>2, NoPasan
  <2> QED  BY <1>4, <2>1, <2>2, <2>3, <2>4, <2>5 DEF Avanza
<1>5. ASSUME Salir PROVE Pasan
  <2> PICK t : t = Despachador
    OBVIOUS
  <2>1. t \in Hilos /\ hilos[t].pc \notin {"pausador", "esperar"}
    BY <1>5, Clase DEF Salir, En
  <2>2. \E n, faltan : Queda(t, "pausador", "pcp", n, faltan)
    BY <1>5, PasoSalir
  <2> QED  BY <2>1, <2>2, NoPasan
<1>6. ASSUME UNCHANGED vars PROVE Pasan
  BY <1>6, Quieto DEF Pasan
<1> QED  BY <1>1, <1>2, <1>3, <1>4, <1>5, <1>6, Pasos

\* No thread gets by pausador while the planners are paused: neither the one
\* that waits there, which only goes on with a token and the planners resumed,
\* nor those that queue behind it for mutex_pausa.
THEOREM ConsolaNadiePasa ==
  ASSUME "SEGUIDAS" \notin Casos
  PROVE  Spec => NadiePasaEnPausa
<1> DEFINE Nadie_ == \A t \in Hilos :
                       hilos[t].pc \in {"pausador", "esperar"}
                         /\ hilos'[t].pc \notin {"pausador", "esperar"} => var_pausa = 0
<1>1. IInv /\ Turno /\ [Next]_vars => [Nadie_]_vars
  BY NadiePasa DEF Pasan
<1>2. Init => IInv /\ Turno
  BY IInvInicial, TurnoInicial
<1>3. IInv /\ Turno /\ [Next]_vars => (IInv /\ Turno)'
  BY IInvInductivo, TurnoInductivo
<1> HIDE DEF Nadie_
<1>4. Spec => [][Nadie_]_vars
  BY <1>1, <1>2, <1>3, PTL DEF Spec
<1> QED  BY <1>4 DEF NadiePasaEnPausa, Nadie_
=============================================================================
