---------------------------- MODULE MemoriaProofs ----------------------------
(***************************************************************************)
(* Proofs about Memoria, for any processes, any memory and any page size.  *)
(***************************************************************************)
EXTENDS Memoria, SequenceTheorems, FiniteSetTheorems, TLAPS

-----------------------------------------------------------------------------
(* The inductive invariant of the frame allocation *)

\* What the threads hold between two steps: the frame the CPU's thread found
\* free stays free until it takes it, a table in use by one thread is not in
\* use by the other, and a shrink removes no more pages than there are.
HilosCoherentes ==
  LET c == hilo["cpu"]
      k == hilo["kernel"] IN
  /\ c.pc # "reposo" => c.pid \in creados
  /\ k.pc # "reposo" => k.pid \in creados
  /\ c.pc \in {"elegido", "movido", "reservado"} =>
       c.marco \in Marcos /\ libre[c.marco] /\ c.faltan > 0
  /\ c.pc \in {"soltar_new", "soltar_old"} => c.marco \in Marcos
  /\ k.pc \in {"soltar_new", "soltar_old"} => k.marco \in Marcos
  /\ c.pc \in EnReduccion => c.faltan <= Len(tabla_paginas[c.pid])
  /\ c.pc # "reposo" /\ k.pc # "reposo" => c.pid # k.pid

\* The pids of the idle threads, and the tables nobody has created yet.
EnReposo ==
  /\ \A h \in Hilos : hilo[h].pc = "reposo" => hilo[h] = Reposo
  /\ \A p \in Procesos \ creados : tabla_paginas[p] = <<>>

IInv ==
  /\ TypeOK
  /\ HilosCoherentes
  /\ EnReposo
  /\ MarcosExclusivos
  /\ LibreSiiSinPagina

-----------------------------------------------------------------------------
(* Types *)

LEMMA InitTypeOK == ASSUME Init PROVE TypeOK
<1>1. tabla_paginas \in [Procesos -> Seq(Marcos)]
  BY EmptySeq DEF Init
<1>2. hilo \in [Hilos -> EstadoHilo]
  BY DEF Init, Hilos, Reposo, EstadoHilo, PcKernel, PcCpu
<1>3. hilo["kernel"].pc \in PcKernel /\ hilo["cpu"].pc \in PcCpu
  BY DEF Init, Hilos, Reposo, PcKernel, PcCpu
<1> QED
  BY <1>1, <1>2, <1>3 DEF Init, TypeOK, Causas

\* A thread that moves on keeps the type of `hilo'.
LEMMA SigueTipo ==
  ASSUME TypeOK, NEW h \in Hilos, NEW r \in EstadoHilo, Sigue(h, r),
         r.pc \in (IF h = "kernel" THEN PcKernel ELSE PcCpu)
  PROVE  /\ hilo' \in [Hilos -> EstadoHilo]
         /\ hilo'["kernel"].pc \in PcKernel
         /\ hilo'["cpu"].pc \in PcCpu
         /\ hilo'[h] = r
         /\ \A g \in Hilos \ {h} : hilo'[g] = hilo[g]
<1>1. hilo' \in [Hilos -> EstadoHilo]
  BY DEF TypeOK, Sigue
<1>2. hilo'[h] = r /\ \A g \in Hilos \ {h} : hilo'[g] = hilo[g]
  BY DEF TypeOK, Sigue
<1>3. h = "kernel" \/ h = "cpu"
  BY DEF Hilos
<1> QED
  BY <1>1, <1>2, <1>3 DEF TypeOK, Hilos

LEMMA ReposoTipo == Reposo \in EstadoHilo
  BY DEF Reposo, EstadoHilo, PcKernel, PcCpu

LEMMA HiloTipo ==
  ASSUME TypeOK PROVE \A h \in Hilos : hilo[h] \in EstadoHilo
  BY DEF TypeOK

\* A process that dies keeps every table as it was.
LEMMA CaerTypeOK == ASSUME TypeOK, NEW c \in Causas, Caer(c) PROVE TypeOK'
  BY DEF Caer, TypeOK, marcosVars

LEMMA NextTypeOK ==
  ASSUME TypeOK, HilosCoherentes, [Next]_vars PROVE TypeOK'
<1>1. ASSUME NEW p \in Procesos, IniciarEstructura(p)
      PROVE TypeOK'
  BY <1>1, EmptySeq
  DEF IniciarEstructura, TypeOK, marcosVars, Caer, Causas
<1>2. ASSUME NEW p \in Procesos, LiberarEstructura(p)
      PROVE TypeOK'
  <2> DEFINE r == [pc |-> "destruir", pid |-> p, faltan |-> 0, marco |-> NULO]
  <2>3. r \in EstadoHilo /\ r.pc \in PcKernel
    BY <1>2, HiloTipo, ReposoTipo
    DEF EstadoHilo, Hilos, PcKernel, PcCpu, Reposo, PcTrasSoltar
  <2>4. Sigue("kernel", r)
    BY <1>2 DEF LiberarEstructura
  <2> HIDE DEF r
  <2> QED
    BY <1>2, <2>3, <2>4, SigueTipo
    DEF LiberarEstructura, TypeOK, marcosVars, Hilos
<1>3. ASSUME NEW p \in Procesos, LiberarDesconocido(p)
      PROVE TypeOK'
  BY <1>3
  DEF LiberarDesconocido, TypeOK, marcosVars, Caer, Causas
<1>4. ASSUME DestruirPagina
      PROVE TypeOK'
  <2>1. hilo["kernel"].pid \in Procesos
    BY <1>4 DEF DestruirPagina, HilosCoherentes, TypeOK
  <2>2. /\ Head(tabla_paginas[hilo["kernel"].pid]) \in Marcos
        /\ Tail(tabla_paginas[hilo["kernel"].pid]) \in Seq(Marcos)
    BY <1>4, <2>1, HeadTailProperties DEF DestruirPagina, TypeOK
  <2> DEFINE r == [hilo["kernel"] EXCEPT !.pc = "soltar_new",
                              !.marco = Head(tabla_paginas[hilo["kernel"].pid])]
  <2>3. r \in EstadoHilo /\ r.pc \in PcKernel
    BY <1>4, HiloTipo, ReposoTipo, <2>2
    DEF EstadoHilo, Hilos, PcKernel, PcCpu, Reposo, PcTrasSoltar
  <2>4. Sigue("kernel", r)
    BY <1>4 DEF DestruirPagina
  <2> HIDE DEF r
  <2> QED
    BY <1>4, <2>1, <2>2, <2>3, <2>4, SigueTipo
    DEF DestruirPagina, TypeOK, marcosVars, Hilos
<1>5. ASSUME FinDestruir
      PROVE TypeOK'
  <2> DEFINE r == Reposo
  <2>3. r \in EstadoHilo /\ r.pc \in PcKernel
    BY <1>5, HiloTipo, ReposoTipo
    DEF EstadoHilo, Hilos, PcKernel, PcCpu, Reposo, PcTrasSoltar
  <2>4. Sigue("kernel", r)
    BY <1>5 DEF FinDestruir
  <2> HIDE DEF r
  <2> QED
    BY <1>5, <2>3, <2>4, SigueTipo
    DEF FinDestruir, TypeOK, marcosVars, Hilos
<1>6. ASSUME NEW h \in Hilos, SoltarNew(h)
      PROVE TypeOK'
  <2>1. CASE ~PuedeLiberarse(info_new[hilo[h].marco])
    BY <1>6, <2>1, CaerTypeOK DEF SoltarNew, Causas
  <2>2. CASE PuedeLiberarse(info_new[hilo[h].marco])
    <3> DEFINE r == [hilo[h] EXCEPT !.pc = "soltar_old"]
    <3>3. r \in EstadoHilo /\ r.pc \in (IF h = "kernel" THEN PcKernel ELSE PcCpu)
      BY <1>6, HiloTipo, ReposoTipo
      DEF EstadoHilo, Hilos, PcKernel, PcCpu, Reposo, PcTrasSoltar
    <3>4. Sigue(h, r)
      BY <1>6, <2>2 DEF SoltarNew
    <3> HIDE DEF r
    <3> QED
      BY <1>6, <2>2, <3>3, <3>4, SigueTipo
      DEF SoltarNew, TypeOK, marcosVars, Hilos
  <2> QED
    BY <2>1, <2>2
<1>7. ASSUME NEW h \in Hilos, SoltarOld(h)
      PROVE TypeOK'
  <2>1. CASE ~PuedeLiberarse(info_old[hilo[h].marco])
    BY <1>7, <2>1, CaerTypeOK DEF SoltarOld, Causas
  <2>2. CASE PuedeLiberarse(info_old[hilo[h].marco])
    <3> DEFINE r == [hilo[h] EXCEPT !.pc = PcTrasSoltar(h), !.marco = NULO]
    <3>3. r \in EstadoHilo /\ r.pc \in (IF h = "kernel" THEN PcKernel ELSE PcCpu)
      BY <1>7, HiloTipo, ReposoTipo
      DEF EstadoHilo, Hilos, PcKernel, PcCpu, Reposo, PcTrasSoltar
    <3>4. Sigue(h, r)
      BY <1>7, <2>2 DEF SoltarOld
    <3> HIDE DEF r
    <3> QED
      BY <1>7, <2>2, <3>3, <3>4, SigueTipo
      DEF SoltarOld, TypeOK, marcosVars, Hilos
  <2> QED
    BY <2>1, <2>2
<1>8. ASSUME NEW p \in Procesos, NEW bytes \in 0..MaxTamanio, Resize(p, bytes)
      PROVE TypeOK'
  <2>1. /\ Len(tabla_paginas[p]) \in Nat
        /\ PaginasDe(bytes) \in Nat
    <3>1. tabla_paginas[p] \in Seq(Marcos)
      BY DEF TypeOK
    <3>2. PaginasDe(bytes) \in Nat
      BY MemoriaAssumption DEF PaginasDe
    <3> QED
      BY <3>1, <3>2, LenProperties
  <2> DEFINE r == IF PaginasDe(bytes) >= Len(tabla_paginas[p])
                THEN [pc |-> "ampliar", pid |-> p,
                      faltan |-> PaginasDe(bytes) - Len(tabla_paginas[p]),
                      marco |-> NULO]
                ELSE [pc |-> "eliminar", pid |-> p,
                      faltan |-> Len(tabla_paginas[p]) - PaginasDe(bytes),
                      marco |-> NULO]
  <2>3. r \in EstadoHilo /\ r.pc \in PcCpu
    BY <1>8, HiloTipo, ReposoTipo, <2>1
    DEF EstadoHilo, Hilos, PcKernel, PcCpu, Reposo, PcTrasSoltar
  <2>4. Sigue("cpu", r)
    BY <1>8 DEF Resize
  <2> HIDE DEF r
  <2> QED
    BY <1>8, <2>1, <2>3, <2>4, SigueTipo
    DEF Resize, TypeOK, marcosVars, Hilos
<1>9. ASSUME PuedoCargar
      PROVE TypeOK'
  <2> DEFINE r == IF hilo["cpu"].faltan <= cantidad_de_marcos_libres
                THEN [hilo["cpu"] EXCEPT !.pc = "agregar"] ELSE Reposo
  <2>3. r \in EstadoHilo /\ r.pc \in PcCpu
    BY <1>9, HiloTipo, ReposoTipo
    DEF EstadoHilo, Hilos, PcKernel, PcCpu, Reposo, PcTrasSoltar
  <2>4. Sigue("cpu", r)
    BY <1>9 DEF PuedoCargar, HayLugar
  <2> HIDE DEF r
  <2> QED
    BY <1>9, <2>3, <2>4, SigueTipo
    DEF PuedoCargar, HayLugar, TypeOK, marcosVars, Hilos
<1>10. ASSUME ObtenerMarcoLibre PROVE TypeOK'
  <2>1. CASE MarcosLibres = {}
    BY <1>10, <2>1, CaerTypeOK DEF ObtenerMarcoLibre, Causas
  <2>2. CASE MarcosLibres # {}
    <3> PICK m \in Marcos :
          /\ Sigue("cpu", [hilo["cpu"] EXCEPT !.pc = "elegido", !.marco = m])
          /\ UNCHANGED <<list_procss_recibidos, creados, tabla_paginas,
                         marcosVars, pedidos_io, respuesta, caido>>
      BY <1>10, <2>2 DEF ObtenerMarcoLibre
    <3> DEFINE r == [hilo["cpu"] EXCEPT !.pc = "elegido", !.marco = m]
    <3>1. r \in EstadoHilo /\ r.pc \in PcCpu
      BY HiloTipo DEF EstadoHilo, Hilos, PcCpu
    <3>2. Sigue("cpu", r)
      OBVIOUS
    <3> HIDE DEF r
    <3> QED
      BY <3>1, <3>2, SigueTipo DEF TypeOK, marcosVars, Hilos
  <2> QED
    BY <2>1, <2>2
<1>11. ASSUME MoverInfo
      PROVE TypeOK'
  <2>1. CASE ~PuedeLiberarse(info_old[hilo["cpu"].marco])
    BY <1>11, <2>1, CaerTypeOK DEF MoverInfo, Causas
  <2>2. CASE PuedeLiberarse(info_old[hilo["cpu"].marco])
    <3> DEFINE r == [hilo["cpu"] EXCEPT !.pc = "movido"]
    <3>3. r \in EstadoHilo /\ r.pc \in PcCpu
      BY <1>11, HiloTipo, ReposoTipo
      DEF EstadoHilo, Hilos, PcKernel, PcCpu, Reposo, PcTrasSoltar
    <3>4. Sigue("cpu", r)
      BY <1>11, <2>2 DEF MoverInfo
    <3> HIDE DEF r
    <3> QED
      BY <1>11, <2>2, <3>3, <3>4, SigueTipo
      DEF MoverInfo, TypeOK, marcosVars, Hilos
  <2> QED
    BY <2>1, <2>2
<1>12. ASSUME ReservarInfo
      PROVE TypeOK'
  <2>1. heap' \subseteq Bloques /\ info_new' \in [Marcos -> Bloques \union {NULO}]
    BY <1>12 DEF ReservarInfo, TypeOK
  <2> DEFINE r == [hilo["cpu"] EXCEPT !.pc = "reservado"]
  <2>3. r \in EstadoHilo /\ r.pc \in PcCpu
    BY <1>12, HiloTipo, ReposoTipo
    DEF EstadoHilo, Hilos, PcKernel, PcCpu, Reposo, PcTrasSoltar
  <2>4. Sigue("cpu", r)
    BY <1>12 DEF ReservarInfo
  <2> HIDE DEF r
  <2> QED
    BY <1>12, <2>1, <2>3, <2>4, SigueTipo
    DEF ReservarInfo, TypeOK, marcosVars, Hilos
<1>13. ASSUME OcuparMarco
      PROVE TypeOK'
  <2>1. /\ hilo["cpu"].pid \in Procesos
        /\ hilo["cpu"].marco \in Marcos
        /\ hilo["cpu"].faltan \in Nat \ {0}
        /\ hilo["cpu"].faltan - 1 \in Nat
    <3>1. hilo["cpu"].pid \in Procesos /\ hilo["cpu"].marco \in Marcos
      BY <1>13 DEF OcuparMarco, HilosCoherentes, TypeOK
    <3>2. hilo["cpu"].faltan \in Nat /\ hilo["cpu"].faltan > 0
      BY <1>13, HiloTipo DEF OcuparMarco, HilosCoherentes, Hilos, EstadoHilo
    <3> QED
      BY <3>1, <3>2
  <2>2. /\ libre' \in [Marcos -> BOOLEAN]
        /\ tabla_paginas' \in [Procesos -> Seq(Marcos)]
    <3>1. Append(tabla_paginas[hilo["cpu"].pid], hilo["cpu"].marco) \in Seq(Marcos)
      BY <2>1, AppendProperties DEF TypeOK
    <3>2. libre' \in [Marcos -> BOOLEAN]
      BY <1>13 DEF OcuparMarco, TypeOK
    <3>3. tabla_paginas' \in [Procesos -> Seq(Marcos)]
      BY <1>13, <3>1 DEF OcuparMarco, TypeOK
    <3> QED
      BY <3>2, <3>3
  <2> DEFINE r == [hilo["cpu"] EXCEPT !.pc = "agregar", !.faltan = @ - 1,
                                   !.marco = NULO]
  <2>3. r \in EstadoHilo /\ r.pc \in PcCpu
    BY <1>13, HiloTipo, ReposoTipo, <2>1
    DEF EstadoHilo, Hilos, PcKernel, PcCpu, Reposo, PcTrasSoltar
  <2>4. Sigue("cpu", r)
    BY <1>13 DEF OcuparMarco
  <2> HIDE DEF r
  <2> QED
    BY <1>13, <2>1, <2>2, <2>3, <2>4, SigueTipo
    DEF OcuparMarco, TypeOK, marcosVars, Hilos
<1>14. ASSUME EliminarPagina
      PROVE TypeOK'
  <2>1. /\ hilo["cpu"].pid \in Procesos
        /\ hilo["cpu"].faltan \in Nat \ {0}
        /\ hilo["cpu"].faltan - 1 \in Nat
        /\ tabla_paginas[hilo["cpu"].pid] \in Seq(Marcos)
        /\ Len(tabla_paginas[hilo["cpu"].pid]) \in Nat \ {0}
    <3>1. hilo["cpu"].pid \in Procesos
      BY <1>14 DEF EliminarPagina, HilosCoherentes, TypeOK
    <3>2. hilo["cpu"].faltan \in Nat \ {0}
      BY <1>14, HiloTipo DEF EliminarPagina, EstadoHilo, Hilos
    <3>3. tabla_paginas[hilo["cpu"].pid] \in Seq(Marcos)
      BY <3>1 DEF TypeOK
    <3> QED
      BY <1>14, <3>1, <3>2, <3>3, LenProperties
      DEF EliminarPagina, HilosCoherentes, EnReduccion
  <2>2. /\ tabla_paginas[hilo["cpu"].pid][Len(tabla_paginas[hilo["cpu"].pid])] \in Marcos
        /\ SubSeq(tabla_paginas[hilo["cpu"].pid], 1, Len(tabla_paginas[hilo["cpu"].pid]) - 1) \in Seq(Marcos)
    BY <2>1, ElementOfSeq, SubSeqProperties
  <2> DEFINE r == [hilo["cpu"] EXCEPT !.pc = "soltar_new", !.faltan = @ - 1,
                   !.marco = tabla_paginas[hilo["cpu"].pid][Len(tabla_paginas[hilo["cpu"].pid])]]
  <2>3. r \in EstadoHilo /\ r.pc \in PcCpu
    BY <1>14, HiloTipo, ReposoTipo, <2>1, <2>2
    DEF EstadoHilo, Hilos, PcKernel, PcCpu, Reposo, PcTrasSoltar
  <2>4. Sigue("cpu", r)
    BY <1>14 DEF EliminarPagina
  <2> HIDE DEF r
  <2> QED
    BY <1>14, <2>1, <2>2, <2>3, <2>4, SigueTipo
    DEF EliminarPagina, TypeOK, marcosVars, Hilos
<1>15. ASSUME ResponderResize
      PROVE TypeOK'
  <2> DEFINE r == Reposo
  <2>3. r \in EstadoHilo /\ r.pc \in PcCpu
    BY <1>15, HiloTipo, ReposoTipo
    DEF EstadoHilo, Hilos, PcKernel, PcCpu, Reposo, PcTrasSoltar
  <2>4. Sigue("cpu", r)
    BY <1>15 DEF ResponderResize, BucleTerminado
  <2> HIDE DEF r
  <2> QED
    BY <1>15, <2>3, <2>4, SigueTipo
    DEF ResponderResize, BucleTerminado, TypeOK, marcosVars, Hilos
<1>16. ASSUME NEW p \in Procesos, NEW pagina \in 0..PaginasDe(MaxTamanio),
             ConsultaDePagina(p, pagina)
      PROVE TypeOK'
  BY <1>16
  DEF ConsultaDePagina, TypeOK, marcosVars, Caer, Causas
<1>17. ASSUME NEW p \in Procesos, NEW pagina \in 0..PaginasDe(MaxTamanio),
             PedirIO(p, pagina)
      PROVE TypeOK'
  <2>1. tabla_paginas[p] \in Seq(Marcos)
    BY DEF TypeOK
  <2>2. pagina + 1 \in 1..Len(tabla_paginas[p])
    BY <1>17, <2>1, LenProperties DEF PedirIO
  <2>3. tabla_paginas[p][pagina + 1] \in Marcos
    BY <2>1, <2>2, ElementOfSeq
  <2> QED
    <3>1. pedidos_io' \subseteq [pid: Procesos, marco: Marcos]
      <4>1. [pid |-> p, marco |-> tabla_paginas[p][pagina + 1]]
              \in [pid: Procesos, marco: Marcos]
        BY <2>3
      <4> QED
        BY <1>17, <4>1 DEF PedirIO, TypeOK
    <3>2. UNCHANGED <<list_procss_recibidos, creados, tabla_paginas, marcosVars,
                      hilo, respuesta, caido>>
      BY <1>17 DEF PedirIO
    <3> QED
      BY <3>1, <3>2 DEF TypeOK, marcosVars
<1>18. ASSUME NEW r \in pedidos_io, AccederIO(r)
      PROVE TypeOK'
  BY <1>18
  DEF AccederIO, TypeOK, marcosVars, Caer, Causas
<1>19. ASSUME UNCHANGED vars
      PROVE TypeOK'
  BY <1>19
  DEF vars, TypeOK, marcosVars, Caer, Causas
<1> QED
  BY <1>1, <1>2, <1>3, <1>4, <1>5, <1>6, <1>7, <1>8, <1>9, <1>10, <1>11,
      <1>12, <1>13, <1>14, <1>15, <1>16, <1>17, <1>18, <1>19
  DEF Next, HiloKernel, HiloCpu, HilosIO, Terminado, Hilos

-----------------------------------------------------------------------------
(* The frames: what taking and giving back one page does to the tables     *)

LEMMA TablaTipo ==
  ASSUME TypeOK, NEW p \in Procesos
  PROVE  /\ tabla_paginas[p] \in Seq(Marcos)
         /\ Len(tabla_paginas[p]) \in Nat
         /\ DOMAIN tabla_paginas[p] = 1..Len(tabla_paginas[p])
         /\ \A i \in DOMAIN tabla_paginas[p] : tabla_paginas[p][i] \in Marcos
<1>1. tabla_paginas[p] \in Seq(Marcos)
  BY DEF TypeOK
<1> QED
  BY <1>1, LenProperties, ElementOfSeq

\* A page joins a table on a frame that was free.
LEMMA TomarMarco ==
  ASSUME TypeOK, MarcosExclusivos, LibreSiiSinPagina,
         NEW p \in Procesos, NEW m \in Marcos, libre[m],
         libre' = [libre EXCEPT ![m] = FALSE],
         tabla_paginas' = [tabla_paginas EXCEPT ![p] = Append(@, m)]
  PROVE  MarcosExclusivos' /\ LibreSiiSinPagina'
<1> DEFINE t == tabla_paginas[p]
<1>1. /\ tabla_paginas'[p] = Append(t, m)
      /\ \A q \in Procesos \ {p} : tabla_paginas'[q] = tabla_paginas[q]
  BY DEF TypeOK
<1>2. /\ DOMAIN tabla_paginas'[p] = 1..(Len(t) + 1)
      /\ \A i \in 1..Len(t) : tabla_paginas'[p][i] = t[i]
      /\ tabla_paginas'[p][Len(t) + 1] = m
      /\ DOMAIN t = 1..Len(t)
      /\ Len(t) \in Nat
  <2>1. t \in Seq(Marcos) /\ Len(t) \in Nat /\ DOMAIN t = 1..Len(t)
    BY TablaTipo
  <2>2. Append(t, m) \in Seq(Marcos) /\ Len(Append(t, m)) = Len(t) + 1
    BY <2>1, AppendProperties
  <2>3. DOMAIN Append(t, m) = 1..(Len(t) + 1)
    BY <2>2, LenProperties
  <2>4. /\ \A i \in 1..Len(t) : Append(t, m)[i] = t[i]
        /\ Append(t, m)[Len(t) + 1] = m
    BY <2>1, AppendProperties
  <2> QED
    BY <1>1, <2>1, <2>3, <2>4
<1>3. \A q \in Procesos : \A i \in DOMAIN tabla_paginas[q] :
        tabla_paginas[q][i] # m
  BY DEF LibreSiiSinPagina
<1>4. \A q \in Procesos : \A i \in DOMAIN tabla_paginas'[q] :
        \/ i \in DOMAIN tabla_paginas[q] /\ tabla_paginas'[q][i] = tabla_paginas[q][i]
        \/ q = p /\ i = Len(t) + 1 /\ tabla_paginas'[q][i] = m
  BY <1>1, <1>2
<1>5. \A q \in Procesos : \A i \in DOMAIN tabla_paginas[q] :
        i \in DOMAIN tabla_paginas'[q] /\ tabla_paginas'[q][i] = tabla_paginas[q][i]
  BY <1>1, <1>2
<1>6. MarcosExclusivos'
  <2> SUFFICES ASSUME NEW q1 \in Procesos, NEW q2 \in Procesos,
                      NEW i \in DOMAIN tabla_paginas'[q1],
                      NEW j \in DOMAIN tabla_paginas'[q2],
                      tabla_paginas'[q1][i] = tabla_paginas'[q2][j]
               PROVE  q1 = q2 /\ i = j
    BY DEF MarcosExclusivos
  <2> HIDE DEF t
  <2>1. \/ i \in DOMAIN tabla_paginas[q1] /\ tabla_paginas'[q1][i] = tabla_paginas[q1][i]
        \/ q1 = p /\ i = Len(t) + 1 /\ tabla_paginas'[q1][i] = m
    BY <1>4
  <2>2. \/ j \in DOMAIN tabla_paginas[q2] /\ tabla_paginas'[q2][j] = tabla_paginas[q2][j]
        \/ q2 = p /\ j = Len(t) + 1 /\ tabla_paginas'[q2][j] = m
    BY <1>4
  <2> QED
    BY <2>1, <2>2, <1>3 DEF MarcosExclusivos
<1>7. LibreSiiSinPagina'
  <2> SUFFICES ASSUME NEW n \in Marcos
               PROVE  libre'[n] <=> \A q \in Procesos :
                        \A i \in DOMAIN tabla_paginas'[q] : tabla_paginas'[q][i] # n
    BY DEF LibreSiiSinPagina
  <2>1. CASE n = m
    <3>1. ~libre'[m]
      BY DEF TypeOK
    <3>2. Len(t) + 1 \in DOMAIN tabla_paginas'[p]
      BY <1>2
    <3> QED
      BY <2>1, <3>1, <3>2, <1>2
  <2>2. CASE n # m
    <3>1. libre'[n] = libre[n]
      BY <2>2 DEF TypeOK
    <3>2. (\A q \in Procesos : \A i \in DOMAIN tabla_paginas'[q] : tabla_paginas'[q][i] # n)
          <=> (\A q \in Procesos : \A i \in DOMAIN tabla_paginas[q] : tabla_paginas[q][i] # n)
      BY <2>2, <1>4, <1>5
    <3> QED
      BY <3>1, <3>2 DEF LibreSiiSinPagina
  <2> QED
    BY <2>1, <2>2
<1> QED
  BY <1>6, <1>7

\* A page leaves a table, from its head (d = 1) or from its end (d = 0), and
\* its frame becomes free.
LEMMA DevolverMarco ==
  ASSUME TypeOK, MarcosExclusivos, LibreSiiSinPagina,
         NEW p \in Procesos, NEW d \in {0, 1}, NEW k, NEW s \in Seq(Marcos),
         tabla_paginas[p] # <<>>,
         k = (IF d = 1 THEN 1 ELSE Len(tabla_paginas[p])),
         Len(s) = Len(tabla_paginas[p]) - 1,
         \A i \in 1..Len(s) : s[i] = tabla_paginas[p][i + d],
         libre' = [libre EXCEPT ![tabla_paginas[p][k]] = TRUE],
         tabla_paginas' = [tabla_paginas EXCEPT ![p] = s]
  PROVE  MarcosExclusivos' /\ LibreSiiSinPagina'
<1> DEFINE t == tabla_paginas[p]
           m == t[k]
           origen(q, i) == IF q = p THEN i + d ELSE i
<1>1. /\ tabla_paginas'[p] = s
      /\ \A q \in Procesos \ {p} : tabla_paginas'[q] = tabla_paginas[q]
  BY DEF TypeOK
<1>2. /\ Len(t) \in Nat \ {0}
      /\ DOMAIN t = 1..Len(t)
      /\ DOMAIN s = 1..(Len(t) - 1)
      /\ k \in 1..Len(t)
      /\ m \in Marcos
  <2>1. t \in Seq(Marcos) /\ Len(t) \in Nat /\ DOMAIN t = 1..Len(t)
    BY TablaTipo
  <2>2. Len(t) # 0
    BY <2>1, EmptySeq
  <2>3. k \in 1..Len(t)
    BY <2>1, <2>2
  <2>4. DOMAIN s = 1..Len(s)
    BY LenProperties
  <2> QED
    BY <2>1, <2>2, <2>3, <2>4, ElementOfSeq
<1>3. \A q \in Procesos : \A i \in DOMAIN tabla_paginas'[q] :
        /\ origen(q, i) \in DOMAIN tabla_paginas[q]
        /\ tabla_paginas'[q][i] = tabla_paginas[q][origen(q, i)]
        /\ q = p => origen(q, i) # k /\ i \in Int
  <2> SUFFICES ASSUME NEW q \in Procesos, NEW i \in DOMAIN tabla_paginas'[q]
               PROVE  /\ origen(q, i) \in DOMAIN tabla_paginas[q]
                      /\ tabla_paginas'[q][i] = tabla_paginas[q][origen(q, i)]
                      /\ q = p => origen(q, i) # k /\ i \in Int
    OBVIOUS
  <2>1. CASE q = p
    <3>1. i \in 1..(Len(t) - 1) /\ s[i] = t[i + d]
      BY <2>1, <1>1, <1>2
    <3>2. i + d \in 1..Len(t) /\ i + d # k
      BY <3>1, <1>2
    <3> QED
      BY <2>1, <3>1, <3>2, <1>1, <1>2
  <2>2. CASE q # p
    BY <2>2, <1>1
  <2> QED
    BY <2>1, <2>2
<1>4. \A q \in Procesos : \A j \in DOMAIN tabla_paginas[q] :
        (q = p /\ j = k) \/ \E i \in DOMAIN tabla_paginas'[q] :
                              tabla_paginas'[q][i] = tabla_paginas[q][j]
  <2> SUFFICES ASSUME NEW q \in Procesos, NEW j \in DOMAIN tabla_paginas[q],
                      ~(q = p /\ j = k)
               PROVE  \E i \in DOMAIN tabla_paginas'[q] :
                        tabla_paginas'[q][i] = tabla_paginas[q][j]
    OBVIOUS
  <2>1. CASE q = p
    <3>1. j \in 1..Len(t) /\ j # k
      BY <2>1, <1>2
    <3>2. j - d \in 1..(Len(t) - 1) /\ (j - d) + d = j
      BY <3>1, <1>2
    <3>3. s[j - d] = t[j]
      BY <3>2
    <3> QED
      BY <2>1, <3>2, <3>3, <1>1, <1>2
  <2>2. CASE q # p
    BY <2>2, <1>1
  <2> QED
    BY <2>1, <2>2
<1>5. MarcosExclusivos'
  <2> SUFFICES ASSUME NEW q1 \in Procesos, NEW q2 \in Procesos,
                      NEW i \in DOMAIN tabla_paginas'[q1],
                      NEW j \in DOMAIN tabla_paginas'[q2],
                      tabla_paginas'[q1][i] = tabla_paginas'[q2][j]
               PROVE  q1 = q2 /\ i = j
    BY DEF MarcosExclusivos
  <2>1. q1 = q2 /\ origen(q1, i) = origen(q2, j)
    <3> HIDE DEF origen
    <3> QED
      BY <1>3 DEF MarcosExclusivos
  <2> QED
    BY <2>1, <1>3
<1>6. LibreSiiSinPagina'
  <2> SUFFICES ASSUME NEW n \in Marcos
               PROVE  libre'[n] <=> \A q \in Procesos :
                        \A i \in DOMAIN tabla_paginas'[q] : tabla_paginas'[q][i] # n
    BY DEF LibreSiiSinPagina
  <2>1. CASE n = m
    <3>1. libre'[n]
      BY <2>1, <1>2 DEF TypeOK
    <3>2. ASSUME NEW q \in Procesos, NEW i \in DOMAIN tabla_paginas'[q],
                 tabla_paginas'[q][i] = n
          PROVE  FALSE
      <4>1. tabla_paginas[q][origen(q, i)] = tabla_paginas[p][k]
        BY <3>2, <2>1, <1>3
      <4>2. q = p /\ origen(q, i) = k
        <5> HIDE DEF origen
        <5> QED
          BY <4>1, <1>2, <1>3 DEF MarcosExclusivos
      <4> QED
        BY <4>2, <1>3
    <3> QED
      BY <3>1, <3>2
  <2>2. CASE n # m
    <3>1. libre'[n] = libre[n]
      BY <2>2 DEF TypeOK
    <3>2. (\A q \in Procesos : \A i \in DOMAIN tabla_paginas'[q] : tabla_paginas'[q][i] # n)
          <=> (\A q \in Procesos : \A i \in DOMAIN tabla_paginas[q] : tabla_paginas[q][i] # n)
      <4>1. ASSUME NEW q \in Procesos, NEW i \in DOMAIN tabla_paginas'[q],
                   tabla_paginas'[q][i] = n
            PROVE  \E j \in DOMAIN tabla_paginas[q] : tabla_paginas[q][j] = n
        BY <4>1, <1>3
      <4>2. ASSUME NEW q \in Procesos, NEW j \in DOMAIN tabla_paginas[q],
                   tabla_paginas[q][j] = n
            PROVE  \E i \in DOMAIN tabla_paginas'[q] : tabla_paginas'[q][i] = n
        <5>1. ~(q = p /\ j = k)
          BY <4>2, <2>2
        <5> QED
          BY <5>1, <4>2, <1>4
      <4> QED
        BY <4>1, <4>2
    <3> QED
      BY <3>1, <3>2 DEF LibreSiiSinPagina
  <2> QED
    BY <2>1, <2>2
<1> QED
  BY <1>5, <1>6

-----------------------------------------------------------------------------
(* The invariant is inductive *)

\* A step of a thread that only moves its program counter on, or a death.
LEMMA TablasIgualesIInv ==
  ASSUME IInv, TypeOK', UNCHANGED <<tabla_paginas, libre, creados>>,
         HilosCoherentes', \A h \in Hilos : hilo'[h].pc = "reposo" => hilo'[h] = Reposo
  PROVE  IInv'
  BY DEF IInv, EnReposo, MarcosExclusivos, LibreSiiSinPagina

LEMMA SigueValor ==
  ASSUME TypeOK, NEW h \in Hilos, NEW r, Sigue(h, r)
  PROVE  /\ hilo'[h] = r
         /\ \A g \in Hilos \ {h} : hilo'[g] = hilo[g]
  BY DEF TypeOK, Sigue

LEMMA NextIInv == ASSUME IInv, [Next]_vars PROVE IInv'
<1> USE DEF EnReduccion
<1>0. TypeOK'
  BY NextTypeOK DEF IInv
<1>1. ASSUME NEW p \in Procesos, IniciarEstructura(p) PROVE IInv'
  <2>1. tabla_paginas' = tabla_paginas
    BY <1>1 DEF IniciarEstructura, IInv, EnReposo, TypeOK
  <2> QED
    BY <1>0, <1>1, <2>1 DEF IniciarEstructura, marcosVars, IInv, EnReposo,
       HilosCoherentes, MarcosExclusivos, LibreSiiSinPagina
<1>2. ASSUME NEW p \in Procesos, LiberarEstructura(p) PROVE IInv'
  <2>1. /\ hilo'["kernel"] = [pc |-> "destruir", pid |-> p, faltan |-> 0, marco |-> NULO]
        /\ hilo'["cpu"] = hilo["cpu"]
    BY <1>2, SigueValor DEF LiberarEstructura, IInv, Hilos
  <2>2. HilosCoherentes'
    <3>1. /\ hilo'["kernel"].pc = "destruir" /\ hilo'["kernel"].pid = p
          /\ p \in creados /\ hilo["cpu"].pid # p
      <4>1. p \in creados
        BY <1>2 DEF LiberarEstructura, IInv, TypeOK
      <4>2. hilo["cpu"].pid # p
        BY <1>2 DEF LiberarEstructura
      <4> QED
        BY <2>1, <4>1, <4>2
    <3>2. UNCHANGED <<creados, libre, tabla_paginas>>
      BY <1>2 DEF LiberarEstructura, marcosVars
    <3> QED
      BY <2>1, <3>1, <3>2 DEF IInv, HilosCoherentes
  <2> QED
    BY <1>0, <1>2, <2>1, <2>2, TablasIgualesIInv
    DEF LiberarEstructura, marcosVars, IInv, EnReposo, Hilos
<1>3. ASSUME NEW c \in Causas, Caer(c) PROVE IInv'
  BY <1>0, <1>3 DEF Caer, marcosVars, IInv, EnReposo, HilosCoherentes,
     MarcosExclusivos, LibreSiiSinPagina
<1>4. ASSUME DestruirPagina PROVE IInv'
  <2> DEFINE p == hilo["kernel"].pid
             t == tabla_paginas[p]
  <2>1. p \in Procesos /\ t # <<>>
    BY <1>4 DEF DestruirPagina, IInv, HilosCoherentes, TypeOK
  <2>2. /\ Head(t) = t[1]
        /\ Tail(t) \in Seq(Marcos)
        /\ Len(Tail(t)) = Len(t) - 1
        /\ \A i \in 1..Len(Tail(t)) : Tail(t)[i] = t[i + 1]
        /\ Head(t) \in Marcos
    <3>1. t \in Seq(Marcos)
      BY <2>1, TablaTipo DEF IInv
    <3> QED
      BY <3>1, <2>1, HeadTailProperties
  <2>3. /\ hilo'["kernel"] = [hilo["kernel"] EXCEPT !.pc = "soltar_new", !.marco = Head(t)]
        /\ hilo'["cpu"] = hilo["cpu"]
    BY <1>4, SigueValor DEF DestruirPagina, IInv, Hilos
  <2>4. MarcosExclusivos' /\ LibreSiiSinPagina'
    <3>1. libre' = [libre EXCEPT ![t[1]] = TRUE]
      BY <1>4, <2>2 DEF DestruirPagina
    <3>2. tabla_paginas' = [tabla_paginas EXCEPT ![p] = Tail(t)]
      BY <1>4 DEF DestruirPagina
    <3> HIDE DEF p
    <3> QED
      BY <2>1, <2>2, <3>1, <3>2, DevolverMarco DEF IInv
  <2>5. /\ hilo'["kernel"].pc = "soltar_new" /\ hilo'["kernel"].pid = p
        /\ hilo'["kernel"].marco \in Marcos
    BY <2>2, <2>3, HiloTipo DEF IInv, Hilos, EstadoHilo
  <2>6. HilosCoherentes'
    <3>1. /\ \A m \in Marcos : libre[m] => libre'[m]
          /\ \A q \in Procesos \ {p} : tabla_paginas'[q] = tabla_paginas[q]
          /\ creados' = creados
      BY <1>4, <2>2 DEF DestruirPagina, IInv, TypeOK
    <3> QED
      BY <1>4, <2>3, <2>5, <3>1 DEF DestruirPagina, IInv, HilosCoherentes, TypeOK
  <2>7. EnReposo'
    BY <1>4, <2>1, <2>3, <2>5 DEF DestruirPagina, IInv, EnReposo, Hilos, HilosCoherentes, TypeOK
  <2> QED
    BY <1>0, <2>4, <2>6, <2>7 DEF IInv
<1>5. ASSUME FinDestruir PROVE IInv'
  <2>1. hilo'["kernel"] = Reposo /\ hilo'["cpu"] = hilo["cpu"]
    BY <1>5, SigueValor DEF FinDestruir, IInv, Hilos
  <2>2. UNCHANGED <<creados, libre, tabla_paginas>>
    BY <1>5 DEF FinDestruir, marcosVars
  <2>3. HilosCoherentes'
    BY <2>1, <2>2 DEF IInv, HilosCoherentes, Reposo
  <2> QED
    BY <1>0, <2>1, <2>2, <2>3, TablasIgualesIInv DEF IInv, EnReposo, Hilos
<1>6. ASSUME NEW h \in Hilos, SoltarNew(h) PROVE IInv'
  <2>1. CASE ~PuedeLiberarse(info_new[hilo[h].marco])
    BY <1>3, <1>6, <2>1 DEF SoltarNew, Causas
  <2>2. CASE PuedeLiberarse(info_new[hilo[h].marco])
    <3>1. /\ hilo'[h] = [hilo[h] EXCEPT !.pc = "soltar_old"]
          /\ \A g \in Hilos \ {h} : hilo'[g] = hilo[g]
      BY <1>6, <2>2, SigueValor DEF SoltarNew, IInv
    <3>2. UNCHANGED <<creados, libre, tabla_paginas>>
      BY <1>6, <2>2 DEF SoltarNew
    <3>3. /\ hilo[h].pc = "soltar_new" /\ hilo'[h].pc = "soltar_old"
          /\ hilo'[h].pid = hilo[h].pid /\ hilo'[h].marco = hilo[h].marco
          /\ hilo'[h].faltan = hilo[h].faltan
      BY <1>6, <3>1, HiloTipo DEF SoltarNew, IInv, EstadoHilo
    <3>4. HilosCoherentes'
      BY <3>1, <3>2, <3>3 DEF IInv, HilosCoherentes, Hilos
    <3> QED
      BY <1>0, <3>1, <3>2, <3>3, <3>4, TablasIgualesIInv DEF IInv, EnReposo
  <2> QED
    BY <2>1, <2>2
<1>7. ASSUME NEW h \in Hilos, SoltarOld(h) PROVE IInv'
  <2>1. CASE ~PuedeLiberarse(info_old[hilo[h].marco])
    BY <1>3, <1>7, <2>1 DEF SoltarOld, Causas
  <2>2. CASE PuedeLiberarse(info_old[hilo[h].marco])
    <3>1. /\ hilo'[h] = [hilo[h] EXCEPT !.pc = PcTrasSoltar(h), !.marco = NULO]
          /\ \A g \in Hilos \ {h} : hilo'[g] = hilo[g]
      BY <1>7, <2>2, SigueValor DEF SoltarOld, IInv
    <3>2. UNCHANGED <<creados, libre, tabla_paginas>>
      BY <1>7, <2>2 DEF SoltarOld
    <3>3. /\ hilo[h].pc = "soltar_old" /\ hilo'[h].pc = PcTrasSoltar(h)
          /\ hilo'[h].pid = hilo[h].pid
          /\ hilo'[h].faltan = hilo[h].faltan
      BY <1>7, <3>1, HiloTipo DEF SoltarOld, IInv, EstadoHilo
    <3>4. HilosCoherentes'
      BY <3>1, <3>2, <3>3 DEF IInv, HilosCoherentes, Hilos, PcTrasSoltar
    <3> QED
      BY <1>0, <3>1, <3>2, <3>3, <3>4, TablasIgualesIInv DEF IInv, EnReposo, PcTrasSoltar
  <2> QED
    BY <2>1, <2>2
<1>8. ASSUME NEW p \in Procesos, NEW bytes \in 0..MaxTamanio, Resize(p, bytes)
      PROVE IInv'
  <2>1. /\ hilo'["cpu"].pc \in {"ampliar", "eliminar"} /\ hilo'["cpu"].pid = p
        /\ hilo'["cpu"].pc = "eliminar" =>
              hilo'["cpu"].faltan = Len(tabla_paginas[p]) - PaginasDe(bytes)
        /\ hilo'["kernel"] = hilo["kernel"]
    <3> DEFINE nuevas == PaginasDe(bytes)
               actuales == Len(tabla_paginas[p])
               r == IF nuevas >= actuales
                    THEN [pc |-> "ampliar", pid |-> p, faltan |-> nuevas - actuales,
                          marco |-> NULO]
                    ELSE [pc |-> "eliminar", pid |-> p, faltan |-> actuales - nuevas,
                          marco |-> NULO]
    <3>1. Sigue("cpu", r)
      BY <1>8 DEF Resize
    <3>2. /\ r.pc \in {"ampliar", "eliminar"} /\ r.pid = p
          /\ r.pc = "eliminar" => r.faltan = actuales - nuevas
      OBVIOUS
    <3> HIDE DEF r
    <3>3. hilo'["cpu"] = r /\ hilo'["kernel"] = hilo["kernel"]
      BY <3>1, SigueValor DEF IInv, Hilos
    <3> QED
      BY <3>2, <3>3
  <2>2. UNCHANGED <<creados, libre, tabla_paginas>>
    BY <1>8 DEF Resize, marcosVars
  <2>3. hilo["kernel"].pc = "reposo" /\ p \in creados
    BY <1>8 DEF Resize, CpuPuedePedir, ListaDeProcesosOcupada
  <2>4. Len(tabla_paginas[p]) - PaginasDe(bytes) <= Len(tabla_paginas[p])
    <3>1. Len(tabla_paginas[p]) \in Nat
      BY TablaTipo DEF IInv
    <3>2. PaginasDe(bytes) \in Nat
      BY MemoriaAssumption DEF PaginasDe
    <3> QED
      BY <3>1, <3>2
  <2>5. HilosCoherentes'
    BY <2>1, <2>2, <2>3, <2>4 DEF IInv, HilosCoherentes
  <2> QED
    BY <1>0, <2>1, <2>2, <2>3, <2>5, TablasIgualesIInv DEF IInv, EnReposo, Hilos
<1>9. ASSUME PuedoCargar PROVE IInv'
  <2>1. hilo'["kernel"] = hilo["kernel"] /\ hilo["cpu"].pc = "ampliar"
    BY <1>9, SigueValor DEF PuedoCargar, HayLugar, IInv, Hilos
  <2>2. UNCHANGED <<creados, libre, tabla_paginas>>
    BY <1>9 DEF PuedoCargar, HayLugar, marcosVars
  <2>3. \/ hilo'["cpu"] = [hilo["cpu"] EXCEPT !.pc = "agregar"]
        \/ hilo'["cpu"] = Reposo
    BY <1>9, SigueValor DEF PuedoCargar, HayLugar, IInv, Hilos
  <2>4. \/ hilo'["cpu"].pc = "agregar" /\ hilo'["cpu"].pid = hilo["cpu"].pid
        \/ hilo'["cpu"] = Reposo
    BY <2>3, HiloTipo DEF IInv, Hilos, EstadoHilo
  <2>5. HilosCoherentes'
    BY <2>1, <2>2, <2>4 DEF IInv, HilosCoherentes, Reposo
  <2> QED
    BY <1>0, <2>1, <2>2, <2>4, <2>5, TablasIgualesIInv DEF IInv, EnReposo, Hilos
<1>10. ASSUME ObtenerMarcoLibre PROVE IInv'
  <2>1. CASE MarcosLibres = {}
    BY <1>3, <1>10, <2>1 DEF ObtenerMarcoLibre, Causas
  <2>2. CASE MarcosLibres # {}
    <3> PICK m \in Marcos :
          /\ EsPrimerLibre(m)
          /\ Sigue("cpu", [hilo["cpu"] EXCEPT !.pc = "elegido", !.marco = m])
          /\ UNCHANGED <<list_procss_recibidos, creados, tabla_paginas,
                         marcosVars, pedidos_io, respuesta, caido>>
      BY <1>10, <2>2 DEF ObtenerMarcoLibre
    <3>1. /\ hilo'["cpu"] = [hilo["cpu"] EXCEPT !.pc = "elegido", !.marco = m]
          /\ hilo'["kernel"] = hilo["kernel"]
      BY SigueValor DEF IInv, Hilos
    <3>2. /\ hilo'["cpu"].pc = "elegido" /\ hilo'["cpu"].pid = hilo["cpu"].pid
          /\ hilo'["cpu"].marco = m /\ hilo'["cpu"].faltan = hilo["cpu"].faltan
          /\ hilo["cpu"].pc = "agregar" /\ hilo["cpu"].faltan > 0
      BY <1>10, <3>1, HiloTipo DEF ObtenerMarcoLibre, IInv, Hilos, EstadoHilo
    <3>3. HilosCoherentes'
      BY <3>1, <3>2 DEF IInv, HilosCoherentes, EsPrimerLibre, marcosVars
    <3> QED
      BY <1>0, <3>1, <3>2, <3>3, TablasIgualesIInv DEF marcosVars, IInv, EnReposo, Hilos
  <2> QED
    BY <2>1, <2>2
<1>11. ASSUME MoverInfo PROVE IInv'
  <2>1. CASE ~PuedeLiberarse(info_old[hilo["cpu"].marco])
    BY <1>3, <1>11, <2>1 DEF MoverInfo, Causas
  <2>2. CASE PuedeLiberarse(info_old[hilo["cpu"].marco])
    <3>1. /\ hilo'["cpu"] = [hilo["cpu"] EXCEPT !.pc = "movido"]
          /\ hilo'["kernel"] = hilo["kernel"]
      BY <1>11, <2>2, SigueValor DEF MoverInfo, IInv, Hilos
    <3>2. UNCHANGED <<creados, libre, tabla_paginas>>
      BY <1>11, <2>2 DEF MoverInfo
    <3>3. /\ hilo["cpu"].pc = "elegido" /\ hilo'["cpu"].pc = "movido"
          /\ hilo'["cpu"].pid = hilo["cpu"].pid
          /\ hilo'["cpu"].marco = hilo["cpu"].marco
          /\ hilo'["cpu"].faltan = hilo["cpu"].faltan
      BY <1>11, <3>1, HiloTipo DEF MoverInfo, IInv, EstadoHilo, Hilos
    <3>4. HilosCoherentes'
      BY <3>1, <3>2, <3>3 DEF IInv, HilosCoherentes
    <3> QED
      BY <1>0, <3>1, <3>2, <3>3, <3>4, TablasIgualesIInv DEF IInv, EnReposo, Hilos
  <2> QED
    BY <2>1, <2>2
<1>12. ASSUME ReservarInfo PROVE IInv'
  <2>1. /\ hilo'["cpu"] = [hilo["cpu"] EXCEPT !.pc = "reservado"]
        /\ hilo'["kernel"] = hilo["kernel"]
    BY <1>12, SigueValor DEF ReservarInfo, IInv, Hilos
  <2>2. UNCHANGED <<creados, libre, tabla_paginas>>
    BY <1>12 DEF ReservarInfo
  <2>3. /\ hilo["cpu"].pc = "movido" /\ hilo'["cpu"].pc = "reservado"
        /\ hilo'["cpu"].pid = hilo["cpu"].pid
        /\ hilo'["cpu"].marco = hilo["cpu"].marco
        /\ hilo'["cpu"].faltan = hilo["cpu"].faltan
    BY <1>12, <2>1, HiloTipo DEF ReservarInfo, IInv, EstadoHilo, Hilos
  <2>4. HilosCoherentes'
    BY <2>1, <2>2, <2>3 DEF IInv, HilosCoherentes
  <2> QED
    BY <1>0, <2>1, <2>2, <2>3, <2>4, TablasIgualesIInv DEF IInv, EnReposo, Hilos
<1>13. ASSUME OcuparMarco PROVE IInv'
  <2> DEFINE p == hilo["cpu"].pid
             m == hilo["cpu"].marco
  <2>1. p \in Procesos /\ p \in creados /\ m \in Marcos /\ libre[m]
    BY <1>13 DEF OcuparMarco, IInv, HilosCoherentes, TypeOK
  <2>2. /\ hilo'["cpu"] = [hilo["cpu"] EXCEPT !.pc = "agregar", !.faltan = @ - 1,
                                              !.marco = NULO]
        /\ hilo'["kernel"] = hilo["kernel"]
    BY <1>13, SigueValor DEF OcuparMarco, IInv, Hilos
  <2>3. /\ hilo["cpu"].pc = "reservado" /\ hilo'["cpu"].pc = "agregar"
        /\ hilo'["cpu"].pid = p
    BY <1>13, <2>2, HiloTipo DEF OcuparMarco, IInv, EstadoHilo, Hilos
  <2>4. MarcosExclusivos' /\ LibreSiiSinPagina'
    <3>1. /\ libre' = [libre EXCEPT ![m] = FALSE]
          /\ tabla_paginas' = [tabla_paginas EXCEPT ![p] = Append(@, m)]
      BY <1>13 DEF OcuparMarco
    <3> HIDE DEF p, m
    <3> QED
      BY <2>1, <3>1, TomarMarco DEF IInv
  <2>5. HilosCoherentes'
    BY <1>13, <2>2, <2>3 DEF OcuparMarco, IInv, HilosCoherentes
  <2>6. EnReposo'
    BY <1>13, <2>1, <2>2, <2>3 DEF OcuparMarco, IInv, EnReposo, Hilos, TypeOK
  <2> QED
    BY <1>0, <2>4, <2>5, <2>6 DEF IInv
<1>14. ASSUME EliminarPagina PROVE IInv'
  <2> DEFINE p == hilo["cpu"].pid
             t == tabla_paginas[p]
             s == SubSeq(t, 1, Len(t) - 1)
  <2>1. p \in Procesos /\ p \in creados
    BY <1>14 DEF EliminarPagina, IInv, HilosCoherentes, TypeOK
  <2>2. /\ hilo["cpu"].faltan \in Nat \ {0}
        /\ hilo["cpu"].faltan <= Len(t)
    BY <1>14, HiloTipo DEF EliminarPagina, IInv, HilosCoherentes, EstadoHilo, Hilos
  <2>3. /\ t \in Seq(Marcos) /\ Len(t) \in Nat \ {0} /\ t # <<>>
        /\ t[Len(t)] \in Marcos
    <3>1. t \in Seq(Marcos) /\ Len(t) \in Nat
      BY <2>1, TablaTipo DEF IInv
    <3> QED
      BY <2>2, <3>1, ElementOfSeq, EmptySeq
  <2>4. /\ s \in Seq(Marcos) /\ Len(s) = Len(t) - 1
        /\ \A i \in 1..Len(s) : s[i] = t[i + 0]
    <3>1. \A i \in 1..(Len(t) - 1) : t[i] \in Marcos
      BY <2>3, ElementOfSeq
    <3> QED
      BY <2>3, <3>1, SubSeqProperties
  <2>5. /\ hilo'["cpu"] = [hilo["cpu"] EXCEPT !.pc = "soltar_new", !.faltan = @ - 1,
                                              !.marco = t[Len(t)]]
        /\ hilo'["kernel"] = hilo["kernel"]
    BY <1>14, SigueValor DEF EliminarPagina, IInv, Hilos
  <2>6. /\ hilo["cpu"].pc = "eliminar" /\ hilo'["cpu"].pc = "soltar_new"
        /\ hilo'["cpu"].pid = p /\ hilo'["cpu"].marco \in Marcos
        /\ hilo'["cpu"].faltan = hilo["cpu"].faltan - 1
    BY <1>14, <2>3, <2>5, HiloTipo DEF EliminarPagina, IInv, EstadoHilo, Hilos
  <2>7. /\ libre' = [libre EXCEPT ![t[Len(t)]] = TRUE]
        /\ tabla_paginas' = [tabla_paginas EXCEPT ![p] = s]
    BY <1>14 DEF EliminarPagina
  <2>8. MarcosExclusivos' /\ LibreSiiSinPagina'
    <3> DEFINE k == Len(t)
    <3>1. k = IF 0 = 1 THEN 1 ELSE Len(tabla_paginas[p])
      OBVIOUS
    <3>2. 0 \in {0, 1} /\ t = tabla_paginas[p]
      OBVIOUS
    <3>3. libre' = [libre EXCEPT ![tabla_paginas[p][k]] = TRUE]
      BY <2>7
    <3> HIDE DEF p, s, t, k
    <3> QED
      BY <2>1, <2>3, <2>4, <2>7, <3>1, <3>2, <3>3, DevolverMarco DEF IInv
  <2>9. HilosCoherentes'
    <3>1. hilo'["cpu"].faltan <= Len(tabla_paginas'[p])
      <4>1. tabla_paginas'[p] = s
        BY <2>1, <2>7 DEF IInv, TypeOK
      <4> HIDE DEF s
      <4> QED
        BY <4>1, <2>2, <2>3, <2>4, <2>6
    <3>2. creados' = creados
      BY <1>14 DEF EliminarPagina
    <3> QED
      BY <2>1, <2>5, <2>6, <3>1, <3>2 DEF IInv, HilosCoherentes
  <2>10. EnReposo'
    BY <1>14, <2>1, <2>5, <2>6, <2>7 DEF EliminarPagina, IInv, EnReposo, Hilos, TypeOK
  <2> QED
    BY <1>0, <2>8, <2>9, <2>10 DEF IInv
<1>15. ASSUME ResponderResize PROVE IInv'
  <2>1. hilo'["cpu"] = Reposo /\ hilo'["kernel"] = hilo["kernel"]
    BY <1>15, SigueValor DEF ResponderResize, BucleTerminado, IInv, Hilos
  <2>2. UNCHANGED <<creados, libre, tabla_paginas>>
    BY <1>15 DEF ResponderResize, BucleTerminado, marcosVars
  <2>3. HilosCoherentes'
    BY <2>1, <2>2 DEF IInv, HilosCoherentes, Reposo
  <2> QED
    BY <1>0, <2>1, <2>2, <2>3, TablasIgualesIInv DEF IInv, EnReposo, Hilos
<1>16. ASSUME UNCHANGED <<creados, tabla_paginas, libre, hilo>> PROVE IInv'
  BY <1>0, <1>16 DEF IInv, EnReposo, HilosCoherentes, MarcosExclusivos, LibreSiiSinPagina
<1>17. ASSUME NEW p \in Procesos, NEW pagina \in 0..PaginasDe(MaxTamanio),
              ConsultaDePagina(p, pagina)
       PROVE IInv'
  BY <1>3, <1>16, <1>17 DEF ConsultaDePagina, Causas, marcosVars
<1>18. ASSUME NEW p \in Procesos, LiberarDesconocido(p) PROVE IInv'
  BY <1>3, <1>18 DEF LiberarDesconocido, Causas
<1>19. ASSUME HilosIO PROVE IInv'
  BY <1>16, <1>19 DEF HilosIO, PedirIO, AccederIO, marcosVars
<1>20. ASSUME Terminado \/ UNCHANGED vars PROVE IInv'
  BY <1>16, <1>20 DEF Terminado, vars
<1> QED
  BY <1>1, <1>2, <1>4, <1>5, <1>6, <1>7, <1>8, <1>9, <1>10, <1>11, <1>12,
     <1>13, <1>14, <1>15, <1>17, <1>18, <1>19, <1>20
  DEF Next, HiloKernel, HiloCpu, Hilos

-----------------------------------------------------------------------------
(* The theorems *)

LEMMA InitIInv == Init => IInv
<1> SUFFICES ASSUME Init PROVE IInv
  OBVIOUS
<1>1. HilosCoherentes
  BY DEF Init, HilosCoherentes, Reposo, Hilos, EnReduccion
<1>2. EnReposo
  BY DEF Init, EnReposo
<1>3. MarcosExclusivos /\ LibreSiiSinPagina
  <2>1. \A p \in Procesos : DOMAIN tabla_paginas[p] = {}
    <3>1. \A p \in Procesos : Len(tabla_paginas[p]) = 0
      BY EmptySeq DEF Init
    <3> QED
      BY <3>1, InitTypeOK, TablaTipo
  <2> QED
    BY <2>1 DEF Init, MarcosExclusivos, LibreSiiSinPagina
<1> QED
  BY <1>1, <1>2, <1>3, InitTypeOK DEF IInv

LEMMA SpecIInv == Spec => []IInv
<1>1. Init => IInv
  BY InitIInv
<1>2. IInv /\ [Next]_vars => IInv'
  BY NextIInv
<1> QED
  BY <1>1, <1>2, PTL DEF Spec

\* The structures of the memory process keep their types: in particular no
\* loop of a RESIZE counts below zero and no page outside a table is removed.
THEOREM MemoriaTypeOK == Spec => []TypeOK
<1>1. IInv => TypeOK
  BY DEF IInv
<1> QED
  BY <1>1, SpecIInv, PTL

\* For any number of processes and frames, and any interleaving of releases
\* with resizes, no frame is ever behind two pages.
THEOREM MemoriaMarcosExclusivos == Spec => []MarcosExclusivos
<1>1. IInv => MarcosExclusivos
  BY DEF IInv
<1> QED
  BY <1>1, SpecIInv, PTL

\* The `libre' flags, written without a mutex, always say exactly which
\* frames have no page: none leaks, none is offered while in use.
THEOREM MemoriaLibreSiiSinPagina == Spec => []LibreSiiSinPagina
<1>1. IInv => LibreSiiSinPagina
  BY DEF IInv
<1> QED
  BY <1>1, SpecIInv, PTL

-----------------------------------------------------------------------------
(* The free frames counted by puedo_cargar_paginas_en_proceso suffice      *)

LEMMA MarcosLibresFinito ==
  IsFiniteSet(MarcosLibres) /\ cantidad_de_marcos_libres \in Nat
<1>1. IsFiniteSet(Marcos)
  BY FS_Interval, MemoriaAssumption DEF Marcos
<1>2. MarcosLibres \subseteq Marcos
  BY DEF MarcosLibres
<1> QED
  BY <1>1, <1>2, FS_Subset, FS_CardinalityType DEF cantidad_de_marcos_libres

\* What a release, or a shrink, gives back can only help.
LEMMA MasLibres ==
  ASSUME MarcosLibres \subseteq MarcosLibres', IsFiniteSet(MarcosLibres')
  PROVE  cantidad_de_marcos_libres <= cantidad_de_marcos_libres'
  BY FS_Subset DEF cantidad_de_marcos_libres

LEMMA NextCargaAlcanza ==
  ASSUME IInv, CargaAlcanza, [Next]_vars PROVE CargaAlcanza'
<1> DEFINE crece == hilo["cpu"].pc \in EnCrecimiento
<1> USE DEF EnCrecimiento
<1>0. IsFiniteSet(MarcosLibres')
  <2>1. IsFiniteSet(Marcos)
    BY FS_Interval, MemoriaAssumption DEF Marcos
  <2>2. MarcosLibres' \subseteq Marcos
    BY DEF MarcosLibres
  <2> QED
    BY <2>1, <2>2, FS_Subset
<1>1. ASSUME MarcosLibres \subseteq MarcosLibres',
             crece' => crece /\ hilo'["cpu"].faltan = hilo["cpu"].faltan
      PROVE  CargaAlcanza'
  <2> SUFFICES ASSUME crece' PROVE hilo'["cpu"].faltan <= cantidad_de_marcos_libres'
    BY DEF CargaAlcanza
  <2>1. hilo["cpu"].faltan <= cantidad_de_marcos_libres
    BY <1>1 DEF CargaAlcanza
  <2>2. hilo["cpu"].faltan \in Nat
    BY HiloTipo DEF IInv, Hilos, EstadoHilo
  <2>3. cantidad_de_marcos_libres \in Nat /\ cantidad_de_marcos_libres' \in Nat
    BY <1>0, MarcosLibresFinito, FS_CardinalityType DEF cantidad_de_marcos_libres
  <2> QED
    BY <1>0, <1>1, <2>1, <2>2, <2>3, MasLibres
<1>2. ASSUME UNCHANGED libre, UNCHANGED hilo["cpu"] PROVE CargaAlcanza'
  BY <1>1, <1>2 DEF MarcosLibres
<1>3. ASSUME UNCHANGED libre, ~crece' PROVE CargaAlcanza'
  BY <1>1, <1>3 DEF MarcosLibres
<1>4. ASSUME NEW c \in Causas, Caer(c) PROVE CargaAlcanza'
  BY <1>2, <1>4 DEF Caer, marcosVars
<1>5. ASSUME NEW p \in Procesos, LiberarEstructura(p) PROVE CargaAlcanza'
  <2>1. hilo'["cpu"] = hilo["cpu"]
    BY <1>5, SigueValor DEF LiberarEstructura, IInv, Hilos
  <2> QED
    BY <1>2, <1>5, <2>1 DEF LiberarEstructura, marcosVars
<1>6. ASSUME DestruirPagina PROVE CargaAlcanza'
  <2>1. hilo'["cpu"] = hilo["cpu"]
    BY <1>6, SigueValor DEF DestruirPagina, IInv, Hilos
  <2>2. MarcosLibres \subseteq MarcosLibres'
    BY <1>6 DEF DestruirPagina, MarcosLibres, IInv, TypeOK
  <2> QED
    BY <1>1, <2>1, <2>2
<1>7. ASSUME FinDestruir PROVE CargaAlcanza'
  <2>1. hilo'["cpu"] = hilo["cpu"]
    BY <1>7, SigueValor DEF FinDestruir, IInv, Hilos
  <2> QED
    BY <1>2, <1>7, <2>1 DEF FinDestruir, marcosVars
<1>8. ASSUME NEW h \in Hilos, SoltarNew(h) \/ SoltarOld(h) PROVE CargaAlcanza'
  <2>1. CASE Caer("doble free")
    BY <1>4, <2>1 DEF Causas
  <2>2. CASE ~Caer("doble free")
    <3>1. libre' = libre
      BY <1>8, <2>2 DEF SoltarNew, SoltarOld
    <3>2. \/ Sigue(h, [hilo[h] EXCEPT !.pc = "soltar_old"])
          \/ Sigue(h, [hilo[h] EXCEPT !.pc = PcTrasSoltar(h), !.marco = NULO])
      BY <1>8, <2>2 DEF SoltarNew, SoltarOld
    <3>3. CASE h = "kernel"
      BY <1>2, <3>1, <3>2, <3>3, SigueValor DEF IInv, Hilos
    <3>4. CASE h = "cpu"
      <4>1. \/ hilo'["cpu"] = [hilo["cpu"] EXCEPT !.pc = "soltar_old"]
            \/ hilo'["cpu"] = [hilo["cpu"] EXCEPT !.pc = PcTrasSoltar("cpu"), !.marco = NULO]
        BY <3>2, <3>4, SigueValor DEF IInv, Hilos
      <4>2. hilo'["cpu"].pc \in {"soltar_old", "eliminar"}
        BY <4>1, HiloTipo DEF IInv, Hilos, EstadoHilo, PcTrasSoltar
      <4> QED
        BY <1>3, <3>1, <4>2
    <3> QED
      BY <3>3, <3>4 DEF Hilos
  <2> QED
    BY <2>1, <2>2
<1>9. ASSUME NEW p \in Procesos, NEW bytes \in 0..MaxTamanio, Resize(p, bytes)
      PROVE  CargaAlcanza'
  <2> DEFINE nuevas == PaginasDe(bytes)
             actuales == Len(tabla_paginas[p])
             r == IF nuevas >= actuales
                  THEN [pc |-> "ampliar", pid |-> p, faltan |-> nuevas - actuales,
                        marco |-> NULO]
                  ELSE [pc |-> "eliminar", pid |-> p, faltan |-> actuales - nuevas,
                        marco |-> NULO]
  <2>1. Sigue("cpu", r)
    BY <1>9 DEF Resize
  <2>2. r.pc \in {"ampliar", "eliminar"}
    OBVIOUS
  <2> HIDE DEF r
  <2>3. hilo'["cpu"] = r
    BY <2>1, SigueValor DEF IInv, Hilos
  <2> QED
    BY <1>3, <1>9, <2>2, <2>3 DEF Resize, marcosVars
<1>10. ASSUME PuedoCargar PROVE CargaAlcanza'
  <2>1. libre' = libre
    BY <1>10 DEF PuedoCargar, HayLugar, marcosVars
  <2>2. CASE hilo["cpu"].faltan <= cantidad_de_marcos_libres
    <3>1. hilo'["cpu"] = [hilo["cpu"] EXCEPT !.pc = "agregar"]
      BY <1>10, <2>2, SigueValor DEF PuedoCargar, HayLugar, IInv, Hilos
    <3>2. hilo'["cpu"].faltan = hilo["cpu"].faltan
      BY <3>1, HiloTipo DEF IInv, Hilos, EstadoHilo
    <3> QED
      BY <2>1, <2>2, <3>2 DEF CargaAlcanza, cantidad_de_marcos_libres, MarcosLibres
  <2>3. CASE ~(hilo["cpu"].faltan <= cantidad_de_marcos_libres)
    <3>1. hilo'["cpu"] = Reposo
      BY <1>10, <2>3, SigueValor DEF PuedoCargar, HayLugar, IInv, Hilos
    <3> QED
      BY <1>3, <2>1, <3>1 DEF Reposo
  <2> QED
    BY <2>2, <2>3
<1>11. ASSUME ObtenerMarcoLibre PROVE CargaAlcanza'
  <2>1. CASE MarcosLibres = {}
    BY <1>4, <1>11, <2>1 DEF ObtenerMarcoLibre, Causas
  <2>2. CASE MarcosLibres # {}
    <3> PICK m \in Marcos :
          /\ Sigue("cpu", [hilo["cpu"] EXCEPT !.pc = "elegido", !.marco = m])
          /\ libre' = libre
      BY <1>11, <2>2 DEF ObtenerMarcoLibre, marcosVars
    <3>1. hilo'["cpu"] = [hilo["cpu"] EXCEPT !.pc = "elegido", !.marco = m]
      BY SigueValor DEF IInv, Hilos
    <3>2. hilo["cpu"].pc = "agregar" /\ hilo'["cpu"].faltan = hilo["cpu"].faltan
      BY <1>11, <3>1, HiloTipo DEF ObtenerMarcoLibre, IInv, Hilos, EstadoHilo
    <3> QED
      BY <1>1, <3>2 DEF MarcosLibres
  <2> QED
    BY <2>1, <2>2
<1>12. ASSUME MoverInfo PROVE CargaAlcanza'
  <2>1. CASE Caer("doble free")
    BY <1>4, <2>1 DEF Causas
  <2>2. CASE ~Caer("doble free")
    <3>1. hilo'["cpu"] = [hilo["cpu"] EXCEPT !.pc = "movido"] /\ libre' = libre
      BY <1>12, <2>2, SigueValor DEF MoverInfo, IInv, Hilos
    <3>2. hilo["cpu"].pc = "elegido" /\ hilo'["cpu"].faltan = hilo["cpu"].faltan
      BY <1>12, <3>1, HiloTipo DEF MoverInfo, IInv, Hilos, EstadoHilo
    <3> QED
      BY <1>1, <3>1, <3>2 DEF MarcosLibres
  <2> QED
    BY <2>1, <2>2
<1>13. ASSUME ReservarInfo PROVE CargaAlcanza'
  <2>1. hilo'["cpu"] = [hilo["cpu"] EXCEPT !.pc = "reservado"] /\ libre' = libre
    BY <1>13, SigueValor DEF ReservarInfo, IInv, Hilos
  <2>2. hilo["cpu"].pc = "movido" /\ hilo'["cpu"].faltan = hilo["cpu"].faltan
    BY <1>13, <2>1, HiloTipo DEF ReservarInfo, IInv, Hilos, EstadoHilo
  <2> QED
    BY <1>1, <2>1, <2>2 DEF MarcosLibres
<1>14. ASSUME OcuparMarco PROVE CargaAlcanza'
  <2> DEFINE m == hilo["cpu"].marco
  <2>1. m \in Marcos /\ libre[m] /\ hilo["cpu"].faltan <= cantidad_de_marcos_libres
    BY <1>14 DEF OcuparMarco, IInv, HilosCoherentes, CargaAlcanza
  <2>2. hilo'["cpu"] = [hilo["cpu"] EXCEPT !.pc = "agregar", !.faltan = @ - 1,
                                           !.marco = NULO]
    BY <1>14, SigueValor DEF OcuparMarco, IInv, Hilos
  <2>3. hilo'["cpu"].faltan = hilo["cpu"].faltan - 1 /\ hilo["cpu"].faltan \in Nat
    BY <2>2, HiloTipo DEF IInv, Hilos, EstadoHilo
  <2>4. MarcosLibres' = MarcosLibres \ {m}
    BY <1>14, <2>1 DEF OcuparMarco, MarcosLibres, IInv, TypeOK
  <2>5. m \in MarcosLibres
    BY <2>1 DEF MarcosLibres
  <2>6. cantidad_de_marcos_libres' = cantidad_de_marcos_libres - 1
    <3> HIDE DEF m
    <3> QED
      BY <2>4, <2>5, MarcosLibresFinito, FS_RemoveElement DEF cantidad_de_marcos_libres
  <2> QED
    BY <2>1, <2>3, <2>6, MarcosLibresFinito DEF CargaAlcanza
<1>15. ASSUME EliminarPagina PROVE CargaAlcanza'
  <2> DEFINE t == tabla_paginas[hilo["cpu"].pid]
  <2>1. hilo'["cpu"] = [hilo["cpu"] EXCEPT !.pc = "soltar_new", !.faltan = @ - 1,
                                           !.marco = t[Len(t)]]
    BY <1>15, SigueValor DEF EliminarPagina, IInv, Hilos
  <2>2. hilo'["cpu"].pc = "soltar_new"
    BY <2>1, HiloTipo DEF IInv, Hilos, EstadoHilo
  <2>3. MarcosLibres \subseteq MarcosLibres'
    BY <1>15 DEF EliminarPagina, MarcosLibres, IInv, TypeOK
  <2> QED
    BY <1>1, <2>2, <2>3
<1>16. ASSUME ResponderResize PROVE CargaAlcanza'
  <2>1. hilo'["cpu"] = Reposo
    BY <1>16, SigueValor DEF ResponderResize, BucleTerminado, IInv, Hilos
  <2> QED
    BY <1>3, <1>16, <2>1 DEF ResponderResize, BucleTerminado, Reposo, marcosVars
<1>17. ASSUME NEW p \in Procesos,
              \/ IniciarEstructura(p) \/ LiberarDesconocido(p)
              \/ \E pagina \in 0..PaginasDe(MaxTamanio) : ConsultaDePagina(p, pagina)
       PROVE  CargaAlcanza'
  <2>1. CASE LiberarDesconocido(p)
    BY <1>4, <2>1 DEF LiberarDesconocido, Causas
  <2>2. CASE IniciarEstructura(p)
    BY <1>2, <2>2 DEF IniciarEstructura, marcosVars
  <2>3. CASE \E pagina \in 0..PaginasDe(MaxTamanio) : ConsultaDePagina(p, pagina)
    BY <1>2, <1>4, <2>3 DEF ConsultaDePagina, marcosVars, Causas
  <2> QED
    BY <1>17, <2>1, <2>2, <2>3
<1>18. ASSUME HilosIO \/ Terminado \/ UNCHANGED vars PROVE CargaAlcanza'
  BY <1>2, <1>18 DEF HilosIO, PedirIO, AccederIO, Terminado, vars, marcosVars
<1> QED
  BY <1>5, <1>6, <1>7, <1>8, <1>9, <1>10, <1>11, <1>12, <1>13, <1>14, <1>15,
     <1>16, <1>17, <1>18
  DEF Next, HiloKernel, HiloCpu, Hilos

\* The count of free frames taken by a RESIZE is still enough at every turn
\* of its loop, although releases run beside it: no list_find returns NULL.
THEOREM MemoriaCargaAlcanza == Spec => []CargaAlcanza
<1>1. Init => CargaAlcanza
  <2>1. Init => hilo = [h \in Hilos |-> Reposo]
    BY DEF Init
  <2>2. Init => hilo["cpu"].pc = "reposo"
    BY <2>1 DEF Reposo, Hilos
  <2> QED
    BY <2>2 DEF CargaAlcanza
<1>2. IInv /\ CargaAlcanza /\ [Next]_vars => CargaAlcanza'
  BY NextCargaAlcanza
<1> QED
  BY <1>1, <1>2, SpecIInv, PTL DEF Spec

-----------------------------------------------------------------------------
(* The refinement: the tables change as quotas do *)

\* What the RESIZE in course still adds to the table of p, or takes from it
Saldo(c, p) ==
  IF c.pid # p THEN 0
  ELSE IF c.pc \in EnCrecimiento THEN c.faltan
  ELSE IF c.pc \in EnReduccion THEN 0 - c.faltan
  ELSE 0

CuotaPorPartes ==
  \A p \in Procesos :
    /\ Len(tabla_paginas[p]) \in Nat /\ Saldo(hilo["cpu"], p) \in Int
    /\ cuota[p] = IF p \in list_procss_recibidos
                  THEN Len(tabla_paginas[p]) + Saldo(hilo["cpu"], p) ELSE 0

LEMMA CuotaDe == TypeOK => CuotaPorPartes
<1> SUFFICES ASSUME TypeOK, NEW p \in Procesos
             PROVE  /\ Len(tabla_paginas[p]) \in Nat
                    /\ Saldo(hilo["cpu"], p) \in Int
                    /\ cuota[p] = IF p \in list_procss_recibidos
                                  THEN Len(tabla_paginas[p]) + Saldo(hilo["cpu"], p)
                                  ELSE 0
  BY DEF CuotaPorPartes
<1>1. Len(tabla_paginas[p]) \in Nat /\ hilo["cpu"].faltan \in Nat
  BY TablaTipo, HiloTipo DEF Hilos, EstadoHilo
<1>2. EnCrecimiento \intersect EnReduccion = {}
  BY DEF EnCrecimiento, EnReduccion
<1> QED
  BY <1>1, <1>2 DEF cuota, Saldo

\* Every page granted has a frame, one in a table or one that is free.
LEMMA CuotaCabe ==
  ASSUME TypeOK, MarcosExclusivos, LibreSiiSinPagina,
         NEW c \in [Procesos -> Nat], NEW p \in Procesos,
         \A q \in Procesos \ {p} : c[q] <= Len(tabla_paginas[q]),
         c[p] <= Len(tabla_paginas[p]) + cantidad_de_marcos_libres
  PROVE  /\ Reparto!Total(c) \in Nat
         /\ Reparto!Total(c) <= CantMarcos
         /\ c[p] <= CantMarcos
<1> DEFINE n == cantidad_de_marcos_libres
           t == tabla_paginas
<1>1. IsFiniteSet(MarcosLibres) /\ n \in Nat
  BY MarcosLibresFinito
<1>2. PICK f : f \in Bijection(1..n, MarcosLibres)
  BY <1>1, FS_CardinalityType DEF cantidad_de_marcos_libres, ExistsBijection
<1>3. /\ f \in [1..n -> MarcosLibres]
      /\ \A i, j \in 1..n : f[i] = f[j] => i = j
  BY <1>2 DEF Bijection, Injection, IsInjective, Surjection
<1>4. \A q \in Procesos : /\ Len(t[q]) \in Nat
                          /\ DOMAIN t[q] = 1..Len(t[q])
                          /\ \A i \in 1..Len(t[q]) : t[q][i] \in Marcos
  BY TablaTipo
<1> DEFINE S == Reparto!Otorgadas(c)
           M(s) == IF s[2] <= Len(t[s[1]]) THEN t[s[1]][s[2]]
                   ELSE f[s[2] - Len(t[s[1]])]
           g == [s \in S |-> M(s)]
<1>5. \A s \in S : /\ s = <<s[1], s[2]>> /\ s[1] \in Procesos
                   /\ s[2] \in 1..c[s[1]]
                   /\ s[2] > Len(t[s[1]]) => s[1] = p
                   /\ s[2] > Len(t[s[1]]) => s[2] - Len(t[s[1]]) \in 1..n
  <2> SUFFICES ASSUME NEW s \in S
               PROVE  /\ s = <<s[1], s[2]>> /\ s[1] \in Procesos
                      /\ s[2] \in 1..c[s[1]]
                      /\ s[2] > Len(t[s[1]]) => s[1] = p
                      /\ s[2] > Len(t[s[1]]) => s[2] - Len(t[s[1]]) \in 1..n
    OBVIOUS
  <2>1. /\ s = <<s[1], s[2]>> /\ s[1] \in Procesos
        /\ s[2] \in 1..c[s[1]]
    BY DEF Reparto!Otorgadas
  <2>2. c[s[1]] \in Nat /\ Len(t[s[1]]) \in Nat /\ s[2] \in Nat
    BY <2>1, <1>4
  <2>3. s[2] > Len(t[s[1]]) => s[1] = p
    BY <2>1, <2>2
  <2> QED
    BY <2>1, <2>2, <2>3, <1>1
<1> HIDE DEF S
<1>6. \A s \in S : M(s) \in Marcos
  <2> SUFFICES ASSUME NEW s \in S PROVE M(s) \in Marcos
    OBVIOUS
  <2>1. CASE s[2] <= Len(t[s[1]])
    <3>1. s[2] \in 1..Len(t[s[1]])
      BY <1>4, <1>5, <2>1
    <3> QED
      BY <3>1, <1>4, <1>5, <2>1
  <2>2. CASE ~(s[2] <= Len(t[s[1]]))
    <3>1. s[2] - Len(t[s[1]]) \in 1..n
      BY <1>4, <1>5, <2>2
    <3> QED
      BY <3>1, <1>3, <2>2 DEF MarcosLibres
  <2> QED
    BY <2>1, <2>2
<1>7. ASSUME NEW s1 \in S, NEW s2 \in S, M(s1) = M(s2)
      PROVE  s1 = s2
  <2> DEFINE viejo(s) == s[2] \in 1..Len(t[s[1]])
  <2>1. \A s \in {s1, s2} : /\ viejo(s) => M(s) = t[s[1]][s[2]]
                            /\ ~viejo(s) => /\ s[1] = p
                                            /\ s[2] - Len(t[s[1]]) \in 1..n
                                            /\ M(s) = f[s[2] - Len(t[s[1]])]
                                            /\ libre[M(s)] /\ M(s) \in Marcos
    <3> SUFFICES ASSUME NEW s \in {s1, s2}
                 PROVE  /\ viejo(s) => M(s) = t[s[1]][s[2]]
                        /\ ~viejo(s) => /\ s[1] = p
                                        /\ s[2] - Len(t[s[1]]) \in 1..n
                                        /\ M(s) = f[s[2] - Len(t[s[1]])]
                                        /\ libre[M(s)] /\ M(s) \in Marcos
      OBVIOUS
    <3>1. viejo(s) => M(s) = t[s[1]][s[2]]
      BY <1>4, <1>5
    <3>2. ~viejo(s) => s[2] > Len(t[s[1]]) /\ ~(s[2] <= Len(t[s[1]]))
      BY <1>4, <1>5
    <3> QED
      BY <3>1, <3>2, <1>3, <1>5 DEF MarcosLibres
  <2>2. CASE viejo(s1) /\ viejo(s2)
    BY <1>4, <1>5, <1>7, <2>1, <2>2 DEF MarcosExclusivos
  <2>3. CASE ~viejo(s1) /\ ~viejo(s2)
    <3>1. s1[1] = p /\ s2[1] = p
      BY <2>1, <2>3
    <3>2. s1[2] - Len(t[p]) = s2[2] - Len(t[p])
      BY <1>3, <1>7, <2>1, <2>3, <3>1
    <3>3. s1[2] \in Int /\ s2[2] \in Int /\ Len(t[p]) \in Int
      BY <1>4, <1>5, <3>1
    <3> QED
      BY <1>5, <3>1, <3>2, <3>3
  <2>4. ASSUME NEW r \in S, NEW v \in S, viejo(r), M(r) = M(v),
               libre[M(v)], M(v) \in Marcos, M(r) = t[r[1]][r[2]]
        PROVE  FALSE
    BY <1>4, <1>5, <2>4 DEF LibreSiiSinPagina
  <2> QED
    BY <1>7, <2>1, <2>2, <2>3, <2>4
<1>8. g \in Injection(S, Marcos)
  BY <1>6, <1>7 DEF Injection, IsInjective
<1>9. IsFiniteSet(Marcos) /\ Cardinality(Marcos) = CantMarcos
  BY FS_Interval, MemoriaAssumption DEF Marcos
<1>10. IsFiniteSet(S) /\ Cardinality(S) <= CantMarcos
  <2> HIDE DEF g
  <2> QED
    BY <1>8, <1>9, FS_Injection
<1>11. c[p] <= Cardinality(S)
  <2> DEFINE h == [i \in 1..c[p] |-> <<p, i>>]
  <2>1. h \in Injection(1..c[p], S)
    BY DEF S, Reparto!Otorgadas, Injection, IsInjective
  <2>2. Cardinality(1..c[p]) = c[p]
    BY FS_Interval
  <2> HIDE DEF h
  <2> QED
    BY <2>1, <2>2, <1>10, FS_Injection
<1> QED
  <2>1. Cardinality(S) \in Nat /\ c[p] \in Nat /\ CantMarcos \in Nat
    BY <1>10, FS_CardinalityType, MemoriaAssumption
  <2>2. Reparto!Total(c) = Cardinality(S)
    BY DEF S, Reparto!Total, Reparto!Cardinality, Cardinality
  <2> QED
    BY <1>10, <1>11, <2>1, <2>2

\* A shrink never takes more pages than the table has.
CuotasNaturales == \A p \in Procesos : cuota[p] \in Nat

LEMMA CuotaNatural == IInv => CuotasNaturales
<1> SUFFICES ASSUME IInv, NEW p \in Procesos PROVE cuota[p] \in Nat
  BY DEF CuotasNaturales
<1>1. CuotaPorPartes /\ hilo["cpu"].faltan \in Nat
  BY CuotaDe, HiloTipo DEF IInv, Hilos, EstadoHilo
<1>2. hilo["cpu"].pc \in EnReduccion =>
        hilo["cpu"].faltan <= Len(tabla_paginas[hilo["cpu"].pid])
  BY DEF IInv, HilosCoherentes
<1>3. Len(tabla_paginas[p]) \in Nat
  BY <1>1 DEF CuotaPorPartes
<1>4. CASE hilo["cpu"].pid = p /\ hilo["cpu"].pc \in EnReduccion
  <2>1. Saldo(hilo["cpu"], p) = 0 - hilo["cpu"].faltan
    BY <1>4 DEF Saldo, EnReduccion, EnCrecimiento
  <2>2. hilo["cpu"].faltan <= Len(tabla_paginas[p])
    BY <1>2, <1>4
  <2> QED
    BY <1>1, <1>3, <2>1, <2>2 DEF CuotaPorPartes
<1>5. CASE ~(hilo["cpu"].pid = p /\ hilo["cpu"].pc \in EnReduccion)
  <2>1. Saldo(hilo["cpu"], p) \in Nat
    BY <1>1, <1>5 DEF Saldo
  <2> QED
    BY <1>1, <1>3, <2>1 DEF CuotaPorPartes
<1> QED
  BY <1>4, <1>5

LEMMA MismaCuota ==
  ASSUME TypeOK, TypeOK', UNCHANGED list_procss_recibidos,
         \A p \in list_procss_recibidos :
           Len(tabla_paginas'[p]) + Saldo(hilo'["cpu"], p)
             = Len(tabla_paginas[p]) + Saldo(hilo["cpu"], p)
  PROVE  UNCHANGED Reparto!repartoVars
<1>1. CuotaPorPartes /\ CuotaPorPartes'
  BY CuotaDe, PTL
<1>2. \A p \in Procesos : cuota'[p] = cuota[p]
  BY <1>1 DEF CuotaPorPartes
<1>3. cuota' = cuota
  BY <1>2 DEF cuota
<1> QED
  BY <1>3 DEF Reparto!repartoVars

\* The process whose tables the kernel's thread destroys is not in the list.
FueraDeLista ==
  hilo["kernel"].pc # "reposo" => hilo["kernel"].pid \notin list_procss_recibidos

LEMMA InitFueraDeLista == Init => FueraDeLista
  BY DEF Init, FueraDeLista, Reposo, Hilos

LEMMA NextFueraDeLista ==
  ASSUME IInv, FueraDeLista, [Next]_vars PROVE FueraDeLista'
<1>0. TypeOK
  BY DEF IInv
<1>k. hilo["kernel"] \in EstadoHilo
  BY <1>0, HiloTipo DEF Hilos
<1>1. ASSUME UNCHANGED list_procss_recibidos,
             \/ hilo'["kernel"].pc = "reposo"
             \/ /\ hilo["kernel"].pc # "reposo"
                /\ hilo'["kernel"].pid = hilo["kernel"].pid
             \/ hilo'["kernel"] = hilo["kernel"]
      PROVE  FueraDeLista'
  BY <1>1 DEF FueraDeLista
<1>2. ASSUME NEW r, Sigue("cpu", r), UNCHANGED list_procss_recibidos
      PROVE  FueraDeLista'
  BY <1>0, <1>1, <1>2, SigueValor DEF Hilos
<1>3. ASSUME UNCHANGED <<list_procss_recibidos, hilo>> PROVE FueraDeLista'
  BY <1>1, <1>3
<1>4. ASSUME NEW c \in Causas, Caer(c) PROVE FueraDeLista'
  BY <1>3, <1>4 DEF Caer
<1>5. ASSUME NEW p \in Procesos, IniciarEstructura(p) PROVE FueraDeLista'
  BY <1>5 DEF IniciarEstructura, FueraDeLista
<1>6. ASSUME NEW p \in Procesos, LiberarEstructura(p) PROVE FueraDeLista'
  <2>1. hilo'["kernel"].pid = p
    BY <1>0, <1>6, SigueValor DEF LiberarEstructura, Hilos
  <2> QED
    BY <1>6, <2>1 DEF LiberarEstructura, FueraDeLista
<1>7. ASSUME DestruirPagina \/ FinDestruir \/ SoltarNew("kernel")
             \/ SoltarOld("kernel"), ~Caer("doble free")
      PROVE  FueraDeLista'
  <2>1. UNCHANGED list_procss_recibidos
    BY <1>7 DEF DestruirPagina, FinDestruir, SoltarNew, SoltarOld
  <2>2. hilo["kernel"].pc # "reposo"
    BY <1>7 DEF DestruirPagina, FinDestruir, SoltarNew, SoltarOld
  <2>3. PICK m, pc :
          \/ Sigue("kernel", Reposo)
          \/ Sigue("kernel", [hilo["kernel"] EXCEPT !.pc = pc, !.marco = m])
          \/ Sigue("kernel", [hilo["kernel"] EXCEPT !.pc = pc])
    BY <1>7 DEF DestruirPagina, FinDestruir, SoltarNew, SoltarOld
  <2>4. \/ hilo'["kernel"] = Reposo
        \/ hilo'["kernel"] = [hilo["kernel"] EXCEPT !.pc = pc, !.marco = m]
        \/ hilo'["kernel"] = [hilo["kernel"] EXCEPT !.pc = pc]
    BY <1>0, <2>3, SigueValor DEF Hilos
  <2>5. hilo'["kernel"].pc = "reposo" \/ hilo'["kernel"].pid = hilo["kernel"].pid
    <3>1. /\ [hilo["kernel"] EXCEPT !.pc = pc, !.marco = m].pid = hilo["kernel"].pid
          /\ [hilo["kernel"] EXCEPT !.pc = pc].pid = hilo["kernel"].pid
      BY <1>k DEF EstadoHilo
    <3>2. Reposo.pc = "reposo"
      BY DEF Reposo
    <3> QED
      BY <2>4, <3>1, <3>2
  <2> QED
    BY <1>1, <2>1, <2>2, <2>5
<1>8. ASSUME HiloCpu PROVE FueraDeLista'
  <2>1. \/ \E c \in Causas : Caer(c)
        \/ UNCHANGED <<list_procss_recibidos, hilo>>
        \/ UNCHANGED list_procss_recibidos /\ \E r : Sigue("cpu", r)
    <3>1. CASE \E p \in Procesos, bytes \in 0..MaxTamanio : Resize(p, bytes)
      BY <3>1 DEF Resize
    <3>2. CASE \E p \in Procesos, pagina \in 0..PaginasDe(MaxTamanio) :
                 ConsultaDePagina(p, pagina)
      BY <3>2 DEF ConsultaDePagina, Causas
    <3>3. CASE PuedoCargar \/ ObtenerMarcoLibre \/ ResponderResize
      BY <3>3 DEF PuedoCargar, ObtenerMarcoLibre, ResponderResize, Causas
    <3>4. CASE MoverInfo \/ ReservarInfo \/ OcuparMarco
      BY <3>4 DEF MoverInfo, ReservarInfo, OcuparMarco, Causas
    <3>5. CASE EliminarPagina \/ SoltarNew("cpu") \/ SoltarOld("cpu")
      BY <3>5 DEF EliminarPagina, SoltarNew, SoltarOld, Causas
    <3> QED
      BY <1>8, <3>1, <3>2, <3>3, <3>4, <3>5 DEF HiloCpu
  <2> QED
    BY <1>2, <1>3, <1>4, <2>1
<1>9. ASSUME HilosIO \/ Terminado \/ UNCHANGED vars PROVE FueraDeLista'
  BY <1>3, <1>9 DEF HilosIO, PedirIO, AccederIO, Terminado, vars
<1>10. ASSUME NEW p \in Procesos, LiberarDesconocido(p) PROVE FueraDeLista'
  BY <1>4, <1>10 DEF LiberarDesconocido, Causas
<1>11. ASSUME Caer("doble free") PROVE FueraDeLista'
  BY <1>4, <1>11 DEF Causas
<1> QED
  BY <1>5, <1>6, <1>7, <1>8, <1>9, <1>10, <1>11 DEF Next, HiloKernel

\* Most steps leave the tables alone, and with them what the thread owes.
LEMMA MismasTablas ==
  ASSUME TypeOK, TypeOK', UNCHANGED <<list_procss_recibidos, tabla_paginas>>,
         \A p \in Procesos : Saldo(hilo'["cpu"], p) = Saldo(hilo["cpu"], p)
  PROVE  UNCHANGED Reparto!repartoVars
<1>1. list_procss_recibidos \subseteq Procesos
  BY DEF TypeOK
<1>2. tabla_paginas' = tabla_paginas /\ UNCHANGED list_procss_recibidos
  OBVIOUS
<1> QED
  BY <1>1, <1>2, MismaCuota

LEMMA PasoReparto ==
  ASSUME IInv, IInv', FueraDeLista, [Next]_vars
  PROVE  [Reparto!Next]_(Reparto!repartoVars)
<1> DEFINE Igual == UNCHANGED Reparto!repartoVars
<1>0. TypeOK /\ TypeOK' /\ HilosCoherentes /\ HilosCoherentes'
  BY DEF IInv
<1>t. /\ list_procss_recibidos \subseteq creados /\ creados \subseteq Procesos
      /\ tabla_paginas \in [Procesos -> Seq(Marcos)]
  BY <1>0 DEF TypeOK
<1>p. CuotaPorPartes /\ CuotaPorPartes'
  BY <1>0, CuotaDe, PTL
<1>c. hilo["cpu"] \in EstadoHilo /\ hilo["cpu"].faltan \in Nat
  BY <1>0, HiloTipo DEF Hilos, EstadoHilo
<1>1. ASSUME UNCHANGED <<list_procss_recibidos, tabla_paginas, hilo>> PROVE Igual
  BY <1>0, <1>1, MismasTablas
<1>2. ASSUME NEW c \in Causas, Caer(c) PROVE Igual
  BY <1>1, <1>2 DEF Caer
<1>3. ASSUME NEW p \in Procesos, IniciarEstructura(p) PROVE Reparto!Crear(p)
  <2>1. p \notin list_procss_recibidos
    BY <1>t, <1>3 DEF IniciarEstructura
  <2>2. tabla_paginas' = tabla_paginas /\ tabla_paginas[p] = <<>>
    <3>1. tabla_paginas[p] = <<>>
      BY <1>3 DEF IniciarEstructura, IInv, EnReposo
    <3> QED
      BY <3>1, <1>3, <1>t DEF IniciarEstructura
  <2>3. hilo' = hilo /\ list_procss_recibidos' = list_procss_recibidos \union {p}
    BY <1>3 DEF IniciarEstructura
  <2>4. Saldo(hilo["cpu"], p) = 0
    BY <1>0, <1>3 DEF Saldo, IniciarEstructura, HilosCoherentes, EnCrecimiento,
       EnReduccion
  <2>5. \A q \in Procesos : cuota'[q] = cuota[q]
    <3>1. Len(tabla_paginas[p]) = 0
      BY <2>2, EmptySeq
    <3> QED
      BY <1>p, <2>1, <2>2, <2>3, <2>4, <3>1 DEF CuotaPorPartes
  <2>6. cuota' = cuota
    BY <2>5 DEF cuota
  <2> QED
    BY <2>1, <2>3, <2>6 DEF Reparto!Crear
<1>4. ASSUME NEW p \in Procesos, LiberarEstructura(p) PROVE Reparto!Liberar(p)
  <2>1. /\ p \in list_procss_recibidos
        /\ list_procss_recibidos' = list_procss_recibidos \ {p}
        /\ tabla_paginas' = tabla_paginas
    BY <1>4 DEF LiberarEstructura
  <2>2. hilo'["cpu"] = hilo["cpu"]
    BY <1>0, <1>4, SigueValor DEF LiberarEstructura, Hilos
  <2>3. \A q \in Procesos : cuota'[q] = IF q = p THEN 0 ELSE cuota[q]
    BY <1>p, <2>1, <2>2 DEF CuotaPorPartes
  <2>4. cuota' = [cuota EXCEPT ![p] = 0]
    BY <2>3 DEF cuota
  <2> QED
    BY <2>1, <2>4 DEF Reparto!Liberar
<1>5. ASSUME DestruirPagina PROVE Igual
  <2>1. hilo'["cpu"] = hilo["cpu"]
    BY <1>0, <1>5, SigueValor DEF DestruirPagina, Hilos
  <2>2. \A q \in Procesos \ {hilo["kernel"].pid} : tabla_paginas'[q] = tabla_paginas[q]
    BY <1>5, <1>t DEF DestruirPagina
  <2>3. /\ hilo["kernel"].pid \notin list_procss_recibidos
        /\ UNCHANGED list_procss_recibidos
    BY <1>5 DEF DestruirPagina, FueraDeLista
  <2>4. \A q \in list_procss_recibidos : tabla_paginas'[q] = tabla_paginas[q]
    BY <1>t, <2>2, <2>3
  <2> QED
    BY <1>0, <2>1, <2>3, <2>4, MismaCuota
<1>6. ASSUME FinDestruir PROVE Igual
  <2>1. hilo'["cpu"] = hilo["cpu"]
    BY <1>0, <1>6, SigueValor DEF FinDestruir, Hilos
  <2> QED
    BY <1>0, <1>6, <2>1, MismasTablas DEF FinDestruir
\* the steps of the CPU's thread that only change where it stands in its loop
<1>7. ASSUME NEW r, Sigue("cpu", r), UNCHANGED <<list_procss_recibidos, tabla_paginas>>,
             r.pid = hilo["cpu"].pid, r.faltan = hilo["cpu"].faltan,
             \/ r.pc \in EnCrecimiento /\ hilo["cpu"].pc \in EnCrecimiento
             \/ /\ r.pc \in EnReduccion /\ hilo["cpu"].pc \in EnReduccion
      PROVE  Igual
  <2>1. hilo'["cpu"] = r
    BY <1>0, <1>7, SigueValor DEF Hilos
  <2>2. \A p \in Procesos : Saldo(hilo'["cpu"], p) = Saldo(hilo["cpu"], p)
    BY <1>7, <2>1 DEF Saldo, EnCrecimiento, EnReduccion
  <2> QED
    BY <1>0, <1>7, <2>2, MismasTablas
<1>8. ASSUME NEW h \in Hilos, SoltarNew(h) \/ SoltarOld(h) PROVE Igual
  <2>1. CASE Caer("doble free")
    BY <1>2, <2>1 DEF Causas
  <2>2. CASE ~Caer("doble free")
    <3>1. UNCHANGED <<list_procss_recibidos, tabla_paginas>>
      BY <1>8, <2>2 DEF SoltarNew, SoltarOld
    <3>2. \/ Sigue(h, [hilo[h] EXCEPT !.pc = "soltar_old"])
          \/ Sigue(h, [hilo[h] EXCEPT !.pc = PcTrasSoltar(h), !.marco = NULO])
      BY <1>8, <2>2 DEF SoltarNew, SoltarOld
    <3>3. CASE h = "kernel"
      BY <1>0, <3>1, <3>2, <3>3, SigueValor, MismasTablas DEF Hilos
    <3>4. CASE h = "cpu"
      <4>1. hilo["cpu"].pc \in EnReduccion
        BY <1>8, <3>4 DEF SoltarNew, SoltarOld, EnReduccion
      <4>2. PICK r : /\ Sigue("cpu", r)
                     /\ \/ r = [hilo["cpu"] EXCEPT !.pc = "soltar_old"]
                        \/ r = [hilo["cpu"] EXCEPT !.pc = "eliminar", !.marco = NULO]
        BY <3>2, <3>4 DEF PcTrasSoltar
      <4>3. /\ r.pid = hilo["cpu"].pid /\ r.faltan = hilo["cpu"].faltan
            /\ r.pc \in EnReduccion
        BY <4>2, <1>c DEF EstadoHilo, EnReduccion
      <4> QED
        BY <1>7, <3>1, <4>1, <4>2, <4>3
    <3> QED
      BY <3>3, <3>4 DEF Hilos
  <2> QED
    BY <2>1, <2>2
<1>9. ASSUME ObtenerMarcoLibre \/ MoverInfo \/ ReservarInfo, \A c \in Causas : ~Caer(c)
      PROVE  Igual
  <2>1. UNCHANGED <<list_procss_recibidos, tabla_paginas>>
    BY <1>9 DEF ObtenerMarcoLibre, MoverInfo, ReservarInfo, Causas
  <2>2. hilo["cpu"].pc \in EnCrecimiento
    BY <1>9 DEF ObtenerMarcoLibre, MoverInfo, ReservarInfo, EnCrecimiento
  <2>3. PICK r, m : /\ Sigue("cpu", r)
                    /\ \/ r = [hilo["cpu"] EXCEPT !.pc = "elegido", !.marco = m]
                       \/ r = [hilo["cpu"] EXCEPT !.pc = "movido"]
                       \/ r = [hilo["cpu"] EXCEPT !.pc = "reservado"]
    BY <1>9 DEF ObtenerMarcoLibre, MoverInfo, ReservarInfo, Causas
  <2>4. /\ r.pid = hilo["cpu"].pid /\ r.faltan = hilo["cpu"].faltan
        /\ r.pc \in EnCrecimiento
    BY <2>3, <1>c DEF EstadoHilo, EnCrecimiento
  <2> QED
    BY <1>7, <2>1, <2>2, <2>3, <2>4
<1>10. ASSUME OcuparMarco PROVE Igual
  <2> DEFINE c == hilo["cpu"]
  <2>1. hilo'["cpu"] = [c EXCEPT !.pc = "agregar", !.faltan = @ - 1, !.marco = NULO]
    BY <1>0, <1>10, SigueValor DEF OcuparMarco, Hilos
  <2>2. c.pid \in Procesos /\ c.marco \in Marcos /\ c.faltan > 0
    BY <1>0, <1>10, <1>t DEF OcuparMarco, HilosCoherentes
  <2>3. \A q \in Procesos \ {c.pid} : tabla_paginas'[q] = tabla_paginas[q]
    BY <1>10, <1>t DEF OcuparMarco
  <2>4. Len(tabla_paginas'[c.pid]) = Len(tabla_paginas[c.pid]) + 1
    <3>1. tabla_paginas'[c.pid] = Append(tabla_paginas[c.pid], c.marco)
      BY <1>10, <1>t, <2>2 DEF OcuparMarco
    <3> QED
      BY <3>1, <2>2, <1>t, AppendProperties
  <2>5. /\ Saldo(hilo'["cpu"], c.pid) = Saldo(c, c.pid) - 1
        /\ Saldo(c, c.pid) \in Int
        /\ \A q \in Procesos \ {c.pid} : Saldo(hilo'["cpu"], q) = Saldo(c, q)
    BY <1>c, <1>10, <2>1 DEF Saldo, EnCrecimiento, OcuparMarco, EstadoHilo
  <2>6. \A q \in Procesos : Len(tabla_paginas'[q]) + Saldo(hilo'["cpu"], q)
                              = Len(tabla_paginas[q]) + Saldo(c, q)
    <3>1. Len(tabla_paginas[c.pid]) \in Nat
      BY <1>p, <2>2 DEF CuotaPorPartes
    <3>2. \A q \in Procesos \ {c.pid} :
            Len(tabla_paginas'[q]) + Saldo(hilo'["cpu"], q)
              = Len(tabla_paginas[q]) + Saldo(c, q)
      BY <2>3, <2>5
    <3>3. Len(tabla_paginas'[c.pid]) + Saldo(hilo'["cpu"], c.pid)
            = Len(tabla_paginas[c.pid]) + Saldo(c, c.pid)
      <4>1. /\ Saldo(hilo'["cpu"], c.pid) = Saldo(c, c.pid) - 1
            /\ Saldo(c, c.pid) \in Int
        BY <2>5
      <4> HIDE DEF c
      <4> QED
        BY <2>4, <3>1, <4>1
    <3> QED
      BY <3>2, <3>3
  <2>7. UNCHANGED list_procss_recibidos
    BY <1>10 DEF OcuparMarco
  <2> QED
    BY <1>0, <1>t, <2>6, <2>7, MismaCuota
<1>11. ASSUME EliminarPagina PROVE Igual
  <2> DEFINE c == hilo["cpu"]
             t == tabla_paginas[c.pid]
  <2>1. hilo'["cpu"] = [c EXCEPT !.pc = "soltar_new", !.faltan = @ - 1,
                                 !.marco = t[Len(t)]]
    BY <1>0, <1>11, SigueValor DEF EliminarPagina, Hilos
  <2>2. c.pid \in Procesos /\ c.faltan > 0 /\ c.faltan <= Len(t)
    BY <1>0, <1>11, <1>t DEF EliminarPagina, HilosCoherentes, EnReduccion
  <2>3. \A q \in Procesos \ {c.pid} : tabla_paginas'[q] = tabla_paginas[q]
    BY <1>11, <1>t DEF EliminarPagina
  <2>4. Len(tabla_paginas'[c.pid]) = Len(t) - 1
    <3>1. tabla_paginas'[c.pid] = SubSeq(t, 1, Len(t) - 1)
      BY <1>11, <1>t, <2>2 DEF EliminarPagina
    <3>2. Len(t) \in Nat /\ Len(t) > 0 /\ t \in Seq(Marcos)
      BY <1>c, <1>p, <1>t, <2>2 DEF CuotaPorPartes
    <3> QED
      BY <3>1, <3>2, SubSeqProperties
  <2>5. /\ Saldo(hilo'["cpu"], c.pid) = Saldo(c, c.pid) + 1
        /\ Saldo(c, c.pid) \in Int
        /\ \A q \in Procesos \ {c.pid} : Saldo(hilo'["cpu"], q) = Saldo(c, q)
    BY <1>c, <1>11, <2>1
    DEF Saldo, EnCrecimiento, EnReduccion, EliminarPagina, EstadoHilo
  <2>6. \A q \in Procesos : Len(tabla_paginas'[q]) + Saldo(hilo'["cpu"], q)
                              = Len(tabla_paginas[q]) + Saldo(c, q)
    <3>1. Len(tabla_paginas[c.pid]) \in Nat
      BY <1>p, <2>2 DEF CuotaPorPartes
    <3>2. \A q \in Procesos \ {c.pid} :
            Len(tabla_paginas'[q]) + Saldo(hilo'["cpu"], q)
              = Len(tabla_paginas[q]) + Saldo(c, q)
      BY <2>3, <2>5
    <3>3. Len(tabla_paginas'[c.pid]) + Saldo(hilo'["cpu"], c.pid)
            = Len(tabla_paginas[c.pid]) + Saldo(c, c.pid)
      <4>1. /\ Saldo(hilo'["cpu"], c.pid) = Saldo(c, c.pid) + 1
            /\ Saldo(c, c.pid) \in Int
        BY <2>5
      <4> HIDE DEF c
      <4> QED
        BY <2>4, <3>1, <4>1
    <3> QED
      BY <3>2, <3>3
  <2>7. UNCHANGED list_procss_recibidos
    BY <1>11 DEF EliminarPagina
  <2> QED
    BY <1>0, <1>t, <2>6, <2>7, MismaCuota
<1>12. ASSUME ResponderResize PROVE Igual
  <2>1. hilo'["cpu"] = Reposo
    BY <1>0, <1>12, SigueValor DEF ResponderResize, BucleTerminado, Hilos
  <2>2. \A p \in Procesos : Saldo(hilo["cpu"], p) = 0 /\ Saldo(Reposo, p) = 0
    BY <1>12 DEF ResponderResize, Saldo, Reposo, EnCrecimiento, EnReduccion
  <2> QED
    BY <1>0, <1>12, <2>1, <2>2, MismasTablas DEF ResponderResize, BucleTerminado
\* a quota changes: granted whole, or taken whole
<1>13. ASSUME NEW p \in Procesos, UNCHANGED <<list_procss_recibidos, tabla_paginas>>,
              \A q \in Procesos \ {p} : /\ Saldo(hilo["cpu"], q) = 0
                                        /\ Saldo(hilo'["cpu"], q) = 0,
              Saldo(hilo'["cpu"], p) <= cantidad_de_marcos_libres
       PROVE  Igual \/ \E n \in 0..CantMarcos : Reparto!Ajustar(p, n)
  <2>1. CASE p \notin list_procss_recibidos
    <3>1. \A q \in list_procss_recibidos :
            Len(tabla_paginas'[q]) + Saldo(hilo'["cpu"], q)
              = Len(tabla_paginas[q]) + Saldo(hilo["cpu"], q)
      BY <1>13, <1>t, <2>1
    <3> QED
      BY <1>0, <1>13, <3>1, MismaCuota
  <2>2. CASE p \in list_procss_recibidos
    <3>1. \A q \in Procesos \ {p} : cuota'[q] = cuota[q]
      BY <1>p, <1>13 DEF CuotaPorPartes
    <3>2. cuota' = [cuota EXCEPT ![p] = cuota'[p]]
      BY <3>1 DEF cuota
    <3>3. \A q \in Procesos : cuota'[q] <= Len(tabla_paginas[q])
                                             + (IF q = p THEN cantidad_de_marcos_libres ELSE 0)
      <4>1. cantidad_de_marcos_libres \in Nat
        BY MarcosLibresFinito
      <4>2. \A q \in Procesos : Len(tabla_paginas'[q]) = Len(tabla_paginas[q])
        BY <1>13
      <4>3. \A q \in Procesos : cuota'[q] = 0 \/
                cuota'[q] = Len(tabla_paginas[q]) + Saldo(hilo'["cpu"], q)
        BY <1>p, <4>2 DEF CuotaPorPartes
      <4>4. \A q \in Procesos : /\ Len(tabla_paginas[q]) \in Nat
                                /\ Saldo(hilo'["cpu"], q) \in Int
        BY <1>p DEF CuotaPorPartes
      <4>5. \A q \in Procesos \ {p} : cuota'[q] <= Len(tabla_paginas[q])
        BY <1>13, <4>3, <4>4
      <4>6. cuota'[p] <= Len(tabla_paginas[p]) + cantidad_de_marcos_libres
        BY <1>13, <4>1, <4>3, <4>4
      <4>7. \A q \in Procesos \ {p} : cuota'[q] <= Len(tabla_paginas[q]) + 0
        BY <4>4, <4>5
      <4> QED
        BY <4>6, <4>7
    <3>4. cuota' \in [Procesos -> Nat]
      <4>1. \A q \in Procesos : cuota'[q] \in Nat
        <5>1. CuotasNaturales'
          BY CuotaNatural, PTL
        <5> QED
          BY <5>1 DEF CuotasNaturales
      <4> QED
        BY <4>1 DEF cuota
    <3>5. /\ Reparto!Total(cuota') <= CantMarcos
          /\ cuota'[p] <= CantMarcos
      <4> DEFINE d == cuota'
      <4>1. \A q \in Procesos \ {p} : d[q] <= Len(tabla_paginas[q])
        BY <1>p, <3>3 DEF CuotaPorPartes
      <4>2. d[p] <= Len(tabla_paginas[p]) + cantidad_de_marcos_libres
        BY <3>3
      <4>3. MarcosExclusivos /\ LibreSiiSinPagina /\ d \in [Procesos -> Nat]
        BY <3>4 DEF IInv
      <4> HIDE DEF d
      <4>4. Reparto!Total(d) <= CantMarcos /\ d[p] <= CantMarcos
        BY <1>0, <4>1, <4>2, <4>3, CuotaCabe
      <4> QED
        BY <4>4 DEF d
    <3>6. cuota'[p] \in 0..CantMarcos
      BY <3>4, <3>5, MemoriaAssumption
    <3> QED
      BY <1>13, <2>2, <3>2, <3>5, <3>6 DEF Reparto!Ajustar
  <2> QED
    BY <2>1, <2>2
<1>14. ASSUME PuedoCargar
       PROVE  Igual \/ \E p \in Procesos, n \in 0..CantMarcos : Reparto!Ajustar(p, n)
  <2> DEFINE p == hilo["cpu"].pid
  <2>1. p \in Procesos /\ UNCHANGED <<list_procss_recibidos, tabla_paginas>>
    BY <1>0, <1>t, <1>14 DEF PuedoCargar, HilosCoherentes
  <2>2. \A q \in Procesos : Saldo(hilo["cpu"], q) = 0
    BY <1>14 DEF PuedoCargar, Saldo, EnCrecimiento, EnReduccion
  <2>3. CASE HayLugar(hilo["cpu"].faltan)
    <3>1. hilo'["cpu"] = [hilo["cpu"] EXCEPT !.pc = "agregar"]
      BY <1>0, <1>14, <2>3, SigueValor DEF PuedoCargar, Hilos
    <3>2. /\ \A q \in Procesos \ {p} : Saldo(hilo'["cpu"], q) = 0
          /\ Saldo(hilo'["cpu"], p) = hilo["cpu"].faltan
      BY <1>c, <3>1 DEF Saldo, EstadoHilo, EnCrecimiento
    <3>3. hilo["cpu"].faltan <= cantidad_de_marcos_libres
      BY <2>3 DEF HayLugar
    <3> HIDE DEF p
    <3> QED
      BY <1>13, <2>1, <2>2, <3>2, <3>3
  <2>4. CASE ~HayLugar(hilo["cpu"].faltan)
    <3>1. hilo'["cpu"] = Reposo
      BY <1>0, <1>14, <2>4, SigueValor DEF PuedoCargar, Hilos
    <3>2. \A q \in Procesos : Saldo(hilo'["cpu"], q) = 0
      BY <3>1 DEF Saldo, Reposo, EnCrecimiento, EnReduccion
    <3> QED
      BY <1>0, <2>1, <2>2, <3>2, MismasTablas
  <2> QED
    BY <2>3, <2>4
<1>15. ASSUME NEW p \in Procesos, NEW bytes \in 0..MaxTamanio, Resize(p, bytes)
       PROVE  Igual \/ \E n \in 0..CantMarcos : Reparto!Ajustar(p, n)
  <2> DEFINE nuevas == PaginasDe(bytes)
             actuales == Len(tabla_paginas[p])
             r == IF nuevas >= actuales
                  THEN [pc |-> "ampliar", pid |-> p, faltan |-> nuevas - actuales,
                        marco |-> NULO]
                  ELSE [pc |-> "eliminar", pid |-> p, faltan |-> actuales - nuevas,
                        marco |-> NULO]
  <2>1. Sigue("cpu", r)
    BY <1>15 DEF Resize
  <2>2. hilo["cpu"].pc = "reposo" /\ UNCHANGED <<list_procss_recibidos, tabla_paginas>>
    BY <1>15 DEF Resize, CpuPuedePedir
  <2>3. nuevas \in Nat /\ actuales \in Nat
    <3>1. PaginasDe(bytes) \in Nat
      BY MemoriaAssumption DEF PaginasDe
    <3> QED
      BY <1>p, <3>1 DEF CuotaPorPartes
  <2>4. /\ r.pid = p
        /\ r.pc = "ampliar" \/ (r.pc = "eliminar" /\ r.faltan > 0 /\ r.faltan \in Nat)
    BY <2>3
  <2> HIDE DEF r
  <2>5. hilo'["cpu"] = r
    BY <1>0, <2>1, SigueValor DEF Hilos
  <2>6. /\ \A q \in Procesos : Saldo(hilo["cpu"], q) = 0
        /\ \A q \in Procesos \ {p} : Saldo(r, q) = 0
    BY <2>2, <2>4 DEF Saldo, EnCrecimiento, EnReduccion
  <2>7. Saldo(r, p) <= cantidad_de_marcos_libres
    <3>1. cantidad_de_marcos_libres \in Nat
      BY MarcosLibresFinito
    <3> QED
      BY <2>4, <3>1 DEF Saldo, EnCrecimiento, EnReduccion
  <2> QED
    BY <1>13, <2>2, <2>5, <2>6, <2>7
<1>17. ASSUME NEW p \in Procesos,
              \/ LiberarDesconocido(p)
              \/ \E pagina \in 0..PaginasDe(MaxTamanio) : ConsultaDePagina(p, pagina)
       PROVE  Igual
  <2>1. (\E c \in Causas : Caer(c)) \/ UNCHANGED <<list_procss_recibidos, tabla_paginas, hilo>>
    BY <1>17 DEF LiberarDesconocido, ConsultaDePagina, Causas
  <2> QED
    BY <1>1, <1>2, <2>1
<1>16. ASSUME HilosIO \/ Terminado \/ UNCHANGED vars PROVE Igual
  BY <1>1, <1>16 DEF HilosIO, PedirIO, AccederIO, Terminado, vars
<1> QED
  BY <1>2, <1>3, <1>4, <1>5, <1>6, <1>8, <1>9, <1>10, <1>11, <1>12, <1>14,
     <1>15, <1>16, <1>17 DEF Next, HiloKernel, HiloCpu, Hilos, Reparto!Next

\* Whatever the interleaving of the two threads, a RESIZE is granted at once
\* and whole, within the installed memory, or leaves the quotas as they are.
THEOREM MemoriaReparto == Spec => ImplementaReparto
<1>1. Init => Reparto!Init
  <2> SUFFICES ASSUME Init PROVE Reparto!Init
    OBVIOUS
  <2>1. \A p \in Procesos : p \notin list_procss_recibidos
    BY DEF Init
  <2>2. cuota = [p \in Procesos |-> 0]
    BY <2>1 DEF cuota
  <2> QED
    BY <2>2 DEF Init, Reparto!Init
<1>2. IInv /\ FueraDeLista /\ [Next]_vars => FueraDeLista'
  BY NextFueraDeLista
<1>3. IInv /\ IInv' /\ FueraDeLista /\ [Next]_vars
        => [Reparto!Next]_(Reparto!repartoVars)
  BY PasoReparto
<1> QED
  BY InitFueraDeLista, <1>1, <1>2, <1>3, SpecIInv, PTL
  DEF Spec, ImplementaReparto, Reparto!Spec
==============================================================================
